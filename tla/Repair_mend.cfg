SPECIFICATION Spec
CONSTANTS
  Books = {"folder", "bare"}
  Libraries = {"library"}
  LibraryOf <- MCLibraryOf
  NoBook = NoBook
  NoLibrary = NoLibrary
  Bare = {"bare"}
  Ino <- MCIno
  Copy <- MCCopy
  Length <- MCLength
  Shelf <- MCShelf
  MaxRuns = 2
  MaxUpsets = 1
INVARIANTS
  QuietRepairsTake
PROPERTIES
  RepairedIsWhole
  DropsAreOnRecord
  RunsEnd
