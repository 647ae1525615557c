SPECIFICATION Spec
CONSTANTS
  Books = {"pair", "bare", "odd"}
  Values <- MCValues
  Butler = {"age"}
  Work = "work"
  Shelf <- MCShelf
  Concurrency = 2
  Kinds = {"rate", "metadata", "normalize"}
  MaxUpsets = 1
CHECK_DEADLOCK FALSE
INVARIANTS
  UndoTellsTheTruth
  ReportIsWhatHappened
PROPERTIES
  TakesOnlyWhatCameLater
