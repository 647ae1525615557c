SPECIFICATION Spec
CONSTANTS
 b1 = b1
 Books <- OneBook
 Fields <- Titles
 Tags <- TwoTags
 Texts <- Spellings
 Library <- MixedLibrary
 Recorded <- MixedRuns
 Workers = {w1, w2}
 Reverters = {v1}
 Careful = FALSE
 Forces = {TRUE, FALSE}
 MaxRuns = 4
 MaxEdits = 1
 MaxFaults = 1
CHECK_DEADLOCK FALSE
SYMMETRY InterchangeableWorkers
INVARIANTS
  NothingForgotten
  ReportMatchesUndo
PROPERTIES
  WriteAhead
