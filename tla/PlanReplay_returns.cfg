SPECIFICATION Spec
CONSTANTS
 b1 = b1
 Books <- OneBook
 Fields <- Titles
 Tags <- NoTags
 Texts <- Spellings
 Library <- ReturningLibrary
 Recorded <- ReturningRuns
 Workers = {w1}
 Reverters = {v1}
 Careful = TRUE
 Forces = {FALSE}
 MaxRuns = 4
 MaxEdits = 1
 MaxFaults = 0
CHECK_DEADLOCK FALSE
INVARIANTS WayBack

