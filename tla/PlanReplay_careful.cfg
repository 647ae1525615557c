SPECIFICATION Spec
CONSTANTS
 b1 = b1
 Books <- OneBook
 Fields <- TwoFields
 Tags <- TwoTags
 Texts <- Spellings
 Library <- StudiedLibrary
 Recorded <- StudiedRuns
 Workers = {w1}
 Reverters = {v1}
 Careful = TRUE
 Forces = {FALSE}
 MaxRuns = 4
 MaxEdits = 2
 MaxFaults = 1
CHECK_DEADLOCK FALSE
INVARIANTS WayBack
PROPERTIES HandEditsSurvive SwitchHonoured
