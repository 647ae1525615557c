SPECIFICATION FairSpec
CONSTANTS
 MaxRuns = 2
 HistoryLimit = 1
 Schedules = {s1, s2}
 MaxUpsets = 2
PROPERTIES
  Abstract
  DueSchedulesAreServed
