SPECIFICATION FairSpec
CONSTANTS
 MaxRuns = 3
 HistoryLimit = 1
 Schedules = {s1}
 MaxUpsets = 1
INVARIANTS
  QueueMatchesTable
PROPERTIES
  StopIsHonoured
  Abstract
  AcceptedRunsEnd
  DueSchedulesAreServed
