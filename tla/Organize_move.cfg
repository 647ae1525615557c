SPECIFICATION Spec
CONSTANTS
  Books = {"one", "two", "tre"}
  Library <- MCLibrary
  Parts <- MCParts
  First <- MCFirst
  Root <- MCRoot
  Layout <- MCLayout
  Mounts <- MCMounts
  Roots <- MCRoots
  Strangers <- MCStrangers
  MaxRuns = 2
  MaxUpsets = 2
CHECK_DEADLOCK FALSE
INVARIANTS
  DiskIsSound
  ReportMatchesDisk
  ServerIsTold
