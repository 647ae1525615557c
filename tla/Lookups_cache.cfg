SPECIFICATION Spec
CONSTANTS
  Workers = {"one", "two"}
  Providers = 1
  Questions = {"title"}
  NoQuestion = "none"
  Key <- MCKey
  Asked <- MCAsked
  World <- MCWorld
  GiveUpAfter = 2
  CacheDays = 3
  MaxDay = 3
  MaxRuns = 2
  MaxLookups = 4
CHECK_DEADLOCK FALSE
INVARIANTS
  AnswersAreTimely
  RefusalsAreBounded
  RowsAreAnswers
