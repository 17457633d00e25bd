\* The tester may die before its governor has called getppid().
CONSTANTS
  Jobs = {"job1"}
  MAX_TIME = 3
  TIME_LIMIT = 2
  AfterCount <- MCAfterCount
  ROUNDS = 3
  MaySetupFail = FALSE
  MayListFail = FALSE
  EarlyDeath = TRUE
SPECIFICATION FairSpec
PROPERTY GovernorEnds
