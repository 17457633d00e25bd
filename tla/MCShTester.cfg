\* Set-up and ps may fail; the tester may die once its governor knows it.
CONSTANTS
  Jobs = {"job1", "job2"}
  MAX_TIME = 3
  TIME_LIMIT = 2
  AfterCount <- MCAfterCount
  ROUNDS = 3
  MaySetupFail = TRUE
  MayListFail = TRUE
  EarlyDeath = FALSE
SPECIFICATION FairSpec
INVARIANTS SignalsRight RunReturnsRight NothingLeft
PROPERTY EveryTestEnds
