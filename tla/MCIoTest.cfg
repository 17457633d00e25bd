\* Two tests that use the cache at the same time.  The first runs its command;
\* its system calls may fail and it may be killed.
CONSTANTS
  Testers = {"t1", "t2"}
  TIME_LIMIT = 1
  MAX_TIME = 1
  TRIALS = 1
  SETUPS = 1
  Running = {"t1"}
  MayFail = {"t1"}
SPECIFICATION FairSpec
INVARIANTS FilesRight NothingLeft
PROPERTY EveryTestEnds
