\* Two allocators with one heap page each, all three boot commands; process 1
\* may fault, trap or panic at any time.
CONSTANTS
  MAXNPROC = 3
  NPAGES = 11
  PROC_START = 5
  PROC_SIZE = 3
  IMAGE_SIZE = 1
  NALLOC = 2
  Unallocatable <- MCUnallocatable
  Reserved <- MCReserved
  ConsolePage = 4
  HZ = 4
  SPIN_PERIOD = 2
  Commands = {"allocators", "fork", "exit"}
  FaultyPids = {1}
SPECIFICATION FairSpec
INVARIANTS TypeOK PageAccounting Isolation ViewerRight AssertionsHold
PROPERTIES FaultedFrozen ImplementsOwnership EveryoneServed
