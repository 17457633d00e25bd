\* Requests of no bytes.
CONSTANTS
  Slots = {1, 2}
  Sizes = {0, 1}
  SIZE = 6
  MAX_COUNT = 5
  Variants = {"lastalloc"}
SPECIFICATION Spec
INVARIANT NoOverlap
CHECK_DEADLOCK FALSE
