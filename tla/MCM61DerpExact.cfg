\* A request that fills a free block exactly overwrites the next block's entry.
CONSTANTS
  Slots = {1, 2}
  Sizes = {2}
  SIZE = 8
  ALIGN = 2
  WORD = 32
  MAX_COUNT = 4
SPECIFICATION Spec
INVARIANT DoubleFreeIsOne
CHECK_DEADLOCK FALSE
