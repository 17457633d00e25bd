\* All four allocators, three live allocations of one to three bytes.
CONSTANTS
  Slots = {1, 2, 3}
  Sizes = {1, 2, 3}
  SIZE = 6
  MAX_COUNT = 5
  Variants = {"section", "lastalloc", "reuseempty", "staff"}
SPECIFICATION Spec
INVARIANTS BooksRight SpaceComesBack AbortsOnMisuse
PROPERTY ImplementsMalloc61
CHECK_DEADLOCK FALSE
