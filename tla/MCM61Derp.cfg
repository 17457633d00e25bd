\* Requests of one to four bytes from a buffer of eight, in blocks of two.
CONSTANTS
  Slots = {1, 2, 3}
  Sizes = {1, 2, 3, 4}
  SIZE = 8
  ALIGN = 2
  WORD = 32
  MAX_COUNT = 6
SPECIFICATION Spec
INVARIANT BooksRight
PROPERTIES ImplementsMalloc61 SplitFits
CHECK_DEADLOCK FALSE
