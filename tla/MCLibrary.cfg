CONSTANTS
  Printers = {p1, p2}
  CONSOLE_ROWS = 4
  CONSOLE_COLUMNS = 2
  EBUFSIZ = 6
  Texts <- MCTexts
  Messages <- MCMessages
  MAX_CALLS = 3
  QUEUE_SIZE = 3
  MAX_EVENTS = 4
  SIZE_MAX = 511
  KILO = 4
  DBL_BITS = 6
  CommandLines <- MCCommandLines
  ManyInputs = FALSE
  ManyOutputs = FALSE
  DefaultBlock = 2
  LONG_BITS = 8
  RAND_MAX = 31
  INT_BITS = 8
  PTR_BITS = 12
  NUMBUFSIZ = 32
  PAGESIZE = 32
  WORD = 4
  VA_LOWMAX = 64
  VA_HIGHMIN = 192
  Addresses <- MCAddresses
  PresentPages <- MCPresentPages
  Far = 50
  Near = 16
  CallBefore <- MCCallBefore
  words <- MCwords
  MAX_WORDS = 3
  BUFFER = 4
  Threads = {t1, t2, t3}
  SECTORSIZE = 4
  IMAGE_PAGE = 8
  MEMORY = 24
SPECIFICATION Spec
CHECK_DEADLOCK FALSE
INVARIANTS
  ConsoleRight KeyboardRight BacktraceSafe ProgramsRight LibraryRight ImagesRight GuardRight
