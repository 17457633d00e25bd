SPECIFICATION Spec
CONSTANTS
  FileSizes = {0, 1, 7}
  Limits = {0, 4}
  Blocks = {1, 2, 3}
  Strides = {3, 4, 9}
  Disks = {5}
  PIPE_SIZE = 2
  BUFSIZ = 3
  SIZE_MAX = 99
INVARIANTS
  BytesRight
PROPERTIES
  ImplementsCopier
  ShortReadIsEnd
  ProgramEnds
