\* Lines of up to five characters and a newline fit the buffer; scripts do not.
CONSTANTS
  Scripts <- MCScripts
  BUFSIZ = 8
  MAX_EINTR = 1
SPECIFICATION Spec
INVARIANTS LoopRight LinesParsed
PROPERTY ShellEnds
