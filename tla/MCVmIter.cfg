SPECIFICATION Spec
CONSTANTS
  PAGEOFFBITS = 1
  PAGEINDEXBITS = 2
  WORDBITS = 11
  NPAGES = 5
  Vas = {0, 3, 8, 32, 254, 256, 2046}
  Frames = {2}
  PermArgs = {{}, {"P"}, {"P", "W", "U"}}
  Spans = {0, 1, 2, 3, 9}
INVARIANTS
  IteratorAgrees
  NoUseAfterFree
PROPERTIES
  MapsOnlyItsPage
  AllPagesVisited
