CONSTANTS
  Header = 1
  Word = 1
  Align = 2
  Page = 2
  SizeMod = 8
  MaxElem = 2
  MaxLen = 3
  HeapSizes = {0, 6}
  NElems = {1, 3}
  HeapBound = 7
  StackSlots = 1
  Data = {d}
  NULL = NULL
  JUNK = JUNK
SPECIFICATION Spec
CHECK_DEADLOCK FALSE
INVARIANTS
  AllocInBounds
  CopiesFit
PROPERTIES
  
  CallsReturn
