CONSTANTS
  Header = 1
  Word = 1
  Align = 1
  Page = 1
  SizeMod = 64
  MaxElem = 2
  MaxLen = 3
  HeapSizes = {3}
  NElems = {1, 2}
  HeapBound = 5
  StackSlots = 2
  Data = {}
  NULL = NULL
  JUNK = JUNK
SPECIFICATION Spec
CHECK_DEADLOCK FALSE
PROPERTY ImplementsTupleHeap
