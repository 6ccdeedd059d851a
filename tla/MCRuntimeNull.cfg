CONSTANTS
  Header = 1
  Word = 1
  Align = 2
  Page = 2
  SizeMod = 64
  MaxElem = 2
  MaxLen = 3
  HeapSizes = {3}
  NElems = {1, 2}
  HeapBound = 6
  StackSlots = 2
  Data = {d}
  NULL = NULL
  JUNK = JUNK
SPECIFICATION Spec
CHECK_DEADLOCK FALSE
INVARIANT SurvivesNullRoots
