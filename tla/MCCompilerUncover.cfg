CONSTANTS
  Depth = 3
  Sources <- IfTrue
SPECIFICATION Spec
CHECK_DEADLOCK FALSE
INVARIANT
  UncoversUnshadowed
