CONSTANTS
  Depth = 3
  Sources <- AllSources
SPECIFICATION Spec
CHECK_DEADLOCK FALSE
INVARIANTS
  TypesSound
  UncoverKeepsMeaning
  CpsKeepsMeaning
  LowersUnless
  CFGConsistent
  SingleAssignment
  InOrderUnlessNested
  SameMeaning
  TuplesKnown
