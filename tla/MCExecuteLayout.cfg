CONSTANTS
  Registers <- TwoRegisters
  ArgRegisters <- SomeArgs
  CallerSave <- Clobbered
  CalleeSave <- Preserved
  Funcs <- IfTupleFuncs
  Programs <- IfTuplePrograms
SPECIFICATION ExecSpec
CHECK_DEADLOCK FALSE
INVARIANT
  KnowsLayout
