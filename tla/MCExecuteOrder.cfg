CONSTANTS
  Registers <- TwoRegisters
  ArgRegisters <- SomeArgs
  CallerSave <- Clobbered
  CalleeSave <- Preserved
  Funcs <- NestedFuncs
  Programs <- NestedPrograms
SPECIFICATION ExecSpec
CHECK_DEADLOCK FALSE
INVARIANT
  AnyOrder
