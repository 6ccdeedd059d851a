CONSTANTS
  Registers <- TwoRegisters
  ArgRegisters <- SomeArgs
  CallerSave <- Clobbered
  CalleeSave <- Preserved
  Funcs <- ProductFuncs
  Programs <- ProductPrograms
SPECIFICATION ExecSpec
CHECK_DEADLOCK FALSE
INVARIANT
  SameBehaviour
