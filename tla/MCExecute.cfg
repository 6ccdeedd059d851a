CONSTANTS
  Registers <- TwoRegisters
  ArgRegisters <- SomeArgs
  CallerSave <- Clobbered
  CalleeSave <- Preserved
  Funcs <- AllFuncs
  Programs <- AllPrograms
SPECIFICATION ExecSpec
CHECK_DEADLOCK FALSE
INVARIANTS
  TypeOK
  LivenessExact
  EveryVarHasHome
  SameBehaviour
  RootsHoldTuples
  CallerSeesNothing
  HomesApart
  SlotsInFrame
