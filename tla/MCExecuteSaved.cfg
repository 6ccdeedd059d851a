CONSTANTS
  Registers <- TwoSaved
  ArgRegisters <- SomeArgs
  CallerSave <- Clobbered
  CalleeSave <- Preserved
  Funcs <- SavedFuncs
  Programs <- SavedPrograms
SPECIFICATION ExecSpec
CHECK_DEADLOCK FALSE
INVARIANTS
  AllocInv
  LiveInv
  CodeInv
  MachineInv
  NoClobber
  SurvivesCalls
  SameBehaviour
  CallerSeesNothing
PROPERTIES
  Finishes
