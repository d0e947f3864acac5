CONSTANTS
  Programs <- AllPrograms
  Extras <- AllExtras
SPECIFICATION Spec
INVARIANTS ProgramsLink MeantIsCalled
CHECK_DEADLOCK FALSE
