\* A real-mode guest under the VMCB that SetupVMCB builds.
SPECIFICATION FairSpec
CONSTANTS
  W = 4
  H = 1
  Start <- MCStart
  Handlers <- MCHandlers
  RegFiles <- MCRegFiles
  IntVectors = {19, 21, 33}
  IrqVectors = {8}
  Exceptions <- MCExceptions
  ExcIntercepts <- Shipped
  Intercepts <- None
  FaultingGates <- MCIntFaults
  InitialInj <- Zeroed
INVARIANTS TypeOK EventIntegrity
PROPERTIES EveryEventAnswered HaltedGuestWakes RefinesGuestView
CHECK_DEADLOCK FALSE
