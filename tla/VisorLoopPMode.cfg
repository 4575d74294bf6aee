\* A protected-mode guest, with the intercepts that SetupVMCB has commented out.
SPECIFICATION Spec
CONSTANTS
  W = 4
  H = 2
  Start <- MCStart
  Handlers <- MCHandlers
  RegFiles <- MCRegFilesEdd
  IntVectors = {19, 21, 33}
  IrqVectors = {8}
  Exceptions <- MCExceptionsDB
  ExcIntercepts <- AllExceptions
  Intercepts <- CR0AndNMI
  FaultingGates <- MCIntFaults
  InitialInj <- Zeroed
INVARIANTS EventIntegrity IInv AnswerSettled
CHECK_DEADLOCK FALSE
