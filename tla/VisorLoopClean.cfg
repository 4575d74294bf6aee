\* The clean bits after an emulated INT.
SPECIFICATION Spec
CONSTANTS
  W = 4
  H = 1
  Start <- MCStart
  Handlers <- MCHandlers
  RegFiles <- MCRegFiles
  IntVectors = {19, 21, 33}
  IrqVectors = {8}
  Exceptions <- MCExceptions
  ExcIntercepts <- Shipped
  Intercepts <- None
  FaultingGates <- NoFaults
  InitialInj <- Zeroed
PROPERTY EmulationMarksSEG
CHECK_DEADLOCK FALSE
