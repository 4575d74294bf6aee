\* A guest that asks INT 13h/48h for the extended drive parameters.
SPECIFICATION Spec
CONSTANTS
  W = 4
  H = 1
  Start <- MCStart
  Handlers <- MCHandlers
  RegFiles <- MCRegFilesEdd
  IntVectors = {19, 21, 33}
  IrqVectors = {8}
  Exceptions <- MCExceptions
  ExcIntercepts <- Shipped
  Intercepts <- None
  FaultingGates <- NoFaults
  InitialInj <- Zeroed
PROPERTY EmulatesListedCalls
CHECK_DEADLOCK FALSE
