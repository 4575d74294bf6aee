\* The shipped layout; every disk read may stop anywhere.
SPECIFICATION Spec
CONSTANTS
  Globals = 4
  MemMap = 60
INVARIANTS TypeOK TablesBehindRegisters VisorRunsItsImage GuestBootsMbr
  GuestStateComplete BiosIntact
