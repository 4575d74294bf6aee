\* Only the timer fires between the first VMLOAD and the first VMRUN.
SPECIFICATION FairSpec
CONSTANTS
  Early = {0, 1}
  Window = {0}
  Late = {0, 1}
  MaxRaised = 2
  RegFiles = {1, 2}
INVARIANTS TypeOK TicksCountedOnce WorldsKeepTheirRegisters GuestMemoryIntact
  NeverLost
PROPERTIES EveryIrqServed VisorStartsGuest
