\* The guest rewrites any two entries of the tables in its memory.
SPECIFICATION Spec
CONSTANTS
  E = 12
  GuestTables = 1
  HostTables = 2
  HostStart = 0
  NestedStart = 4
  GuestCR3 = 7
  Host = 13
  Nested = 17
  Ram <- MCRam
  Values <- MCValues
  MaxWrites = 2
INVARIANTS TypeOK NestedIdentity HostIdentity HandIsHardware
