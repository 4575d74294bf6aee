\* Any interrupt at any time: the visor may lose control.
SPECIFICATION Spec
CONSTANTS
  Early = {0, 1, 6, 14}
  Window = {0, 1, 6, 14}
  Late = {0, 14}
  MaxRaised = 1
  RegFiles = {1, 2}
INVARIANTS LostToStranger WorldsKeepTheirRegisters
