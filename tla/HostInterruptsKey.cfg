\* A key is pressed between the first VMLOAD and the first VMRUN.
SPECIFICATION Spec
CONSTANTS
  Early = {0, 1}
  Window = {0, 1}
  Late = {0}
  MaxRaised = 2
  RegFiles = {1, 2}
PROPERTY KeyReachesVisor
