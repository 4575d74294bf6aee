\* A guest that follows the CMOS protocol.
SPECIFICATION Spec
CONSTANTS
  Ports = {96, 97}
  Indices = {0, 14}
  Bytes = {0, 5}
  W = 2
  Blocks = {0}
  Sizes = {1, 2}
  Paired = TRUE
INVARIANTS TypeOK LatchMatchesSelection
PROPERTY ReadsOwed
