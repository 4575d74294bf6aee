SPECIFICATION Spec
CONSTANTS
  StackSeg <- MCStackSeg
  Top <- MCTop
  Code <- MCCode
  Gates <- MCGates
  FlagWords <- MCFlagWords
  Pushed <- MCPushed
  MaxDepth = 2
  MaxWords = 1
  Span = 0
  Careful = TRUE
  Operands <- MCOperands
  Dwords <- MCDwords
INVARIANTS TypeOK FramesKept RegistersAgree PagingIdle
PROPERTY InterruptsReturn
