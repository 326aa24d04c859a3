CONSTANTS
  W = 3
  Pow2 <- MCPow2
  Requests <- MCRequests
  CanPause = TRUE
SPECIFICATION StopSpec
INVARIANTS TypeOK ReadyIsRight RemainderFits
PROPERTIES StallShrinks StallEnds
