SPECIFICATION MCSpec
CONSTANTS
  Callers = {a, b}
  PipeCap = 1
  WireCap = 1
  MaxRpcCalls = 2
INVARIANTS OwnAnswer PendingSound
 
CHECK_DEADLOCK FALSE
