CONSTANTS
  Commands <- MC_Commands
  Callbacks <- MC_NullCallbacks
  Reentrant <- MC_AllReentrant
  MaxDepth = 4
  MaxLost = 2
SPECIFICATION Spec
INVARIANTS ShimReachesLatest
CHECK_DEADLOCK FALSE
