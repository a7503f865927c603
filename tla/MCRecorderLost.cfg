CONSTANTS
  Commands <- MC_Commands
  Callbacks <- MC_Callbacks
  Reentrant <- MC_AllReentrant
  MaxDepth = 4
  MaxLost = 0
SPECIFICATION Spec
INVARIANTS EveryCallbackRecorded
