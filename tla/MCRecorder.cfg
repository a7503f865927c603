CONSTANTS
  Commands <- MC_Commands
  Callbacks <- MC_Callbacks
  Reentrant <- MC_Reentrant
  MaxDepth = 5
  MaxLost = 3
SPECIFICATION Spec
INVARIANTS TypeOK EveryCallbackRecorded AnalyzedDepth
PROPERTIES DriverSpec
