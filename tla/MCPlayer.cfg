CONSTANTS
  Interrupts <- MC_Interrupts
  Commands <- MC_Commands
  Functions = {}
  CallbackCalls = {}
  MaxDepth = 2
SPECIFICATION PlayerSpec
INVARIANTS PlayedCleanly NoPlaybackOutlives DriverAt80Called
PROPERTIES Termination
