CONSTANTS
  Interrupts <- MC_Interrupts
  Commands <- MC_Commands
  Functions <- MC_Functions
  CallbackCalls <- MC_CallbackCalls
  MaxDepth = 5
SPECIFICATION SdkSpec
INVARIANTS SdkTypeOK IndentIsDepth OwnResult NeverThroughNull BusyWaitSilent
