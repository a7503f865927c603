CONSTANTS
  Slots = 2
  Results <- MC_Results
  Modes <- MC_Modes
  MaxLines = 5
SPECIFICATION ProbeSpec
INVARIANTS ProbeTypeOK BusyWaitSilent LoggingAsAsked FirstLoadRestores
PROPERTIES ScriptEnds
