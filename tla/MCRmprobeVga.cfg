CONSTANTS
  Slots = 2
  Results <- MC_Results
  Modes <- MC_Modes
  MaxLines = 4
SPECIFICATION ProbeSpec
INVARIANTS LoadsStoredMode
