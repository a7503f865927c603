CONSTANTS
  Slots = 2
  Results <- MC_Results
  Modes <- MC_Modes
  MaxLines = 2
SPECIFICATION ProbeSpec
INVARIANTS FailureReported
