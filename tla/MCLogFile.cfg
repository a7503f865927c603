CONSTANTS
  SHORT = 3
  LONG = 6
  MaxRecords = 4
SPECIFICATION LogSpec
INVARIANTS LogTypeOK ShownUpToTear TornTailDropped
PROPERTIES AnalyzerEnds
