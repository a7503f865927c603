CONSTANTS
  DRAM = 12
  IMEM = 8
  BUF = 8
  UINT32 = 24
  Lengths <- MC_Lengths
  ImemStarts <- MC_ImemStarts
  MaxSegments = 3
SPECIFICATION ParseSpec
INVARIANTS ParseTypeOK DramIsFile ImemMirrorsDram ImagesAreWhole
