CONSTANTS
  DMA_BUF_SIZE = 2
  UINT32 = 7
  FileSizes <- MC_FileSizes
  Handles <- MC_Handles
SPECIFICATION SessionSpec
INVARIANTS SessionTypeOK DosNotReentered PlayedWhole CleanEnd
           NoPlaybackOutlives
PROPERTIES Termination
