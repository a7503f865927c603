CONSTANTS
  DMA_BUF_SIZE = 2
  UINT32 = 8
  FileSizes <- MC_FileSizes
  Handles <- MC_Handles
SPECIFICATION Spec
INVARIANTS TypeOK BufferChain LentDataIntact NoHandleLeak
PROPERTIES ReadAheadServes SourceSpec
