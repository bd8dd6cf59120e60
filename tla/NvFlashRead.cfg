SPECIFICATION MCSpec
CONSTANTS
  b1 = b1
  fvb1 = fvb1
  blk1 = blk1
  Client = {fvb1, blk1}
  Fvb = fvb1
  Blk = blk1
  FlashSize = 4
  BounceSize = 2
  SectorSize = 2
  Bit <- MCBit
  SmcMayFail = FALSE
  VarBase = 0
  VarSize = 2
  Header <- MCHeader
  MaxLen = 1
  Data <- MCData
  EraseLists <- MCEraseLists
  SectorCount = 2
  BlockSize = 1
  MapBlock = 2
  Uint32 = 64
  MaxBuffer = 1
  BlkData <- MCBlkData
  Junk <- MCJunk
  MaxLosses = 1

PROPERTIES BlkReadSuccessIsData
CHECK_DEADLOCK FALSE
