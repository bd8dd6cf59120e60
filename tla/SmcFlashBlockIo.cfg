SPECIFICATION MCSpec
CONSTANTS
  b1 = b1
  blk1 = blk1
  Client = {blk1}
  Blk = blk1
  FlashSize = 6
  BounceSize = 2
  Bit <- MCBit
  SmcMayFail = TRUE
  SectorSize = 2
  SectorCount = 3
  BlockSize = 1
  MapBlock = 2
  Uint32 = 64
  MaxBuffer = 2
  BlkData <- MCData
  Junk <- MCJunk
  MaxLosses = 1
INVARIANTS BlkTypeOK RmwStaysInBlockArea
PROPERTIES DeviceSpec BelowBlockAreaKept
CHECK_DEADLOCK FALSE
