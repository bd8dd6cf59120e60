SPECIFICATION MCSpec
CONSTANTS
  Modes = {"plain", "fault"}
  b1 = b1
  b2 = b2
  fvb1 = fvb1
  Client = {fvb1}
  Fvb = fvb1
  FlashSize = 8
  BounceSize = 2
  Bit <- MCBit
  SmcMayFail = FALSE
  SectorSize = 2
  VarBase = 2
  VarSize = 4
  Header <- MCHeader
  MaxLen = 2
  Data <- MCData
  EraseLists <- MCEraseLists
  MaxLosses = 2
INVARIANTS CopiesAgree
PROPERTIES WipesOnlyInvalidStore WriteSuccessIsStored VolumeConfined BootEnds
CHECK_DEADLOCK FALSE
