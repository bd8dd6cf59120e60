SPECIFICATION MCSpec
CONSTANTS
  Modes = {"sd", "espi", "pci"}
  Fvb = "fvb"
  Blk = "blk"
  Driver = {"fvb", "blk"}
  Card <- MCCard
  Blocks = 5
  BlockSize = 2
  PartBlocks = 2
  Val = {"hdr", "ff", "v", "w"}
  MaxTry = 1
  MaxFaults = 1
  VarBlock = 0
  VarSize = 4
  Header = "hdr"
  Erased = "ff"
  Data = {"w"}
  Ranges <- MCRanges
  EraseLists <- MCEraseLists
  BlkRequests <- MCBlkRequests
  Sectors = 3
  SectorSize = 2
  MaxBlocks = 2
  PageData = {"v"}
  ErasedPage = "ff"
  Junk = "junk"
  FirstPages = {"ff"}
  MaxTransferFaults = 1
  MaxLosses = 1
  Dev = 2
  Bus = 8
  Granule = 4
  Buses = 8
  Ports = 3
  Trees <- MCTrees
  Devices <- MCSlots
  DetectTime = 1
  UpTime = 3
  AnswerTime = 3
  RetrainTime = 1
  MaxDrops = 2
INVARIANTS ReadyAfterIdent CardMirrored DamageConfined RegistersReached SpeedReachesPort
PROPERTIES WritesConfined ConstructorEnds
CHECK_DEADLOCK FALSE
