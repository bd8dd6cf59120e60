SPECIFICATION MCSpec
CONSTANTS
  Parts = {"net", "boot", "bus", "rtc", "fru", "vdu", "setup", "memory"}
  RxNum = 2
  TxNum = 3
  Word = 16
  Buf = {1, 2}
  MaxOut = 2
  Data = {"d1"}
  m1 = m1
  m2 = m2
  Mac <- MCMac
  Depth = 2
  MemSize = 3
  MaxTx = 2
  MaxRx = 3
  MaxCalls = 2
  Years = {2000, 2024, 2079, 2099, 2100}
  Months = {2, 10}
  Days = {1, 29, 31}
  Hours = {0, 9, 12, 20, 23}
  Minutes = {59}
  Seconds = {50}
  Zones = {0}
  Junk <- MCJunk
  Trees <- DisplayTrees
  Edids <- MCEdids
  Elpitech = TRUE
  Disks = {"disk"}
  Nets = {"net"}
  Displays = {"gop"}
  Num = {0, 1, 2, 3, 4, 5}
  MaxChanges = 2
  MaxHobs = 2
  CutAtKey = FALSE
  Size = 80
  Page = 16
  OemId = 58584
  PolicyValues = {0, 1, 2}
  Images <- FruImages
SYMMETRY MCSymmetry
INVARIANTS RingsInOrder EngineGoesOn BuffersKept ArrivalsReported RebootsEnd HotKeyOpensShell TransferHonest ReadsBackWhatWasSet PolicyReadBack IdentityKept PictureAsReported PortsDistinct SetupApplied MemoryAgrees
CHECK_DEADLOCK FALSE
