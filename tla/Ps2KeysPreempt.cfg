SPECIFICATION MCSpec
CONSTANTS
  Modes = {"keys"}
  Regs <- TwoKeys
  QueueMax = 2
  MaxKeys = 4
  Thorough = {TRUE, FALSE}
  MayRefuse = TRUE
  Keys = {"slash", "kpslash"}
  InMax = 5
  ScanMax = 7
  KeyMax = 2
  Toggles <- NoToggles
  MaxEvents = 4
  MaxSets = 0
  Data = {"d", "MS"}
  MaxBytes = 2
  Restart = FALSE
  Preempt = TRUE
INVARIANTS NoPhantom
CHECK_DEADLOCK FALSE
