SPECIFICATION MCLiveSpec
CONSTANTS
  Modes = {"keys", "lights", "driver", "link"}
  Regs <- TwoKeys
  QueueMax = 2
  MaxKeys = 4
  Thorough = {TRUE, FALSE}
  MayRefuse = TRUE
  Keys = {"slash", "kpslash", "shift", "pause"}
  InMax = 6
  ScanMax = 8
  KeyMax = 2
  Toggles <- NoToggles
  MaxEvents = 3
  MaxSets = 0
  Data = {"d", "MS"}
  MaxBytes = 2
  Restart = FALSE
  Preempt = FALSE
INVARIANTS StrokesAsMade LightsFollowLocks NotifiedOncePerKey PortsKeptApart
PROPERTIES StrokesArrive
CHECK_DEADLOCK FALSE
