SPECIFICATION Spec
CONSTANTS
  NumServos = 2
  MaxCurrent = 1
  Currents = {3}
  ZeroAge = 1
  DisableAge = 2
  Release = Sentinel
  None = NoFrame
  MaxLost = 1
  MaxResets = 1
  MaxUnplugs = 1
INVARIANTS TypeOK Accountable StaleIsSafe CenterLetsGo
PROPERTIES SoftStart SilentHostReleases
CHECK_DEADLOCK FALSE
