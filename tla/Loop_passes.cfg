SPECIFICATION SliceSpec
CONSTANTS
  ZoneIds = {}
  InvalidZoneId = 255
  Controllers = {}
  ZeroAddr = "zero"
  Coordinator = "coordinator"
  MaxAir = 0
  Debounce = 3
  SwitchActions = {}
  Readings = {2320}
  Factors = {0}
  CtnSize = 3
INVARIANTS
  LoopTypeOK
  NothingPendingAsleep
  SettledInputIsArmed
  ZoneTracksSources
PROPERTIES
  SteadyInputIsNoticed
  ButtonSettles
