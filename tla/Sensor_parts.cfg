SPECIFICATION PartSpec
CONSTANTS
  ZoneIds = {7}
  InvalidZoneId = 255
  Controllers = {"cie"}
  ZeroAddr = "zero"
  Coordinator = "coordinator"
  MaxAir = 1
  Debounce = 3
  SwitchActions = {"OFF_ON"}
  Readings = {2320, 2800}
  Factors = {0}
  CtnSize = 3
INVARIANTS
  TypeOK
  NotesAddressedAsEnrolled
  ControllerSeesInputs
  SirenFollowsSmoke
  ToldWhenQuiet
  BatteryAgrees
  BusyHasAnEnd
PROPERTIES
  ResetNeedsHeldKey
