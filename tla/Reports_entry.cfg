SPECIFICATION ReportsSpec
CONSTANTS
  Wrap = 4
  Off = 99
  Default <- OnTheChange
  Limits <- SomeLimits
INVARIANTS
  ReportsTypeOK
  TimersFit
  MinimumKept
PROPERTIES
  StaysInTouch
  ChangeIsReported
