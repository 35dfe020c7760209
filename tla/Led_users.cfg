SPECIFICATION LedSpec
CONSTANTS
  Byte = 5
  MaxTime = 6
  Effects = {1, 2, 4}
INVARIANTS
  LedTypeOK
  NeverLeftOn
PROPERTIES
  EndsAsAsked
  IdentifyEnds
