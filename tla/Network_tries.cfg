SPECIFICATION InTimeSpec
CONSTANTS
  KeyAttempts = 1
  MaxSteers = 1
  MaxKeyTimers = 1
  MaxAsked = 1
  MaxTasks = 2
INVARIANTS
  CommTypeOK
  TriesOnUnlessAstray
PROPERTIES
  SteeringEnds
  ComesBack
  GoesToSleep
