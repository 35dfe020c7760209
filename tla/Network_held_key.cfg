SPECIFICATION CommSpec
CONSTANTS
  KeyAttempts = 1
  MaxSteers = 1
  MaxKeyTimers = 1
  MaxAsked = 1
  MaxTasks = 2
INVARIANTS
  HeldKeyTries
