SPECIFICATION FairSpec
CONSTANTS
  MaxNum = 2
  Owner = {"max", "min", "steer"}
  Detached = {"steer"}
  Periods = {1, 3}
  TickMs = 2
  TickSpace = 11
  MaxGap = 1
INVARIANTS
  PoolAgrees
  HandlesNameTimers
  CursorIsScheduled
  SleepEndsInTime
  NeverEarly
PROPERTIES
  TimersComeDue
