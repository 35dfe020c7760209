SPECIFICATION OtaSpec
CONSTANTS
  Version = {v1, v2, v3}
  Shipped = v1
  Offers = {v2, v3}
  Blocks = 2
  ResumeAfter = 1
  SaveEvery = 2
  BlockRetries = 2
  EndRetries = 2
  AddrRetries = 1
  MaxTasks = 2
SYMMETRY Symmetry
INVARIANTS
  OtaTypeOK
  AlwaysBootable
PROPERTIES
  ImplementsSlots
  AskingGoesOn
