SPECIFICATION NvSpec
CONSTANTS
  Item = {report, onOff}
  Value = {v1, v2}
  None = None
  Room = 3
INVARIANT NvTypeOK
PROPERTY ImplementsItems
