SPECIFICATION Spec
CONSTANTS
  p = p
  q = q
  v = v
  w = w
  Docs = {p, q}
  Workspaces = {v, w}
  WsOf <- MCWsOf
  NoDoc = NoDoc
  Absent = Absent
  Cap = 1
  MaxTexts = 1
  MaxSignals = 1
  MaxCalls = 1
  MaxImports = 1
  MaxConflicts = 1
  MaxFaults = 1
CHECK_DEADLOCK FALSE
SYMMETRY Symmetric
 
PROPERTY OverwrittenIsKept
