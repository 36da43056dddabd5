SPECIFICATION Spec
CONSTANTS
  p = p
  q = q
  v = v
  w = w
  Docs = {p, q}
  Workspaces = {v}
  WsOf <- MCWsOf
  NoDoc = NoDoc
  Absent = Absent
  Cap = 1
  MaxTexts = 1
  MaxSignals = 2
  MaxCalls = 2
  MaxImports = 0
  MaxConflicts = 0
  MaxFaults = 0
CHECK_DEADLOCK FALSE
INVARIANTS
  TextsStayOnTheirPage
