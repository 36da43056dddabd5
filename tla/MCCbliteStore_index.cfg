SPECIFICATION Spec
CONSTANTS
  d1 = d1
  d2 = d2
  w1 = w1
  w2 = w2
  c1 = c1
  c2 = c2
  Docs = {d1, d2}
  Workspaces = {w1, w2}
  WorkspaceOf <- MCWorkspaceOf
  ConflictIds = {c1}
  PageOf <- MCPageOf
  NoDoc = NoDoc
  NoConflict = NoConflict
  MaxFaults = 1
INVARIANTS IndexComplete SingleHome
PROPERTY PageSurvives
