SPECIFICATION ContentSpec
CONSTANTS
  e = e
  a = a
  b = b
  todo = todo
  done = done
  x = x
  y = y
  z = z
  Tasks = {e, a, b}
  Columns = {todo, done}
  Days = {0, 1, 2}
  Today = 1
  Boards <- MCBoards
  Plans <- MCPlans
  None = None
  Closed = Closed
  MaxEdits = 2
  Conflicts <- MCConflicts
  Pulled <- MCPulled
  Missing = Missing
  MaxVersion = 3
  Letters = {letter}
  ContextChars = 2
  MaxText = 2
  MaxRequests = 2
  MaxKeyErrors = 1
  Menu = Menu
  Nothing = Nothing
INVARIANTS CriticalIsTight MergeKeepsChoices BlocksAreUnique EachIsRelayedOnce GhostContinuesText
  
CHECK_DEADLOCK FALSE
