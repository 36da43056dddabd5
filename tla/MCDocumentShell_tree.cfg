SPECIFICATION ShellSpec
CONSTANTS
  a = a
  b = b
  c = c
  w = w
  Docs = {a, b, c}
  Workspaces = {w}
  Default = w
  NoDoc = NoDoc
  Absent = Absent
  MaxFaults = 1
  TreePages = {1, 2, 3}
  TreeTitles = {1, 2}
  NewTitle = 1
  OldTrees <- MCOldTrees
  LongTrees <- MCLongTrees
  OldRows <- MCOldRows
  MaxOrder = 2
  Unlisted = Unlisted
  NoMenu = NoMenu
  MaxTreeSteps = 2
  MaxTreeErrors = 1
CHECK_DEADLOCK FALSE
INVARIANTS EveryPageIsShown
PROPERTIES OnlyRemotesCloseCycles DeleteReachesAll EmptyTrashKeepsLive OnlyTheMovedMoves
