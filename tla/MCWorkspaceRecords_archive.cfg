SPECIFICATION RecordsSpec
CONSTANTS
  a = a
  b = b
  file = file
  property = property
  kind = kind
  Docs = {a, b}
  Attachments = {file}
  Definitions = {property}
  Options = {1, 2}
  Types = {kind}
  MaxEdits = 5
  MaxFaults = 1
  wiki = wiki
  board = board
  Pages = {1, 2}
  PageKinds = {wiki, board}
  DefaultPropertySpecs <- MCDefaultPropertySpecs
  Catalogue <- MCCatalogue
  Answers = {1, 3}
  Directions = {"directed", "symmetric"}
  Later <- MCLater
  OldPages <- MCOldPages
  NoKind = NoKind
  MaxIds = 6
  MaxChanges = 3
  MaxErrors = 1
  p = p
  q = q
  PackPages = {p, q}
  Gone = Gone
  NoPage = NoPage
  Selections <- MCSelections
  Statuses = {"pending", "succeeded"}
  Nothing = Nothing
  MaxText = 2
CHECK_DEADLOCK FALSE
PROPERTIES   SeededIsShown PageLeavesNothing RenderIsExact
