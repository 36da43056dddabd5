SPECIFICATION Spec
CONSTANTS
  page = page
  conflict = conflict
  value = value
  definition = definition
  revision = revision
  meta = meta
  blob = blob
  run = run
  Files = {page, conflict, value, definition, meta, blob}
  Dir <- MCDir
  PagesOf <- MCPagesOf
  Needs <- MCNeeds
  BlobOf <- MCBlobOf
  u = u
  v = v
  Contents = {u, v}
  Absent = Absent
  Torn = Torn
  MaxErrors = 1
  MaxCrashes = 1
SYMMETRY Symmetric
CHECK_DEADLOCK FALSE
INVARIANTS SavedSurvives AttachmentIsComplete
PROPERTY ImplementsRepository
