SPECIFICATION Spec
CONSTANTS
  a = a
  b = b
  ua = ua
  ub = ub
  p = p
  q = q
  Docs = {p, q}
  Owners = {ua, ub}
  Lease = 6
  Free = Free
  Clients = {a}
  OwnerOf <- MCOwnerOf
  Beat = 2
  Health = 3
  Faults = {"partition", "reorder", "crash", "server_restart", "force_release", "check_now"}
  MaxWire = 2
  NoDoc = NoDoc
INVARIANTS
  EditIsBacked
  ClaimIsShown
