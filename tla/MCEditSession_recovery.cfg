SPECIFICATION FairSpec
CONSTANTS
  a = a
  b = b
  ua = ua
  ub = ub
  p = p
  q = q
  Docs = {p}
  Owners = {ua, ub}
  Lease = 6
  Free = Free
  Clients = {a}
  OwnerOf <- MCOwnerOf
  Beat = 2
  Health = 3
  Faults = {"partition", "reorder", "crash", "server_restart", "force_release"}
  MaxWire = 2
  NoDoc = NoDoc
PROPERTIES
  CrashedLockExpires
  LossIsNoticed
