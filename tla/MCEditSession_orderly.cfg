SPECIFICATION Spec
CONSTANTS
  a = a
  b = b
  ua = ua
  ub = ub
  p = p
  q = q
  Docs = {p}
  Owners = {ua, ub}
  Lease = 6
  Free = Free
  Clients = {a, b}
  OwnerOf <- MCOwnerOf
  Beat = 2
  Health = 3
  Faults = {"crash"}
  MaxWire = 2
  NoDoc = NoDoc
INVARIANTS
  ClaimIsHeld
PROPERTIES
  ImplementsPageLock
