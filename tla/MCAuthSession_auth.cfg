SPECIFICATION Spec
CONSTANTS
  a = a
  b = b
  Users = {a, b}
  None = None
  MaxJobs = 4
  MaxFaults = 1
CHECK_DEADLOCK FALSE
INVARIANTS SessionAgrees SignedOutIsForgotten
 
