SPECIFICATION FairSpec
CONSTANTS
  w1 = w1
  u1 = u1
  u2 = u2
  t1 = t1
  t2 = t2
  t3 = t3
  Workspaces = {w1}
  Scopes <- MCScopes
  Remote = {w1}
  Users = {u1, u2}
  Tokens = {t1, t2, t3}
  UserOf <- MCUserOf
  NoToken = NoToken
  Settings <- MCSettings
  StatusOnly = StatusOnly
  NoFile = NoFile
  NoReplicator = NoReplicator
  Faults = {"start", "promote", "replicator", "crash", "wipe"}
INVARIANTS  ReadyIsHonest ScopeIsRemembered
PROPERTIES MaterializedFromFacts SyncResumes FailureIsVisible
