---------------------------- MODULE MCSyncService ----------------------------
EXTENDS SyncService, TLC

CONSTANTS w1, u1, u2, t1, t2, t3

\* Two tokens of one user and one of another.
MCUserOf == [t \in Tokens |-> IF t = t3 THEN u2 ELSE u1]

\* The workspace is assigned to the user or not.
MCScopes == {{w1}, {}}

\* Everything on, and each switch off by itself.
On == [auth |-> TRUE, sync |-> TRUE, backend |-> TRUE]
MCSettings ==
  {On, [On EXCEPT !.auth = FALSE], [On EXCEPT !.sync = FALSE], [On EXCEPT !.backend = FALSE]}
==============================================================================
