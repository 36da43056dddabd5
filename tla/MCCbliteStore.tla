--------------------------- MODULE MCCbliteStore ---------------------------
EXTENDS CbliteStore, TLC

CONSTANTS d1, d2, w1, w2, c1, c2

\* Two pages of two workspaces, so that a bootstrap can map one and not the other.
MCWorkspaceOf == d1 :> w1 @@ d2 :> w2
\* One workspace for the runs about conflicts.
MCOneWorkspace == [d \in Docs |-> w1]
MCPageOf == [i \in ConflictIds |-> d1]
============================================================================
