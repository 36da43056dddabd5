--------------------------- MODULE MCEditorBridge ---------------------------
EXTENDS EditorBridge, TLC
CONSTANTS p, q, v, w
Symmetric == Permutations(Docs)
MCWsOf == [d \in Docs |-> v]
=============================================================================
