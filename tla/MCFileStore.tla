----------------------------- MODULE MCFileStore -----------------------------
EXTENDS FileStore, TLC
CONSTANTS page, conflict, value, definition, revision, meta, blob, run, u, v
Symmetric == Permutations({u, v})
MCDir ==
  [f \in Files |->
     CASE f = page -> "pages" [] f = conflict -> "conflicts" [] f = revision -> "revisions"
       [] f = value -> "page-property-values" [] f = definition -> "property-definitions"
       [] f = meta -> "attachments" [] f = blob -> "blobs" [] f = run -> "agent-runs"]
MCPagesOf == [f \in Files |-> IF f \in {conflict, value, revision} THEN {page} ELSE {}]
MCNeeds == [f \in Files |-> IF f = value THEN {definition} ELSE {}]
MCBlobOf == [f \in Files |-> IF f = meta THEN blob ELSE f]
=============================================================================
