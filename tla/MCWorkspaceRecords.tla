-------------------------- MODULE MCWorkspaceRecords --------------------------
EXTENDS WorkspaceRecords

CONSTANTS a, b, file, property, kind, wiki, board, p, q

\* A page of a wiki and one of a board get a Status with other options, and an
\* Owner, which is a text.
MCDefaultPropertySpecs == [k \in {wiki, board} |->
  <<[name |-> "Status", options |-> IF k = wiki THEN {1, 2} ELSE {3},
     value |-> IF k = wiki THEN 1 ELSE 3],
    [name |-> "Owner", options |-> {}, value |-> 4]>>]
MCCatalogue == {[name |-> "Status", options |-> {1, 2}], [name |-> "Status", options |-> {3}]}
MCLater(x, y) == x > y
MCOldPages == {<<wiki, NoKind>>}

Item(i, e, d, x) == [id |-> i, relation |-> e, artifact |-> d, included |-> x]
MCItems == {Item(1, 1, p, TRUE), Item(1, 1, p, FALSE), Item(2, 2, q, TRUE), Item(1, 2, q, TRUE),
            Item(2, 1, q, TRUE), Item(2, 2, NoPage, TRUE)}
MCSelections == {<<>>} \cup {<<i>> : i \in MCItems} \cup MCItems \X MCItems
=============================================================================
