--------------------------- MODULE MCDocumentShell ---------------------------
EXTENDS DocumentShell

CONSTANTS a, b, c, w

\* Any parent, one that is not there included, and two numbers; the second page
\* comes first by its title.
MCOldRows == [d \in TreePages |->
  [parent : (0..4) \ {d}, order : {0, 1}, title : {(d % 2) + 1}]]
MCOldTrees ==
  {[d \in TreePages |-> IF d = 1 THEN x ELSE IF d = 2 THEN y ELSE z] :
     x \in MCOldRows[1] \cup {Unlisted}, y \in MCOldRows[2] \cup {Unlisted},
     z \in MCOldRows[3] \cup {Unlisted}}
MCLongTrees == {t \in MCOldTrees : \A d \in TreePages : t[d] # Unlisted => t[d].order = 0}
=============================================================================
