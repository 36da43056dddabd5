---------------------------- MODULE MCPageContent ----------------------------
(* Boards of two or three tasks, and conflicts of pages of up to three blocks. *)
EXTENDS PageContent

CONSTANTS e, a, b, todo, done, x, y, z

Task(s, f, d, type, parent) ==
  [start |-> s, end |-> f, duration |-> d, type |-> type, parent |-> parent, column |-> todo]

Edge(s, t, type, lag) == [source |-> s, target |-> t, type |-> type, lag |-> lag]

\* An epic with an undated milestone below it; three tasks, two of them linked.
MCBoards ==
  {[tasks |-> [t \in {e, a} |-> IF t = e THEN Task(0, 1, 1, "summary", None)
                                ELSE Task(None, None, 2, "milestone", e)],
    columns |-> {todo}, links |-> {}],
   [tasks |-> [t \in {e, a, b} |-> IF t = e THEN Task(0, 2, 2, "summary", None)
                                   ELSE Task(0, 1, 1, "task", None)],
    columns |-> {todo}, links |-> {Edge(a, b, "e2s", 1)}]}

\* Three tasks of one or two days under all sets of up to two links.
MCLinks == {l \in [source : Tasks, target : Tasks, type : LinkTypes, lag : {0, 1}] :
              l.source # l.target}
MCPlans ==
  {[tasks |-> [t \in Tasks |-> Task(0, d[t], d[t], "task", None)], columns |-> {todo},
    links |-> {k, l}] : d \in [Tasks -> 1..2], k \in MCLinks, l \in MCLinks}

\* Pages without a block twice: up to three blocks, or y nested below x.  The
\* local side can have x, y and z in this order: names do not matter.
Blank(id, text) == [id |-> id, text |-> text, children |-> {}]
Flat(text) ==
  {<<>>} \cup UNION {{[i \in 1..n |-> Blank(s[i], text)] :
                        s \in {q \in [1..n -> {x, y, z}] : IsInjective(q)}} : n \in 1..3}
First(n) == [i \in 1..n |-> Blank(<<x, y, z>>[i], 1)]
Parent(text) == [id |-> x, text |-> text, children |-> {y}]
Nested(text) == {<<Parent(text)>>, <<Parent(text), Blank(z, text)>>, <<Blank(z, text), Parent(text)>>}

Page(title, blocks) == [title |-> title, blocks |-> blocks]
MCConflicts ==
  {[local |-> Page("l", l), remote |-> Page("r", r), base |-> 1] :
     l \in {First(n) : n \in 0..3} \cup Nested(1),
     r \in Flat(1) \cup Flat(2) \cup Nested(1) \cup Nested(2)}
MCPulled == {Page("p", <<Blank(x, 3)>>)}
=============================================================================
