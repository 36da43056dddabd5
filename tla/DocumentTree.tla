---------------------------- MODULE DocumentTree ----------------------------
(***************************************************************************)
(* The tree of pages the desktop shows, the order of siblings in it and the *)
(* commands that change it: src/src/gui/document_tree_model.cc, the shell   *)
(* page (page.cc) and the bridge's slots (editor_bridge.cc).                *)
(*                                                                         *)
(* The tree is built from a listing of the repository, and is older than    *)
(* the repository until the next refresh; the commands read the listing     *)
(* anew.  A command runs to its end on the GUI thread: one step.  Of its    *)
(* writes any may fail (the page open is locked or in conflict, a page does *)
(* not load, the disk is full); a listing that fails is an empty one.       *)
(* One workspace, no page in the trash.  Page ids are numbers, in the order *)
(* of the ids; titles are ranks.  Of siblings of one order and one title    *)
(* the smaller id comes first, as the sort leaves them when they are few.   *)
(***************************************************************************)
EXTENDS Integers, Sequences, FiniteSets, SequencesExt, FiniteSetsExt

CONSTANTS
  TreePages, \* ids, positive numbers
  TreeTitles, \* ranks of titles
  NewTitle,  \* of a new page
  OldTrees,  \* the listings to begin with
  LongTrees, \* those that are followed for all steps, the others for one
  OldRows,   \* page -> the rows other desktops give it
  MaxOrder,  \* bound on sort_order
  Unlisted,  \* the page is not there
  NoMenu,
  MaxTreeSteps, \* bound on steps
  MaxTreeErrors \* bound on errors

\* A row names any parent, be it one that nobody has.
TreeRow == [parent : Nat, order : Int, title : Int]

ASSUME TreeAssumption ==
  /\ IsFiniteSet(TreePages) /\ TreePages \subseteq Nat \ {0}
  /\ Unlisted \notin TreeRow /\ \A d \in TreePages : OldRows[d] \subseteq TreeRow
  /\ OldTrees \subseteq [TreePages -> TreeRow \cup {Unlisted}]
  /\ NewTitle \in Int /\ TreeTitles \subseteq Int
  /\ MaxOrder \in Nat /\ MaxTreeSteps \in Nat \ {0} /\ MaxTreeErrors \in Nat

VARIABLES
  listed,    \* page -> [parent, order, title] in the repository, or Unlisted
  seen,      \* last_document_summaries_
  shown,     \* the tree: [kids: node -> sequence of pages, row: what it knows of them]
  menu,      \* the context menu: [page, up, down, current], or NoMenu
  treeSteps, treeErrors

treeVars == <<listed, seen, shown, menu, treeSteps, treeErrors>>

Top == 0           \* the workspace
Nodes == TreePages \cup {Top}
In(rows) == {d \in TreePages : rows[d] # Unlisted}
NothingListed == [d \in TreePages |-> Unlisted]

-----------------------------------------------------------------------------
(* DocumentTreeModel.                                                       *)

Before(rows, d, e) ==
  LET r == rows[d]
      s == rows[e]
  IN \/ r.order < s.order
     \/ r.order = s.order /\ (r.title < s.title \/ (r.title = s.title /\ d < e))

\* sortByPlacement, sortChildren: the place of a page is the number of those before it.
Ranked(rows, S) ==
  LET place(d) == Cardinality({e \in S : Before(rows, e, d)}) + 1
  IN [i \in 1..Cardinality(S) |-> CHOOSE d \in S : place(d) = i]
ChildrenOf(rows, p) == {d \in In(rows) : rows[d].parent = p}

\* attachChildren: what a walk from S down the rows attaches.  A page has one
\* parent, so the order of the walk does not matter.
Attached(rows, S) ==
  LET level[n \in 0..Cardinality(TreePages)] ==
        IF n = 0 THEN S ELSE level[n - 1] \cup UNION {ChildrenOf(rows, p) : p \in level[n - 1]}
  IN level[Cardinality(TreePages)]

\* The pages put below the workspace because they do not hang from it: the smallest
\* id that is detached, with what hangs from it, and again.
Adopted(rows) ==
  LET detached(S) == In(rows) \ Attached(rows, S \cup {Top})
      turn[n \in 0..Cardinality(TreePages)] ==
        IF n = 0 THEN {}
        ELSE IF detached(turn[n - 1]) = {} THEN turn[n - 1]
        ELSE turn[n - 1] \cup {Min(detached(turn[n - 1]))}
  IN turn[Cardinality(TreePages)]

\* buildTree.
Build(rows) ==
  LET adopted == Adopted(rows)
      Under(p) == IF p = Top THEN ChildrenOf(rows, Top) \cup adopted
                  ELSE ChildrenOf(rows, p) \ adopted
  IN [kids |-> [p \in Nodes |-> Ranked(rows, Under(p))], row |-> rows]

\* Mutant: a new page comes last.
InsertRow_Last(t, p, r) == Len(t.kids[p])

\* The row of a new page among the rows there are.
InsertRow(t, p, r) ==
  LET Later(i) == LET s == t.row[t.kids[p][i]] IN
                  s.order > r.order \/ (s.order = r.order /\ s.title > r.title)
      later == {i \in DOMAIN t.kids[p] : Later(i)}
  IN IF later = {} THEN Len(t.kids[p]) ELSE Min(later) - 1

\* appendDocument.
AppendDocument(t, d, r) ==
  LET p == IF r.parent \in In(t.row) THEN r.parent ELSE Top IN
  [kids |-> [t.kids EXCEPT ![p] = InsertAt(@, InsertRow(t, p, r) + 1, d)],
   row |-> [t.row EXCEPT ![d] = r]]

-----------------------------------------------------------------------------
(* Page.                                                                    *)

TakesStep == treeSteps < MaxTreeSteps /\ treeSteps' = treeSteps + 1
Fails == treeErrors < MaxTreeErrors /\ treeErrors' = treeErrors + 1

\* A menu that is open keeps an index into the tree before.
Reset == menu' = IF menu = NoMenu THEN menu ELSE [menu EXCEPT !.current = FALSE]
Show(rows) == seen' = rows /\ shown' = Build(rows)

\* PopulatePageList, after rows have been written.
Populate(rows) ==
  /\ listed' = rows
  /\ \/ Show(rows) /\ UNCHANGED treeErrors
     \/ Fails /\ Show(NothingListed)

AreDocumentSummariesEqual(rows, others) == rows = others

\* RefreshPageListIfChanged.
Refresh ==
  /\ TakesStep /\ UNCHANGED listed
  /\ \E rows \in {listed, NothingListed} :
       /\ ~AreDocumentSummariesEqual(rows, seen) /\ Show(rows) /\ Reset
       /\ IF rows = listed THEN UNCHANGED treeErrors ELSE Fails

\* Siblings as the commands see them: pages of the listing with the same parent,
\* shown together or not.
Siblings(d) == Ranked(listed, ChildrenOf(listed, listed[d].parent))
Position(s, d) == CHOOSE i \in DOMAIN s : s[i] = d

\* ShowContextMenu.
OpenMenu(d) ==
  /\ d \in In(shown.row) \cup {Top} /\ menu = NoMenu
  /\ menu' = [page |-> d, current |-> TRUE,
              up |-> d \in In(listed) /\ Position(Siblings(d), d) > 1,
              down |-> d \in In(listed) /\ Position(Siblings(d), d) < Len(Siblings(d))]
  /\ UNCHANGED <<listed, seen, shown, treeSteps, treeErrors>>

\* A command of the menu: for its page, or, once the tree has been built anew,
\* for whatever the index of the old tree leads to.
Chosen(d) ==
  /\ menu # NoMenu /\ (menu.current => d = menu.page)
  /\ TakesStep /\ menu' = NoMenu

\* NextChildSortOrder: after the siblings, those in the trash included.
NextChildSortOrder(p) ==
  LET orders == {listed[e].order : e \in ChildrenOf(listed, p)} IN
  (IF orders = {} THEN 0 ELSE Max(orders) + 1)..MaxOrder

\* HandleCreatedDocument.  The listing seen last stays as it is.
HandleCreatedDocument(d, r) ==
  /\ listed' = [listed EXCEPT ![d] = r]
  /\ shown' = AppendDocument(shown, d, r)
  /\ UNCHANGED <<seen, treeErrors>>

\* CreateNewDocument, CreateChildDocument.  A page of the workspace has order 0.
Create(d, p) ==
  LET Known == UNION {In(r) \cup {r[e].parent : e \in In(r)} : r \in {listed, seen, shown.row}} IN
  /\ Chosen(p) /\ d \notin Known /\ (p # Top => p \in In(listed))
  /\ \E o \in IF p = Top THEN {0} ELSE NextChildSortOrder(p) :
       HandleCreatedDocument(d, [parent |-> p, order |-> o, title |-> NewTitle])

Retitled(d, title) == [listed EXCEPT ![d].title = title]

\* RenameDocument.
Rename(d, title) ==
  /\ Chosen(d) /\ d \in In(listed) /\ title # listed[d].title
  /\ Populate(Retitled(d, title))

\* HandleDocumentSaved: the editor's save of the page, its title may be new.
DocumentSaved(d, title) ==
  /\ TakesStep /\ Reset /\ d \in In(listed)
  /\ Populate(Retitled(d, title))

\* updateDocumentPlacement of every page of a group, in its order, until one is
\* not saved.
Placed(rows, group, p, n) ==
  LET place(d) == Position(group, d) IN
  [d \in TreePages |->
     IF d \in {group[i] : i \in 1..n}
     THEN [parent |-> p, order |-> place(d) - 1, title |-> rows[d].title] ELSE rows[d]]

\* One group, or two: the tree is not built anew after an error.
Renumber(first, p, second, q) ==
  \/ Populate(Placed(Placed(listed, first, p, Len(first)), second, q, Len(second)))
  \/ /\ Fails /\ UNCHANGED <<seen, shown>>
     /\ \E n \in 0..(Len(first) + Len(second) - 1) :
          listed' = Placed(Placed(listed, first, p, IF n < Len(first) THEN n ELSE Len(first)),
                           second, q, IF n < Len(first) THEN 0 ELSE n - Len(first))

\* MoveDocument.
MoveDocument(d, delta) ==
  LET s == Siblings(d)
      i == Position(s, d)
  IN
  /\ Chosen(d) /\ d \in In(listed)
  /\ IF delta = 1 THEN menu.down ELSE menu.up
  /\ i + delta \in DOMAIN s
  /\ Renumber(<<>>, Top, [s EXCEPT ![i] = s[i + delta], ![i + delta] = d], listed[d].parent)

\* Mutant: the page is not taken out of the group it is put into.
BuildGroup_Itself(p, d) == Ranked(listed, ChildrenOf(listed, p))

\* build_group.
BuildGroup(p, d) == Ranked(listed, ChildrenOf(listed, p) \ {d})

\* The pages above a page, as long as the listing has them.
Walk(rows, d) ==
  LET up[n \in 0..Cardinality(TreePages)] ==
        IF n = 0 THEN d ELSE IF up[n - 1] \in In(rows) THEN rows[up[n - 1]].parent ELSE Top
  IN up
ListedAbove(rows, d) == {Walk(rows, d)[n] : n \in 1..Cardinality(TreePages)} \cap In(rows)

\* dropMimeData and MoveDocumentToPlacement: row is where the page is dropped among the
\* rows below p, or -1 on p itself.  Above a cycle the search for d never ends;
\* PageTree follows that.
Drop(d, p, row) ==
  LET target == IF row < 0 THEN Len(shown.kids[p]) ELSE row
      group == BuildGroup(p, d)
      at == IF target > Len(group) THEN Len(group) ELSE target
      new == InsertAt(group, at + 1, d)
      old == listed[d].parent
  IN
  /\ TakesStep /\ menu = NoMenu /\ UNCHANGED menu
  /\ d \in In(shown.row) \cap In(listed) /\ p \in In(shown.row) \cup {Top} /\ p # d
  /\ row \in -1..Len(shown.kids[p])
  /\ d \notin ListedAbove(listed, p) /\ \A e \in ListedAbove(listed, p) \cup {p} : e \notin ListedAbove(listed, e)
  /\ IF p = old THEN Renumber(<<>>, Top, new, p) ELSE Renumber(BuildGroup(old, d), old, new, p)

\* Another desktop.
Pulled(d, r) ==
  /\ TakesStep /\ listed[d] # r /\ listed' = [listed EXCEPT ![d] = r]
  /\ UNCHANGED <<seen, shown, menu, treeErrors>>

TreeNext ==
  /\ treeSteps < MaxTreeSteps
  /\ \/ \E d \in TreePages \cup {Top} : OpenMenu(d)
     \/ Refresh
     \/ \E d \in TreePages, p \in Nodes : Create(d, p)
     \/ \E d \in TreePages, title \in TreeTitles : Rename(d, title) \/ DocumentSaved(d, title)
     \/ \E d \in TreePages, delta \in {-1, 1} : MoveDocument(d, delta)
     \/ \E d \in TreePages, p \in Nodes, row \in -1..Cardinality(TreePages) : Drop(d, p, row)
     \/ \E d \in TreePages : Pulled(d, Unlisted) \/ \E r \in OldRows[d] : Pulled(d, r)

TreeInit ==
  /\ listed \in OldTrees
  /\ seen = listed /\ shown = Build(listed)
  /\ menu = NoMenu /\ treeErrors = 0
  /\ treeSteps = IF listed \in LongTrees THEN 0 ELSE MaxTreeSteps - 1
TreeSpec == TreeInit /\ [][TreeNext]_treeVars

-----------------------------------------------------------------------------
(* What must hold.                                                          *)

TreeTypeOK ==
  LET Listing == [TreePages -> TreeRow \cup {Unlisted}] IN
  /\ listed \in Listing /\ seen \in Listing
  /\ shown \in [kids : [Nodes -> Seq(TreePages)], row : Listing]
  /\ menu \in [page : Nodes, current : BOOLEAN, up : BOOLEAN, down : BOOLEAN] \cup {NoMenu}
  /\ treeSteps \in 0..MaxTreeSteps /\ treeErrors \in 0..MaxTreeErrors

Hangs(rows, d) == Top \in {rows[e].parent : e \in {d} \cup ListedAbove(rows, d)}

\* A page that does not hang from the workspace is moved up to it, unless a
\* smaller one above it brings it along.
Stray(rows, d) == ~Hangs(rows, d) /\ \A e \in ListedAbove(rows, d) : e >= d

InView == {d \in TreePages : \E p \in Nodes : d \in ToSet(shown.kids[p])}
ParentInView(d) == CHOOSE p \in Nodes : d \in ToSet(shown.kids[p])
Twins(rows, d, e) == rows[d].order = rows[e].order /\ rows[d].title = rows[e].title

\* Every page the tree knows is shown, once, in the order of its siblings and
\* under its parent; at the top only if its parent is not shown, or it hangs in
\* the air (an ancestor is gone, or two desktops have closed a cycle).  A page that is
\* added without building the tree anew stands where a new tree has it, if no
\* sibling has its order and title (buildTree, appendDocument).
EveryPageIsShown ==
  LET rows == shown.row
      sight[n \in 0..Cardinality(TreePages)] ==
        IF n = 0 THEN {Top} ELSE sight[n - 1] \cup UNION {ToSet(shown.kids[p]) : p \in sight[n - 1]}
  IN
  /\ InView = In(rows) /\ InView \subseteq sight[Cardinality(TreePages)]
  /\ \A p \in Nodes :
       /\ \A i \in DOMAIN shown.kids[p] :
            LET d == shown.kids[p][i] IN
            /\ p = ParentInView(d) /\ p \in {rows[d].parent, Top}
            /\ p # rows[d].parent => Stray(rows, d)
            /\ \A j \in (i + 1)..Len(shown.kids[p]) :
                 LET e == shown.kids[p][j] IN d # e /\ (Twins(rows, d, e) \/ Before(rows, d, e))

UpToDate == shown = Build(listed) /\ \A d \in In(listed) : ~Stray(listed, d)
OthersKeepTheirPlace(d) ==
  \A e, f \in In(listed) \ {d} :
    /\ listed'[e].parent = listed[e].parent
    /\ listed[e].parent = listed[f].parent =>
         (Before(listed', e, f) <=> Before(listed, e, f))
IsAt(d, p, i) == Position(shown'.kids[p], d) = i

\* A page that is moved without an error comes to where the user sees it put,
\* and no other page changes its parent or its place among the others, whatever
\* numbers the siblings had, if the tree was up to date.  Dragged down among its
\* own siblings a page may land one row too low (MoveDocument,
\* MoveDocumentToPlacement).
OnlyTheMovedMoves ==
  [][treeErrors' = treeErrors /\ seen' = listed' /\ listed' # listed /\ In(listed') = In(listed) =>
       \A d \in In(listed) :
         /\ \A delta \in {-1, 1} : menu # NoMenu /\ MoveDocument(d, delta) =>
              /\ OthersKeepTheirPlace(d)
              /\ UpToDate => IsAt(d, listed[d].parent, Position(shown.kids[listed[d].parent], d) + delta)
         /\ \A p \in Nodes, row \in -1..Cardinality(TreePages) :
              menu = NoMenu /\ listed'[d].parent = p /\ Drop(d, p, row) =>
              /\ OthersKeepTheirPlace(d)
              /\ UpToDate =>
                   IF row < 0 THEN IsAt(d, p, Len(shown'.kids[p]))
                   ELSE \/ IsAt(d, p, row + 1)
                        \/ listed[d].parent = p /\ row + 1 > Position(shown.kids[p], d)]_treeVars

\* A page dropped between two rows lands between them.  The code does not keep
\* it: the row counts the page itself, the group it is put into does not.
DropLandsWhereShown ==
  [][treeErrors' = treeErrors /\ UpToDate =>
       \A d \in In(listed), p \in Nodes, row \in 0..Cardinality(TreePages) : Drop(d, p, row) =>
         IsAt(d, p, IF listed[d].parent = p /\ Position(shown.kids[p], d) <= row THEN row ELSE row + 1)]_treeVars

\* A refresh leaves the tree as it is listed.  The code does not keep it: a page
\* that was created here and deleted elsewhere before the next refresh stays.
RefreshCatchesUp == listed = seen => In(shown.row) = In(listed)

\* A command of the menu is for the page it was opened on.  The code does not
\* keep it: the menu outlives the tree its index leads into.
MenuActsOnItsPage ==
  [][\A d \in TreePages, title \in TreeTitles : Rename(d, title) => d = menu.page]_treeVars
=============================================================================
