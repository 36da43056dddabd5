---------------------------- MODULE ConflictMerge ----------------------------
(***************************************************************************)
(* A conflict that the replicator has recorded, and the window in which    *)
(* the user merges its two sides block by block (src/src/gui/merge).  The  *)
(* window is not modal: while it is open, the page may be pulled again or  *)
(* be deleted.                                                             *)
(*                                                                         *)
(* A block is an id, a text and the ids of the blocks nested in it; every  *)
(* block has an id, since a page without is never saved.  A page of another*)
(* kind than text has no blocks.  The author and the times are left out.   *)
(***************************************************************************)
EXTENDS Integers, Sequences, SequencesExt

CONSTANTS
  Conflicts, \* the conflicts to start from: [local, remote : snapshot, base : Nat]
  Pulled,    \* snapshots that may be pulled meanwhile
  Missing,   \* no block, no page, no window
  MaxVersion \* bound on the page's version: no pull or save beyond it

VARIABLES
  stored,    \* the page in the repository, or Missing
  conflict,  \* the conflict record: its sides, "pending" or "resolved"; or Missing
  window     \* rows_ of ConflictMergeModel, by the id of the block; or Missing

mergeVars == <<stored, conflict, window>>

-----------------------------------------------------------------------------
(* The rows of the window.                                                  *)

Ids(blocks) == {blocks[i].id : i \in DOMAIN blocks}

\* BlockIndexById: the rank of a block in its own side, from 0.
Rank(blocks, id) == (CHOOSE i \in DOMAIN blocks : blocks[i].id = id) - 1

BlockWith(blocks, id) ==
  IF id \in Ids(blocks) THEN blocks[CHOOSE i \in DOMAIN blocks : blocks[i].id = id]
  ELSE Missing

\* LoadConflict: a row for each block of the local side, with its remote
\* counterpart, and for each block that is only remote.
LoadConflict(c) ==
  [id \in Ids(c.local.blocks) \cup Ids(c.remote.blocks) |->
     [local |-> BlockWith(c.local.blocks, id),
      remote |-> BlockWith(c.remote.blocks, id),
      choice |-> IF id \in Ids(c.local.blocks) THEN "local" ELSE "remote"]]

\* The rows stand in the order of the local side, those that are only remote behind.
RowIndex(c, id) ==
  IF id \in Ids(c.local.blocks) THEN Rank(c.local.blocks, id)
  ELSE Len(c.local.blocks) + Rank(c.remote.blocks, id)

\* Mutant: blocks that are only local do not count.
PreferRemoteDocument_AnyRow(rows) ==
  DOMAIN rows # {} /\ \A id \in DOMAIN rows : rows[id].choice = "remote"

\* Every row takes the remote side, or every row the local one: the document of
\* that side is taken as it is.
PreferRemoteDocument(rows) ==
  DOMAIN rows # {} /\ \A id \in DOMAIN rows : rows[id].choice = "remote" /\ rows[id].remote # Missing

PreferLocalDocument(rows) ==
  DOMAIN rows # {} /\ \A id \in DOMAIN rows : rows[id].choice = "local" /\ rows[id].local # Missing

-----------------------------------------------------------------------------
(* The merged document.                                                     *)

CloneBlockWithFreshId(b) == [b EXCEPT !.id = <<"copy", b.id>>]

\* A block and where it goes: its order_key, rank / count + tenths / 10 of its
\* own side, and the row that put it there.
OrderedBlock(block, blocks, id, tenths, row) ==
  [block |-> block, rank |-> Rank(blocks, id), count |-> Len(blocks), tenths |-> tenths, row |-> row]

\* The blocks a row puts into the merged document.
RowBlocks(c, row, id) ==
  LET n == RowIndex(c, id)
      local(tenths) == {OrderedBlock(row.local, c.local.blocks, id, tenths, n)}
      remote == {OrderedBlock(row.remote, c.remote.blocks, id, 0, n)}
      copy == {OrderedBlock(CloneBlockWithFreshId(row.remote), c.remote.blocks, id, 2, n)}
  IN CASE row.choice = "remote" -> IF row.remote # Missing THEN remote ELSE local(0)
       [] row.choice = "local" -> IF row.local # Missing THEN local(1) ELSE remote
       [] row.choice = "both" -> (IF row.local # Missing THEN local(1) ELSE {})
                                 \cup (IF row.remote # Missing THEN copy ELSE {})

OrderedBlocks(c, rows) == UNION {RowBlocks(c, rows[id], id) : id \in DOMAIN rows}

\* std::stable_sort by order_key, then by insertion_order: by rows, a local block
\* before the copy of the remote one.  Fractions are compared exactly; a sum of
\* doubles may break a tie of unequal tenths either way, which takes a side
\* whose number of blocks is a multiple of 5.
GoesBefore(x, y) ==
  LET kx == (10 * x.rank + x.tenths * x.count) * y.count
      ky == (10 * y.rank + y.tenths * y.count) * x.count
  IN \/ kx < ky
     \/ kx = ky /\ (x.row < y.row \/ (x.row = y.row /\ x.tenths < y.tenths))

\* The block at place i is the one that i - 1 others go before.
Sorted(blocks) ==
  LET place(b) == Cardinality({a \in blocks : GoesBefore(a, b)}) + 1
  IN [i \in 1..Cardinality(blocks) |-> CHOOSE b \in blocks : place(b) = i]

BuildMergedBlocks(c, rows) ==
  IF PreferRemoteDocument(rows) THEN c.remote.blocks
  ELSE IF PreferLocalDocument(rows) THEN c.local.blocks
  ELSE LET sorted == Sorted(OrderedBlocks(c, rows)) IN [i \in DOMAIN sorted |-> sorted[i].block]

\* The title is that of the local side, unless all rows take the remote one.
BuildMergedDocument(c, rows) ==
  [title |-> IF PreferRemoteDocument(rows) THEN c.remote.title ELSE c.local.title,
   blocks |-> BuildMergedBlocks(c, rows)]

-----------------------------------------------------------------------------
(* DocumentValidator: no id occurs twice in a page, nested blocks included. *)

\* Mutant: the children are not converted.
Occurrences_TopLevel(b, id) == IF b.id = id THEN 1 ELSE 0

\* How often ConvertBlock meets an id in a block.
Occurrences(b, id) == (IF b.id = id THEN 1 ELSE 0) + (IF id \in b.children THEN 1 ELSE 0)

ParseAndValidateSnapshot(doc) ==
  LET ids == Ids(doc.blocks) \cup UNION {doc.blocks[i].children : i \in DOMAIN doc.blocks}
      bs == doc.blocks
  IN \A id \in ids : \A i \in DOMAIN bs :
       /\ Occurrences(bs[i], id) <= 1
       /\ \A j \in DOMAIN bs : i # j => Occurrences(bs[i], id) + Occurrences(bs[j], id) <= 1

-----------------------------------------------------------------------------
(* What is given.                                                           *)

Snapshots == {c.local : c \in Conflicts} \cup {c.remote : c \in Conflicts} \cup Pulled
Blocks == UNION {ToSet(d.blocks) : d \in Snapshots}
Copies == {CloneBlockWithFreshId(b) : b \in Blocks}
Titles == {d.title : d \in Snapshots}
StoredPage ==
  [title : Titles, blocks : Seq(Blocks \cup Copies), placed : BOOLEAN, version : Nat]

\* Every save validates the page it stores, and a fresh id is one no block has.
ASSUME MergeAssumption ==
  /\ Missing \notin Blocks \cup Copies \cup StoredPage
  /\ \A c \in Conflicts : c.base \in Nat
  /\ \A d \in Snapshots : d.blocks \in Seq(Blocks) /\ ParseAndValidateSnapshot(d)
  /\ \A b \in Blocks : b = [id |-> b.id, text |-> b.text, children |-> b.children]
  /\ \A a, b \in Blocks : a.id # <<"copy", b.id>>

-----------------------------------------------------------------------------
(* The window.                                                              *)

\* ShowConflictWindow closes the window that is open.  A conflict that is gone
\* cannot be loaded: the window has no rows.
ShowConflictWindow ==
  /\ window' = (IF conflict = Missing THEN <<>> ELSE LoadConflict(conflict))
  /\ UNCHANGED <<stored, conflict>>

SetResolution(id, choice) ==
  /\ window # Missing /\ id \in DOMAIN window
  /\ window' = [window EXCEPT ![id].choice = choice]
  /\ UNCHANGED <<stored, conflict>>

\* useAllLocal, useAllRemote.
SetResolutionForAll(choice) ==
  /\ window # Missing
  /\ window' = [id \in DOMAIN window |-> [window[id] EXCEPT !.choice = choice]]
  /\ UNCHANGED <<stored, conflict>>

cancelMerge == window # Missing /\ window' = Missing /\ UNCHANGED <<stored, conflict>>

MaxOf(x, y) == IF x > y THEN x ELSE y

\* The record that is saved: the current one with the merged content.  If that
\* cannot be loaded the record is a new one, at the root of its workspace.
MergedRecord(doc, current) ==
  [title |-> doc.title, blocks |-> doc.blocks,
   placed |-> current # Missing /\ current.placed,
   version |-> MaxOf(MaxOf(1, IF current = Missing THEN 1 ELSE current.version),
                     conflict.base) + 1]

\* Mutant: the conflict is resolved first.
SaveAndResolve_ResolveFirst(record) ==
  \/ UNCHANGED mergeVars
  \/ conflict' = [conflict EXCEPT !.state = "resolved"] /\ UNCHANGED <<stored, window>>
  \/ stored' = record /\ conflict' = [conflict EXCEPT !.state = "resolved"] /\ window' = Missing

\* SaveDocument, then ResolveConflict; either may fail, and then the window
\* stays open.
SaveAndResolve(record) ==
  \/ UNCHANGED mergeVars
  \/ stored' = record /\ UNCHANGED <<conflict, window>>
  \/ stored' = record /\ conflict' = [conflict EXCEPT !.state = "resolved"] /\ window' = Missing

\* saveMerge: without rows there is nothing to save, and an invalid merge or a
\* conflict that is gone is refused.
saveMerge ==
  /\ window # Missing /\ DOMAIN window # {} /\ conflict # Missing
  /\ ParseAndValidateSnapshot(BuildMergedDocument(conflict, window))
  /\ stored # Missing => stored.version < MaxVersion
  /\ \E current \in {stored, Missing} :
       SaveAndResolve(MergedRecord(BuildMergedDocument(conflict, window), current))

-----------------------------------------------------------------------------
(* What else happens to the page.                                           *)

PullPage(doc) ==
  /\ stored # Missing /\ stored.version < MaxVersion
  /\ stored' = [stored EXCEPT !.title = doc.title, !.blocks = doc.blocks, !.version = @ + 1]
  /\ UNCHANGED <<conflict, window>>

\* A pulled deletion leaves the conflict, DeleteDocument takes it along.
PullDeletion ==
  /\ stored # Missing /\ stored' = Missing /\ UNCHANGED <<conflict, window>>

DeleteDocument ==
  /\ stored # Missing /\ stored' = Missing /\ conflict' = Missing /\ UNCHANGED window

NoMerge == stored = Missing /\ conflict = Missing /\ window = Missing

\* The resolver has recorded a conflict and kept one of its sides.
ConflictRecorded ==
  /\ window = Missing
  /\ \E c \in Conflicts, side \in {"local", "remote"} :
       /\ conflict = [local |-> c.local, remote |-> c.remote, base |-> c.base, state |-> "pending"]
       /\ stored = [title |-> c[side].title, blocks |-> c[side].blocks,
                    placed |-> TRUE, version |-> c.base]

WindowNext ==
  \/ ShowConflictWindow
  \/ \E id \in (IF window = Missing THEN {} ELSE DOMAIN window), c \in {"local", "remote", "both"} :
       SetResolution(id, c)
  \/ \E c \in {"local", "remote"} : SetResolutionForAll(c)
  \/ cancelMerge
  \/ saveMerge

MergeNext ==
  \/ WindowNext
  \/ \E d \in Pulled : PullPage(d)
  \/ PullDeletion
  \/ DeleteDocument

MergeSpec == ConflictRecorded /\ [][MergeNext]_mergeVars

-----------------------------------------------------------------------------
(* Properties.                                                              *)

\* Types.  The window shows the sides of the conflict it is saved against.
ShowsConflict(rows, c) ==
  /\ rows = [id \in Ids(c.local.blocks) \cup Ids(c.remote.blocks) |-> rows[id]]
  /\ \A id \in DOMAIN rows : \E choice \in {"local", "remote", "both"} :
       rows[id] = [LoadConflict(c)[id] EXCEPT !.choice = choice]

MergeTypeOK ==
  /\ stored \in StoredPage \cup {Missing}
  /\ conflict # Missing =>
       \E c \in Conflicts, state \in {"pending", "resolved"} :
         conflict = [local |-> c.local, remote |-> c.remote, base |-> c.base, state |-> state]
  /\ window # Missing /\ conflict # Missing => ShowsConflict(window, conflict)

\* What the user sees is what is merged: whatever is chosen, and by whichever
\* of the shortcuts, the merged page has each row's chosen block, or the only
\* block it has, no other, and each of them once.  If neither side has added,
\* removed or moved a block, and there are fewer than ten, all blocks stay in
\* their order.  (The tenth a local block is put back by in BuildMergedBlocks is
\* less than the way to the next block only then.)
ChosenBlocks(row) ==
  CASE row.choice = "both" -> {row.local} \cup
                              (IF row.remote = Missing THEN {}
                               ELSE {CloneBlockWithFreshId(row.remote)})
    [] row.choice = "local" -> {IF row.local # Missing THEN row.local ELSE row.remote}
    [] row.choice = "remote" -> {IF row.remote # Missing THEN row.remote ELSE row.local}

Follow(blocks, a, b) ==
  \E i, j \in DOMAIN blocks : i < j /\ blocks[i].id = a /\ blocks[j].id = b

MergeKeepsChoices ==
  window # Missing /\ conflict # Missing =>
    LET merged == BuildMergedBlocks(conflict, window)
        chosen == (UNION {ChosenBlocks(window[id]) : id \in DOMAIN window}) \ {Missing}
        l == conflict.local.blocks
        r == conflict.remote.blocks
    IN /\ ToSet(merged) = chosen /\ IsInjective(merged)
       /\ Len(l) = Len(r) /\ Len(l) < 10 /\ (\A i \in DOMAIN l : l[i].id = r[i].id) =>
            \A i, j \in DOMAIN l : i < j => Follow(merged, l[i].id, l[j].id)

\* A block is never in a page twice, neither beside nor below another, though
\* the two sides may have nested it differently and "both" keeps its children in
\* both copies: such a merge is never stored.
BlocksAreUnique ==
  stored # Missing =>
    LET below(i) == stored.blocks[i].children
        at(i) == {stored.blocks[i].id} \cup below(i)
    IN \A i, j \in DOMAIN stored.blocks :
         /\ stored.blocks[i].id \notin below(i)
         /\ i # j => at(i) \cap at(j) = {}

\* A conflict stops being pending only when the page holds the merge the window
\* shows, or is deleted: whatever fails in between, no side is discarded
\* silently.
ResolvedIsSaved ==
  [][conflict # Missing /\ conflict.state = "pending" /\ conflict' # conflict =>
       IF stored' = Missing THEN conflict' = Missing
       ELSE [title |-> stored'.title, blocks |-> stored'.blocks]
              = BuildMergedDocument(conflict, window)]_mergeVars
=============================================================================
