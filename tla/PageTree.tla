------------------------------ MODULE PageTree ------------------------------
(***************************************************************************)
(* The tree of pages a desktop edits: the tree half of the editor bridge   *)
(* (src/src/bridge/editor_bridge.cc: list, create, move, delete to the     *)
(* trash, restore, delete for good, empty the trash) with the handlers of  *)
(* the shell page (src/src/gui/page.cc) that call it.                      *)
(*                                                                         *)
(* A page knows its parent; nothing stores the children.  A handler runs   *)
(* on the GUI thread to its end and is one step, although it writes one    *)
(* page after the other: an error of the storage (counted in faults) leaves*)
(* the pages written so far.  Other desktops change pages through the      *)
(* replicator between two steps.  Titles, contents and the order of        *)
(* siblings are left out (EditorBridge, DocumentTree).                    *)
(***************************************************************************)
EXTENDS Naturals, FiniteSets

CONSTANTS
  Docs,        \* ids of pages that exist or may be created
  Workspaces,  \* available workspaces
  Default,     \* the workspace "default"
  NoDoc,       \* no page: std::nullopt, an empty id
  Absent,      \* a page that is not stored
  MaxFaults    \* bound on storage errors

ASSUME PageTreeAssumption ==
  /\ IsFiniteSet(Docs) /\ NoDoc \notin Docs
  /\ Default \in Workspaces
  /\ Absent \notin [ws : Workspaces, parent : Docs \cup {NoDoc}, trashed : BOOLEAN]
  /\ MaxFaults \in Nat

VARIABLES
  docs,     \* page id -> its metadata, or Absent
  roots,    \* workspaces that have a root record
  ui,       \* the page's and the bridge's members, see Init
  own,      \* history: pages that went to the trash by their own deletion
  hung,     \* a walk over the tree never ends
  faults    \* storage errors so far

vars == <<docs, roots, ui, own, hung, faults>>

Page == [ws : Workspaces, parent : Docs \cup {NoDoc}, trashed : BOOLEAN]
Stored == {d \in Docs : docs[d] # Absent}
Live(w) == {d \in Stored : docs[d].ws = w /\ ~docs[d].trashed}
Trash(w) == {d \in Stored : docs[d].ws = w /\ docs[d].trashed}
NewPage(w, p) == [ws |-> w, parent |-> p, trashed |-> FALSE]

\* pageWs is current_workspace_id_ of Page; the others are the bridge's
\* current_workspace_id_ and current_page_id_; locked says that
\* current_document_editable_ is off or current_document_has_conflict_ is on.
Init ==
  /\ docs = [d \in Docs |-> Absent]
  /\ roots = {}
  /\ ui = [pageWs |-> Default, ws |-> Default, current |-> NoDoc, locked |-> FALSE]
  /\ own = {} /\ hung = FALSE /\ faults = 0

-----------------------------------------------------------------------------
(* Walks over the tree.                                                     *)

Children(S) == {d \in Stored : docs[d].parent \in S}
Below(S) == S \cup Children(S)

\* The pages the breadth-first walk of CollectDocumentTreeIds has put out after
\* n levels.  It follows parent ids through the trash and through workspaces.
Walked(root) ==
  LET level[n \in 0..Cardinality(Docs)] == IF n = 0 THEN {root} ELSE Below(level[n - 1])
  IN level

\* Mutant: the walk stops at pages that are in the trash.
CollectDocumentTreeIds_Live(root) ==
  LET LiveBelow(S) == S \cup {d \in Children(S) : ~docs[d].trashed}
      level[n \in 0..Cardinality(Docs)] ==
        IF n = 0 THEN {root} ELSE LiveBelow(level[n - 1])
  IN level[Cardinality(Docs)]

CollectDocumentTreeIds(root) == Walked(root)[Cardinality(Docs)]

\* The walk keeps no set of visited pages: it goes round a cycle for ever.  A
\* page has one parent, so a cycle below the root has the root in it.
WalkEnds(root) ==
  root \in Stored => docs[root].parent \notin CollectDocumentTreeIds(root)

\* The pages handled before the walk in its order is cut short by an error:
\* whole levels and a part of the next one.
Handled(root) ==
  {S \in SUBSET CollectDocumentTreeIds(root) :
     \/ S = {}
     \/ \E n \in 0..(Cardinality(Docs) - 1) :
          Walked(root)[n] \subseteq S /\ S \subseteq Walked(root)[n + 1]}
Beginnings(root) ==
  IF faults < MaxFaults THEN Handled(root) ELSE {CollectDocumentTreeIds(root)}
Charge(root, S) == faults' = IF S = CollectDocumentTreeIds(root) THEN faults ELSE faults + 1

-----------------------------------------------------------------------------
(* The page's and the bridge's members.                                     *)

ClearCurrentDocumentSelection(u) == [u EXCEPT !.current = NoDoc, !.locked = FALSE]

\* Page::ActivateWorkspace and QEditorBridge::SetCurrentWorkspaceId.
ActivateWorkspace(u, w) ==
  IF u.pageWs = w THEN u
  ELSE [ClearCurrentDocumentSelection(u) EXCEPT !.pageWs = w, !.ws = w]

\* RejectIfCurrentDocumentLocked and RejectIfCurrentDocumentConflicted.
Rejected(u, d) == u.current = d /\ u.locked

\* LoadDocumentRecord succeeds.
Loads(u, d) == d \in Stored /\ docs[d].ws = u.ws

Forget(u, S) == IF u.current \in S THEN [u EXCEPT !.current = NoDoc] ELSE u

-----------------------------------------------------------------------------
(* Handlers of the tree.                                                    *)

\* OnTreePressed: the workspace, or that of the page, becomes the current one;
\* the web editor opens the page later (LoadDocument).
OnTreePressed(w) ==
  /\ ui' = ActivateWorkspace(ui, w)
  /\ UNCHANGED <<docs, roots, own, hung, faults>>

\* loadDocument and ApplyConflictStateForDocument for the page selected, with
\* the access and the conflict state there are at that time.
LoadDocument(d, l) ==
  /\ Loads(ui, d)
  /\ ui' = [ui EXCEPT !.current = d, !.locked = l]
  /\ UNCHANGED <<docs, roots, own, hung, faults>>

\* SetCurrentDocumentAccess, SetCurrentDocumentConflicted.
SetCurrentDocumentAccess(l) ==
  /\ ui' = [ui EXCEPT !.locked = l]
  /\ UNCHANGED <<docs, roots, own, hung, faults>>

\* An id of QUuid: nothing has had it before.
Fresh(d) == d \notin Stored /\ d # ui.current /\ \A c \in Stored : docs[c].parent # d

\* CreateNewDocument and CreateChildDocument, HandleCreatedDocument.  A parent is taken from the tree and looked up again.
CreateDocument(d, w, p) ==
  /\ Fresh(d)
  /\ p # NoDoc => p \in Stored /\ docs[p].ws = w
  /\ docs' = [docs EXCEPT ![d] = NewPage(w, p)]
  /\ ui' = ActivateWorkspace(ui, w)
  /\ UNCHANGED <<roots, own, hung, faults>>

\* The check of MoveDocumentToPlacement: the chain of parents above p as far as
\* the pages shown in w go.
Above(p, w) ==
  LET Up(S) == S \cup {docs[d].parent : d \in S \cap Live(w)}
      up[n \in 0..Cardinality(Docs)] == IF n = 0 THEN {p} ELSE Up(up[n - 1])
  IN up[Cardinality(Docs)]

\* Mutant: only the new parent itself is compared with the page moved.
CanMove_ParentOnly(d, p, w) == d \in Live(w) /\ d # p

CanMove(d, p, w) == d \in Live(w) /\ (p # NoDoc => d \notin Above(p, w))

\* MoveDocumentToPlacement on a new parent.  The old siblings are saved before
\* the page is, so the open page stops the sequence if it is one of them and may
\* not be written.  What a step does that is rejected or fails before the page
\* itself is written, SelectWorkspace does.
MoveDocumentToPlacement(d, p, w) ==
  LET u == ActivateWorkspace(ui, w) IN
  /\ p # NoDoc => p \in Stored \ {d} /\ docs[p].ws = w
  /\ CanMove(d, p, w) /\ p # docs[d].parent
  /\ Loads(u, d) /\ ~Rejected(u, d)
  /\ ~\E s \in Live(w) : docs[s].parent = docs[d].parent /\ Rejected(u, s)
  /\ docs' = [docs EXCEPT ![d].parent = p]
  /\ ui' = u
  /\ UNCHANGED <<roots, own, hung, faults>>

-----------------------------------------------------------------------------
(* The trash.                                                               *)

\* A walk that does not end: the GUI thread stays in it.
Hang(root) ==
  /\ ~WalkEnds(root) /\ hung' = TRUE
  /\ UNCHANGED <<docs, roots, ui, own, faults>>

\* TrashDocumentTree.
SetTrashed(S, t) ==
  docs' = [d \in Docs |-> IF d \in S \cap Stored THEN [docs[d] EXCEPT !.trashed = t] ELSE docs[d]]

\* Page::DeleteDocument: to the trash, then another page of the workspace is
\* selected, or none.
DeleteDocument(d) ==
  LET u == ActivateWorkspace(ui, docs[d].ws) IN
  /\ d \in Stored
  /\ Loads(u, d) /\ ~Rejected(u, d)
  /\ \/ Hang(d)
     \/ /\ WalkEnds(d)
        /\ \E S \in Beginnings(d) :
             /\ SetTrashed(S, TRUE)
             /\ own' = own \cup ({d} \cap S)
             /\ ui' = IF S # CollectDocumentTreeIds(d) THEN u
                      ELSE IF Live(u.pageWs) \subseteq S THEN ClearCurrentDocumentSelection(u)
                      ELSE Forget(u, {d})
             /\ Charge(d, S)
        /\ UNCHANGED <<roots, hung>>

\* TrashDialog, "Restore": every page of the tree that is in the trash.
RestoreDocument(d) ==
  /\ d \in Trash(ui.ws)
  /\ \/ Hang(d)
     \/ /\ WalkEnds(d)
        /\ \E S \in Beginnings(d) :
             /\ SetTrashed(S, FALSE)
             /\ own' = own \ S
             /\ Charge(d, S)
        /\ UNCHANGED <<roots, ui, hung>>

Delete(S) ==
  /\ docs' = [d \in Docs |-> IF d \in S THEN Absent ELSE docs[d]]
  /\ own' = own \ S

\* TrashDialog, "Delete Permanently": the tree from its leaves, so an error
\* leaves a prefix of the walk.
PermanentlyDeleteDocument(d) ==
  /\ d \in Trash(ui.ws)
  /\ \/ Hang(d)
     \/ /\ WalkEnds(d)
        /\ \/ /\ Delete(CollectDocumentTreeIds(d))
              /\ ui' = Forget(ui, {d}) /\ UNCHANGED faults
           \/ \E S \in Beginnings(d) \ {{}, CollectDocumentTreeIds(d)} :
                /\ Delete(CollectDocumentTreeIds(d) \ S)
                /\ Charge(d, S) /\ UNCHANGED ui
        /\ UNCHANGED <<roots, hung>>

\* Mutant: whatever lies below a page in the trash goes with it.
EmptyTrash_WithTrees ==
  /\ Trash(ui.ws) # {}
  /\ LET S == UNION {CollectDocumentTreeIds(d) : d \in Trash(ui.ws)} IN
     Delete(S) /\ ui' = Forget(ui, S)
  /\ UNCHANGED <<roots, hung, faults>>

\* TrashDialog, "Empty Trash": what the trash of the workspace lists, in any
\* order; an error ends it.
EmptyTrash ==
  \E S \in (SUBSET Trash(ui.ws)) \ {{}} :
    /\ S # Trash(ui.ws) => faults < MaxFaults
    /\ Delete(S) /\ ui' = Forget(ui, S)
    /\ faults' = IF S = Trash(ui.ws) THEN faults ELSE faults + 1
    /\ UNCHANGED <<roots, hung>>

-----------------------------------------------------------------------------
(* Listing, saving, restoring a backup.                                     *)

NeedsWelcome(w) == w \notin roots /\ ~\E d \in Stored : docs[d].ws = w

\* listDocumentsInWorkspace, called for every workspace when the page fills its
\* tree: at the start, after a dialog, when the sync service reports a change.
\* Without a page, a root record and the expectation of remote pages (a fact
\* of the sync service, any here) the workspace gets a Welcome page and a root
\* record, whose failure is only logged.
ListDocumentsInWorkspace(w, d) ==
  /\ NeedsWelcome(w) /\ Fresh(d)
  /\ docs' = [docs EXCEPT ![d] = NewPage(w, NoDoc)]
  /\ \/ roots' = roots \cup {w} /\ UNCHANGED faults
     \/ faults < MaxFaults /\ faults' = faults + 1 /\ UNCHANGED roots
  /\ UNCHANGED <<ui, own, hung>>

\* updateSnapshot for the open page.  The metadata of a page that is gone are
\* empty: it comes back in the workspace "default", at the top.
UpdateSnapshot ==
  /\ ui.current \in Docs \ Stored /\ ~ui.locked
  /\ docs' = [docs EXCEPT ![ui.current] = NewPage(Default, NoDoc)]
  /\ UNCHANGED <<roots, ui, own, hung, faults>>

\* RestoreWorkspaceFromBackup: only the page changes the workspace.  The pages
\* of the backup come like those of another desktop (ReplicatedPut).
RestoreWorkspaceFromBackup(w) ==
  /\ ui' = [ui EXCEPT !.pageWs = w]
  /\ UNCHANGED <<docs, roots, own, hung, faults>>

-----------------------------------------------------------------------------
(* Other desktops.                                                          *)

\* A page created, moved, trashed or restored elsewhere.  A page keeps its
\* workspace; two desktops that move pages below each other make a cycle.
ReplicatedPut(d, r) ==
  /\ d \in Stored => r.ws = docs[d].ws
  /\ r.parent # d
  /\ docs' = [docs EXCEPT ![d] = r]
  /\ own' = own \ {d}
  /\ UNCHANGED <<roots, ui, hung, faults>>

ReplicatedDelete(d) ==
  /\ d \in Stored
  /\ Delete({d})
  /\ UNCHANGED <<roots, ui, hung, faults>>

ReplicatedRoot(w) ==
  /\ roots' = roots \cup {w}
  /\ UNCHANGED <<docs, ui, own, hung, faults>>

LocalStep ==
  \/ \E w \in Workspaces : OnTreePressed(w) \/ RestoreWorkspaceFromBackup(w)
  \/ \E d \in Docs, l \in BOOLEAN : LoadDocument(d, l)
  \/ \E l \in BOOLEAN : SetCurrentDocumentAccess(l)
  \/ \E d \in Docs, w \in Workspaces, p \in Docs \cup {NoDoc} :
       CreateDocument(d, w, p) \/ MoveDocumentToPlacement(d, p, w)
  \/ \E d \in Docs : DeleteDocument(d) \/ RestoreDocument(d) \/ PermanentlyDeleteDocument(d)
  \/ EmptyTrash
  \/ \E w \in Workspaces, d \in Docs : ListDocumentsInWorkspace(w, d)
  \/ UpdateSnapshot
RemoteStep ==
  \/ \E d \in Docs : ReplicatedDelete(d) \/ \E r \in Page : ReplicatedPut(d, r)
  \/ \E w \in Workspaces : ReplicatedRoot(w)
Next == ~hung /\ (LocalStep \/ RemoteStep)
Spec == Init /\ [][Next]_vars

-----------------------------------------------------------------------------
(* What must hold.                                                          *)

\* Types.
TypeOK ==
  /\ docs \in [Docs -> Page \cup {Absent}] /\ roots \subseteq Workspaces
  /\ ui \in [pageWs : Workspaces, ws : Workspaces, current : Docs \cup {NoDoc}, locked : BOOLEAN]
  /\ own \subseteq Docs /\ hung \in BOOLEAN
  /\ faults \in 0..MaxFaults

\* No page is, through pages that are not in the trash, its own ancestor.
LiveAcyclic ==
  \A S \in (SUBSET {d \in Stored : ~docs[d].trashed}) \ {{}} :
    \E d \in S : docs[d].parent \notin S

\* A page lies below a page of its own workspace, or of "default", where a page
\* comes back that is saved after its deletion.
Nested ==
  \A d \in Stored : docs[d].parent \in Stored => docs[docs[d].parent].ws \in {docs[d].ws, Default}

\* The check before a move climbs only the pages shown, yet no step of this
\* desktop closes a cycle of live pages, whatever lies in the trash; a cycle
\* comes from another desktop, or needs a page of another workspace in between
\* (MoveDocumentToPlacement, RestoreDocumentTree).
OnlyRemotesCloseCycles == [][Nested /\ LiveAcyclic /\ ~LiveAcyclic' => ~LocalStep]_vars

\* A delete that meets no storage error leaves no live page below the page
\* deleted, also behind pages that had gone to the trash before
\* (TrashDocumentTree).
DeleteReachesAll ==
  [][\A d \in Docs : DeleteDocument(d) /\ faults' = faults /\ ~hung' =>
       \E S \in SUBSET Stored :
         d \in S /\ Children(S) \subseteq S /\ \A c \in S : docs'[c].trashed]_vars

\* Emptying the trash destroys what the trash lists and no page that has been
\* restored out of a deleted tree (emptyTrash does not walk trees).
EmptyTrashKeepsLive ==
  [][EmptyTrash => \A d \in Stored : ~docs[d].trashed => docs'[d] = docs[d]]_vars

\* "restoring a page whose child was independently trashed at a different time
\* doesn't resurrect that child" (RestoreDocumentTree).
RestoreKeepsOwnTrash ==
  [][\A d \in Docs : RestoreDocument(d) =>
       \A c \in own \ {d} : c \in Stored => docs'[c].trashed]_vars
=============================================================================
