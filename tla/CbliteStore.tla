----------------------------- MODULE CbliteStore -----------------------------
(***************************************************************************)
(* CbliteDocumentRepository (src/src/storage/cblite_document_repository.cc)*)
(* keeps page documents in two Couchbase Lite collections: the "synced"    *)
(* one, which the replicator pushes and pulls, and the "local" one.  Each  *)
(* collection holds an index document that ListDocuments reads; the local  *)
(* one also holds the conflict records and their index document.           *)
(*                                                                         *)
(* Nothing groups the writes of one operation in a transaction, so every   *)
(* write of the GUI thread is a step of its own (variable pc).  The        *)
(* replicator runs on other threads: it stores pulled documents, calls the *)
(* conflict resolver (variable rpc) and delivers change notifications      *)
(* later (variable events).                                                *)
(***************************************************************************)
EXTENDS Naturals, FiniteSets

CONSTANTS
  Docs,          \* page ids
  Workspaces,    \* workspace ids
  WorkspaceOf,   \* the workspace of a page: fixed, a page never changes it
  ConflictIds,   \* ids of conflict records, "<page>-<sequence>"
  PageOf,        \* the page a conflict id names
  NoDoc,         \* no page is being worked on
  NoConflict,    \* no conflict record is being worked on
  MaxFaults      \* bound on crashes, storage errors and lost notifications

ASSUME CbliteStoreAssumption ==
  /\ WorkspaceOf \in [Docs -> Workspaces]
  /\ PageOf \in [ConflictIds -> Docs]
  /\ NoDoc \notin Docs
  /\ NoConflict \notin ConflictIds
  /\ MaxFaults \in Nat

VARIABLES
  docs,          \* collection -> pages stored in it                 (on disk)
  index,         \* collection -> pages named by its index document  (on disk)
  indexDocs,     \* collections whose index document exists          (on disk)
  conflicts,     \* conflict id -> resolution state or "none"        (on disk)
  conflictIndex, \* conflict ids named by the conflict index         (on disk)
  mapped,        \* synced_workspace_ids_
  channels,      \* workspaces the running replicator pulls, {} when stopped
  changed,       \* the bootstrap being applied differs from the last one
  dirty,         \* document_index_dirty_
  events,        \* change notifications not delivered yet, own writes' included
  pc,            \* next write of the GUI thread
  cur,           \* page the GUI thread works on
  dest,          \* collection SaveDocument writes to
  todo,          \* pages left to promote or to index
  ctodo,         \* conflict records left to delete
  cconf, cread,  \* conflict record written, conflict index read with it
  rpc,           \* next write of the conflict resolver
  rconf, rread,  \* the resolver's conflict record and the index it read
  faults         \* crashes, errors and losses so far

disk   == <<docs, index, indexDocs, conflicts, conflictIndex>>
sync   == <<mapped, channels, changed>>
notice == <<dirty, events>>
gui    == <<pc, cur, dest, todo, ctodo, cconf, cread>>
replicator == <<rpc, rconf, rread>>
vars == <<disk, sync, notice, gui, replicator, faults>>

Coll == {"synced", "local"}
Other(c) == IF c = "synced" THEN "local" ELSE "synced"
ConflictStates == {"pending", "resolved", "dismissed"}

Stored == docs["synced"] \cup docs["local"]
Backed(d) == WorkspaceOf[d] \in mapped

\* Mutant: one local collection per workspace.
GetCollectionForWorkspace_PerWorkspace(d) == IF Backed(d) THEN "synced" ELSE WorkspaceOf[d]

GetCollectionForWorkspace(d) == IF Backed(d) THEN "synced" ELSE "local"

\* ScopedCollectionWriteGuard: some thread is inside SaveDocument,
\* DeleteDocument, SaveConflict, DeleteConflict or the promotion.
Guarded == pc \notin {"idle", "scan", "reindex"} \/ rpc # "idle"

Init ==
  /\ docs = [c \in Coll |-> {}] /\ index = [c \in Coll |-> {}]
  /\ indexDocs = {}
  /\ conflicts = [i \in ConflictIds |-> "none"] /\ conflictIndex = {}
  /\ mapped = {} /\ channels = {} /\ changed = FALSE
  /\ dirty = FALSE /\ events = {}
  /\ pc = "idle" /\ cur = NoDoc /\ dest = "local" /\ todo = {} /\ ctodo = {}
  /\ cconf = NoConflict /\ cread = {}
  /\ rpc = "idle" /\ rconf = NoConflict /\ rread = {}
  /\ faults = 0

-----------------------------------------------------------------------------
(* SaveDocument: the collection is chosen first, then the document is       *)
(* written, a local copy that was promoted is dropped, and the entry is     *)
(* written to one index and removed from the other.                         *)

\* Mutant: the collection follows the mapping, wherever the page is.
SaveDocument_ByMapping(d) ==
  /\ pc = "idle"
  /\ cur' = d
  /\ dest' = GetCollectionForWorkspace(d)
  /\ pc' = "save_write"
  /\ UNCHANGED <<disk, sync, notice, todo, ctodo, cconf, cread, replicator, faults>>

SaveDocument(d) ==
  /\ pc = "idle"
  /\ cur' = d
  /\ dest' = IF d \in docs["synced"] \/ (d \notin docs["local"] /\ Backed(d))
             THEN "synced" ELSE "local"
  /\ pc' = "save_write"
  /\ UNCHANGED <<disk, sync, notice, todo, ctodo, cconf, cread, replicator, faults>>

SaveWrite ==
  /\ pc = "save_write"
  /\ docs' = [docs EXCEPT ![dest] = @ \cup {cur}]
  /\ events' = events \cup {"collection"}
  /\ pc' = "save_drop"
  /\ UNCHANGED <<index, indexDocs, conflicts, conflictIndex, sync, dirty>>
  /\ UNCHANGED <<cur, dest, todo, ctodo, cconf, cread, replicator, faults>>

\* Mutant: the local copy is dropped whatever collection was written.
SaveDropLocal_Always ==
  /\ pc = "save_drop"
  /\ docs' = [docs EXCEPT !["local"] = @ \ {cur}]
  /\ events' = events \cup {"collection"}
  /\ pc' = "save_index"
  /\ UNCHANGED <<index, indexDocs, conflicts, conflictIndex, sync, dirty>>
  /\ UNCHANGED <<cur, dest, todo, ctodo, cconf, cread, replicator, faults>>

SaveDropLocal ==
  /\ pc = "save_drop"
  /\ docs' = IF dest = "synced" THEN [docs EXCEPT !["local"] = @ \ {cur}] ELSE docs
  /\ events' = IF docs' = docs THEN events ELSE events \cup {"collection"}
  /\ pc' = "save_index"
  /\ UNCHANGED <<index, indexDocs, conflicts, conflictIndex, sync, dirty>>
  /\ UNCHANGED <<cur, dest, todo, ctodo, cconf, cread, replicator, faults>>

SaveDocumentIndexEntry ==
  /\ pc = "save_index"
  /\ index' = [index EXCEPT ![dest] = @ \cup {cur}]
  /\ indexDocs' = indexDocs \cup {dest}
  /\ pc' = "save_unindex"
  /\ UNCHANGED <<docs, conflicts, conflictIndex, sync, notice>>
  /\ UNCHANGED <<cur, dest, todo, ctodo, cconf, cread, replicator, faults>>

DropOtherIndexEntry ==
  /\ pc = "save_unindex"
  /\ index' = [index EXCEPT ![Other(dest)] = @ \ {cur}]
  /\ indexDocs' = indexDocs \cup {Other(dest)}
  /\ pc' = "idle" /\ cur' = NoDoc
  /\ UNCHANGED <<docs, conflicts, conflictIndex, sync, notice>>
  /\ UNCHANGED <<dest, todo, ctodo, cconf, cread, replicator, faults>>

-----------------------------------------------------------------------------
(* Conflict records.  A record and the conflict index are two documents;    *)
(* the index is read, edited and saved back (last write wins).              *)

IndexEdit(i, read) == IF conflicts[i] = "none" THEN read \ {i} ELSE read \cup {i}

\* LoadConflict finds a record through its id, ListConflicts through the index.
ListConflicts == {i \in conflictIndex : conflicts[i] # "none"}

\* ResolveConflict, DismissConflict: load the record, save it with a new state.
UpdateConflictResolutionState(i, state) ==
  /\ pc = "idle"
  /\ conflicts[i] # "none"
  /\ conflicts' = [conflicts EXCEPT ![i] = state]
  /\ cconf' = i /\ cread' = conflictIndex
  /\ pc' = "conflict_write"
  /\ UNCHANGED <<docs, index, indexDocs, conflictIndex, sync, notice>>
  /\ UNCHANGED <<cur, dest, todo, ctodo, replicator, faults>>

\* DeleteConflict, called for each record of a page that is being deleted.
DeleteConflict(i) ==
  /\ pc = "delete_conflicts"
  /\ i \in ctodo
  /\ conflicts' = [conflicts EXCEPT ![i] = "none"]
  /\ ctodo' = ctodo \ {i}
  /\ cconf' = i /\ cread' = conflictIndex
  /\ pc' = "conflict_write"
  /\ UNCHANGED <<docs, index, indexDocs, conflictIndex, sync, notice>>
  /\ UNCHANGED <<cur, dest, todo, replicator, faults>>

WriteConflictIndex ==
  /\ pc = "conflict_write"
  /\ conflictIndex' = IndexEdit(cconf, cread)
  /\ events' = events \cup {"collection"}
  /\ cconf' = NoConflict /\ cread' = {}
  /\ pc' = IF cur = NoDoc THEN "idle" ELSE "delete_conflicts"
  /\ UNCHANGED <<docs, index, indexDocs, conflicts, sync, dirty>>
  /\ UNCHANGED <<cur, dest, todo, ctodo, replicator, faults>>

-----------------------------------------------------------------------------
(* DeleteDocument: the page's conflict records, both copies, both entries.  *)

DeleteDocument(d) ==
  /\ pc = "idle"
  /\ cur' = d
  /\ ctodo' = {i \in ListConflicts : PageOf[i] = d}
  /\ pc' = "delete_conflicts"
  /\ UNCHANGED <<disk, sync, notice, dest, todo, cconf, cread, replicator, faults>>

DeleteSyncedCopy ==
  /\ pc = "delete_conflicts" /\ ctodo = {}
  /\ docs' = [docs EXCEPT !["synced"] = @ \ {cur}]
  /\ events' = IF docs' = docs THEN events ELSE events \cup {"collection"}
  /\ pc' = "delete_local"
  /\ UNCHANGED <<index, indexDocs, conflicts, conflictIndex, sync, dirty>>
  /\ UNCHANGED <<cur, dest, todo, ctodo, cconf, cread, replicator, faults>>

DeleteLocalCopy ==
  /\ pc = "delete_local"
  /\ docs' = [docs EXCEPT !["local"] = @ \ {cur}]
  /\ events' = IF docs' = docs THEN events ELSE events \cup {"collection"}
  /\ pc' = "unindex_local"
  /\ UNCHANGED <<index, indexDocs, conflicts, conflictIndex, sync, dirty>>
  /\ UNCHANGED <<cur, dest, todo, ctodo, cconf, cread, replicator, faults>>

RemoveLocalIndexEntry ==
  /\ pc = "unindex_local"
  /\ index' = [index EXCEPT !["local"] = @ \ {cur}]
  /\ indexDocs' = indexDocs \cup {"local"}
  /\ pc' = "unindex_synced"
  /\ UNCHANGED <<docs, conflicts, conflictIndex, sync, notice>>
  /\ UNCHANGED <<cur, dest, todo, ctodo, cconf, cread, replicator, faults>>

RemoveSyncedIndexEntry ==
  /\ pc = "unindex_synced"
  /\ index' = [index EXCEPT !["synced"] = @ \ {cur}]
  /\ indexDocs' = indexDocs \cup {"synced"}
  /\ pc' = "idle" /\ cur' = NoDoc
  /\ UNCHANGED <<docs, conflicts, conflictIndex, sync, notice>>
  /\ UNCHANGED <<dest, todo, ctodo, cconf, cread, replicator, faults>>

-----------------------------------------------------------------------------
(* ListDocuments: with the dirty flag set, or with no index document, the   *)
(* flag is cleared, the collections are scanned and an entry is written for *)
(* each page found.  Otherwise it only reads, which changes no state.       *)

ListDocuments ==
  /\ pc = "idle"
  /\ dirty \/ indexDocs = {}
  /\ dirty' = FALSE
  /\ pc' = "scan"
  /\ UNCHANGED <<disk, sync, events, cur, dest, todo, ctodo, cconf, cread>>
  /\ UNCHANGED <<replicator, faults>>

ScanCollections ==
  /\ pc = "scan"
  /\ todo' = Stored
  /\ pc' = "reindex"
  /\ UNCHANGED <<disk, sync, notice, cur, dest, ctodo, cconf, cread, replicator, faults>>

\* SaveDocumentIndexEntry without a flag: the index is chosen by the current
\* workspace mapping, and the other index is left alone.
Reindex(d) ==
  /\ pc = "reindex" /\ d \in todo
  /\ index' = [index EXCEPT ![GetCollectionForWorkspace(d)] = @ \cup {d}]
  /\ indexDocs' = indexDocs \cup {GetCollectionForWorkspace(d)}
  /\ todo' = todo \ {d}
  /\ UNCHANGED <<docs, conflicts, conflictIndex, sync, notice>>
  /\ UNCHANGED <<pc, cur, dest, ctodo, cconf, cread, replicator, faults>>

FinishScan ==
  /\ pc = "reindex" /\ todo = {}
  /\ pc' = "idle"
  /\ UNCHANGED <<disk, sync, notice, cur, dest, todo, ctodo, cconf, cread, replicator, faults>>

-----------------------------------------------------------------------------
(* ApplySyncBootstrap: take over the channels, promote the local documents  *)
(* of the mapped workspaces one by one, reset the replicator if anything    *)
(* changed.  Only the channels of a bootstrap vary here.                    *)

ApplySyncBootstrap(ws) ==
  /\ pc = "idle"
  /\ mapped' = ws
  /\ changed' = (ws # mapped)
  /\ todo' = {d \in docs["local"] : WorkspaceOf[d] \in ws}
  /\ pc' = "promote"
  /\ dest' = "local"
  /\ UNCHANGED <<disk, channels, notice, cur, ctodo, cconf, cread, replicator, faults>>

\* The copy in the synced collection; dest = "synced" records that a document
\* was migrated.
PromoteWrite(d) ==
  /\ pc = "promote" /\ cur = NoDoc /\ d \in todo
  /\ docs' = [docs EXCEPT !["synced"] = @ \cup {d}]
  /\ events' = events \cup {"collection"}
  /\ cur' = d /\ todo' = todo \ {d} /\ dest' = "synced"
  /\ UNCHANGED <<index, indexDocs, conflicts, conflictIndex, sync, dirty>>
  /\ UNCHANGED <<pc, ctodo, cconf, cread, replicator, faults>>

PromoteDropLocal ==
  /\ pc = "promote" /\ cur # NoDoc
  /\ docs' = [docs EXCEPT !["local"] = @ \ {cur}]
  /\ events' = events \cup {"collection"}
  /\ cur' = NoDoc
  /\ UNCHANGED <<index, indexDocs, conflicts, conflictIndex, sync, dirty>>
  /\ UNCHANGED <<pc, dest, todo, ctodo, cconf, cread, replicator, faults>>

FinishPromotion ==
  /\ pc = "promote" /\ cur = NoDoc /\ todo = {}
  /\ dirty' = (dirty \/ dest = "synced")
  /\ channels' = IF changed THEN {} ELSE channels
  /\ pc' = "idle" /\ changed' = FALSE
  /\ UNCHANGED <<disk, mapped, events, cur, dest, todo, ctodo, cconf, cread>>
  /\ UNCHANGED <<replicator, faults>>

\* StartSync replaces the document listener of the previous replicator, and
\* with it a notification that replicator still had to deliver.
StartSync ==
  /\ pc = "idle" /\ channels = {}
  /\ channels' = mapped
  /\ \/ UNCHANGED <<events, faults>>
     \/ /\ "replication" \in events /\ faults < MaxFaults
        /\ events' = events \ {"replication"}
        /\ faults' = faults + 1
  /\ UNCHANGED <<disk, mapped, changed, dirty, gui, replicator>>

\* StopSync, and SetSyncAccessToken with a new token.
ResetReplicator ==
  /\ pc = "idle" /\ channels # {}
  /\ channels' = {}
  /\ UNCHANGED <<disk, mapped, changed, notice, gui, replicator, faults>>

-----------------------------------------------------------------------------
(* The replicator's threads.  The gateway serves the channels of the        *)
(* bootstrap only, so pages of other workspaces never arrive.               *)

Pullable(d) == WorkspaceOf[d] \in channels

\* A new revision, or a deletion, made elsewhere.
Pull(d) ==
  /\ Pullable(d)
  /\ \/ docs' = [docs EXCEPT !["synced"] = @ \cup {d}]
     \/ docs' = [docs EXCEPT !["synced"] = @ \ {d}]
  /\ events' = {"collection", "replication"}
  /\ UNCHANGED <<index, indexDocs, conflicts, conflictIndex, sync, dirty, gui, replicator, faults>>

\* The collection listeners, also told of the GUI thread's own writes, ignore
\* what they hear while a write guard is held.
CollectionChanged ==
  /\ "collection" \in events
  /\ dirty' = (dirty \/ ~Guarded)
  /\ events' = events \ {"collection"}
  /\ UNCHANGED <<disk, sync, gui, replicator, faults>>

\* Mutant: pulled documents are ignored like collection changes.
DocumentsPulled_Guarded ==
  /\ "replication" \in events
  /\ dirty' = (dirty \/ ~Guarded)
  /\ events' = events \ {"replication"}
  /\ UNCHANGED <<disk, sync, gui, replicator, faults>>

DocumentsPulled ==
  /\ "replication" \in events
  /\ dirty' = TRUE
  /\ events' = events \ {"replication"}
  /\ UNCHANGED <<disk, sync, gui, replicator, faults>>

\* The conflict resolver: a record under a fresh id, then its index entry.
ResolverSaveConflict(i) ==
  /\ rpc = "idle" /\ Pullable(PageOf[i])
  /\ conflicts[i] = "none" /\ i # cconf /\ i \notin conflictIndex \cup cread
  /\ conflicts' = [conflicts EXCEPT ![i] = "pending"]
  /\ rconf' = i /\ rread' = conflictIndex
  /\ rpc' = "conflict_write"
  /\ UNCHANGED <<docs, index, indexDocs, conflictIndex, sync, notice, gui, faults>>

\* The resolver returns the local document, or the remote one if the page was
\* deleted here; either way the synced collection holds the page afterwards.
\* A resolver whose replicator was stopped meanwhile may store its result
\* late (replicator_->stop() does not wait): that counts as a fault.
ResolverWriteIndex ==
  /\ rpc = "conflict_write"
  /\ conflictIndex' = IndexEdit(rconf, rread)
  /\ \/ /\ Pullable(PageOf[rconf]) \/ faults < MaxFaults
        /\ docs' = [docs EXCEPT !["synced"] = @ \cup {PageOf[rconf]}]
        /\ events' = {"collection", "replication"}
        /\ faults' = IF Pullable(PageOf[rconf]) THEN faults ELSE faults + 1
     \/ /\ ~Pullable(PageOf[rconf])
        /\ events' = events \cup {"collection"}
        /\ UNCHANGED <<docs, faults>>
  /\ rpc' = "idle" /\ rconf' = NoConflict /\ rread' = {}
  /\ UNCHANGED <<index, indexDocs, conflicts, sync, dirty, gui>>

-----------------------------------------------------------------------------
(* Faults.                                                                  *)

\* The process ends; the database keeps every write done so far.
Restart ==
  /\ faults < MaxFaults /\ faults' = faults + 1
  /\ mapped' = {} /\ channels' = {} /\ changed' = FALSE
  /\ dirty' = FALSE /\ events' = {}
  /\ pc' = "idle" /\ cur' = NoDoc /\ dest' = "local" /\ todo' = {} /\ ctodo' = {}
  /\ cconf' = NoConflict /\ cread' = {}
  /\ rpc' = "idle" /\ rconf' = NoConflict /\ rread' = {}
  /\ UNCHANGED disk

\* A Couchbase Lite error: the catch block returns it, nothing is undone.
StorageError ==
  /\ faults < MaxFaults /\ faults' = faults + 1
  /\ pc # "idle"
  /\ pc' = "idle" /\ cur' = NoDoc /\ todo' = {} /\ ctodo' = {} /\ changed' = FALSE
  /\ cconf' = NoConflict /\ cread' = {}
  /\ UNCHANGED <<disk, mapped, channels, notice, dest, replicator>>

\* SaveConflict fails inside the resolver: it only logs and returns as usual.
ResolverError ==
  /\ faults < MaxFaults /\ faults' = faults + 1
  /\ rpc = "conflict_write"
  /\ docs' = [docs EXCEPT !["synced"] = @ \cup {PageOf[rconf]}]
  /\ events' = {"collection", "replication"}
  /\ rpc' = "idle" /\ rconf' = NoConflict /\ rread' = {}
  /\ UNCHANGED <<index, indexDocs, conflicts, conflictIndex, sync, dirty, gui>>

-----------------------------------------------------------------------------
GuiStep ==
  \/ \E d \in Docs : SaveDocument(d) \/ DeleteDocument(d) \/ Reindex(d) \/ PromoteWrite(d)
  \/ SaveWrite \/ SaveDropLocal \/ SaveDocumentIndexEntry \/ DropOtherIndexEntry
  \/ \E i \in ConflictIds : DeleteConflict(i)
  \/ \E i \in ConflictIds, s \in {"resolved", "dismissed"} : UpdateConflictResolutionState(i, s)
  \/ WriteConflictIndex
  \/ DeleteSyncedCopy \/ DeleteLocalCopy \/ RemoveLocalIndexEntry \/ RemoveSyncedIndexEntry
  \/ ListDocuments \/ ScanCollections \/ FinishScan
  \/ \E ws \in SUBSET Workspaces : ApplySyncBootstrap(ws)
  \/ PromoteDropLocal \/ FinishPromotion \/ StartSync \/ ResetReplicator

ReplicatorStep ==
  \/ \E d \in Docs : Pull(d)
  \/ CollectionChanged \/ DocumentsPulled
  \/ \E i \in ConflictIds : ResolverSaveConflict(i)
  \/ ResolverWriteIndex

Next == GuiStep \/ ReplicatorStep \/ Restart \/ StorageError \/ ResolverError

Spec == Init /\ [][Next]_vars

-----------------------------------------------------------------------------
TypeOK ==
  /\ docs \in [Coll -> SUBSET Docs]
  /\ index \in [Coll -> SUBSET Docs]
  /\ indexDocs \in SUBSET Coll
  /\ conflicts \in [ConflictIds -> ConflictStates \cup {"none"}]
  /\ conflictIndex \in SUBSET ConflictIds
  /\ mapped \in SUBSET Workspaces
  /\ channels \in SUBSET Workspaces
  /\ changed \in BOOLEAN
  /\ dirty \in BOOLEAN
  /\ events \in SUBSET {"collection", "replication"}
  /\ pc \in {"idle", "save_write", "save_drop", "save_index", "save_unindex",
             "delete_conflicts", "conflict_write", "delete_local", "unindex_local",
             "unindex_synced", "scan", "reindex", "promote"}
  /\ cur \in Docs \cup {NoDoc}
  /\ dest \in Coll
  /\ todo \in SUBSET Docs
  /\ ctodo \in SUBSET ConflictIds
  /\ cconf \in ConflictIds \cup {NoConflict}
  /\ cread \in SUBSET ConflictIds
  /\ rpc \in {"idle", "conflict_write"}
  /\ rconf \in ConflictIds \cup {NoConflict}
  /\ rread \in SUBSET ConflictIds
  /\ faults \in Nat

\* What each program counter works on.
Working ==
  /\ pc \in {"save_write", "save_drop", "save_index", "save_unindex",
            "delete_conflicts", "delete_local", "unindex_local", "unindex_synced"}
       => cur \in Docs
  /\ pc \in {"idle", "scan", "reindex"} => cur = NoDoc
  /\ pc = "conflict_write" => cconf \in ConflictIds
  /\ rpc = "conflict_write" => rconf \in ConflictIds

\* No page is lost from ListDocuments: a stored page is named by an index, or
\* a scan is coming (dirty flag, pulled documents not notified yet, no index
\* document at all), or the GUI thread is about to index it.  What the dirty
\* flag, the two listeners and SaveDocumentIndexEntry are there for.
BeingIndexed(d) ==
  \/ cur = d /\ pc \in {"save_drop", "save_index"}
  \/ pc = "scan"
  \/ pc = "reindex" /\ d \in todo
Listed(d) ==
  \/ d \in index["synced"] \cup index["local"]
  \/ dirty \/ "replication" \in events \/ indexDocs = {}
  \/ BeingIndexed(d)
IndexComplete == faults = 0 => \A d \in Stored : Listed(d)

\* A page lives in one collection: two copies exist only while a promotion or
\* a save moves it.  LoadDocument and ListDocuments read the synced copy first,
\* so a local shadow would hide later edits (the comment in SaveDocument).
SingleHome ==
  faults = 0 =>
    \A d \in docs["synced"] \cap docs["local"] : cur = d /\ pc = "promote"

\* A stored page disappears from the database only because DeleteDocument asked
\* for it or a deletion was pulled, whatever fails and wherever the process
\* ends: a promotion and a save write the new copy before dropping the old one.
PageSurvives ==
  [][\A d \in Stored \ Stored' :
       \/ cur = d /\ pc \in {"delete_conflicts", "delete_local"}
       \/ Pullable(d)]_vars

-----------------------------------------------------------------------------
(* What the repository's tests and documents say and the code does not do.  *)

\* "primary repository should rebuild stale index after external collection
\* change" (cblite_repository_test.cc): the flag that asks for the rebuild is
\* only in memory, so a stored page can stay unlisted after a restart.
IndexCompleteAcrossRestart == \A d \in Stored : Listed(d)

\* "CppWiki must not silently discard either side of a conflict" (the conflict
\* contract): ListConflicts returns every conflict record once no thread is
\* in the middle of writing one.
ConflictsListed ==
  faults = 0 /\ pc = "idle" /\ rpc = "idle" =>
    \A i \in ConflictIds : conflicts[i] # "none" => i \in ListConflicts
=============================================================================
