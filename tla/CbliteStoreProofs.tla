-------------------------- MODULE CbliteStoreProofs --------------------------
(***************************************************************************)
(* Proofs about CbliteStore: types, the single home of a page and the      *)
(* completeness of the document indexes, for every set of pages,           *)
(* workspaces and conflict ids.                                            *)
(***************************************************************************)
EXTENDS CbliteStore, TLAPS

-----------------------------------------------------------------------------
\* Every step of the program keeps the type of every variable, and a program
\* counter inside an operation still has the page or record it works on.
LEMMA TypeStep == TypeOK /\ Working /\ [Next]_vars => TypeOK' /\ Working'
<1> SUFFICES ASSUME TypeOK, Working, [Next]_vars PROVE TypeOK' /\ Working'
  OBVIOUS
<1> USE CbliteStoreAssumption
<1> USE DEF TypeOK, Working, Coll, ConflictStates, disk, sync, notice, gui, replicator
<1>1. CASE UNCHANGED vars
  BY <1>1 DEF vars
<1>2. ASSUME NEW d \in Docs, SaveDocument(d) PROVE TypeOK' /\ Working'
  BY <1>2 DEF SaveDocument
<1>3. ASSUME NEW d \in Docs, DeleteDocument(d) PROVE TypeOK' /\ Working'
  BY <1>3 DEF DeleteDocument, ListConflicts
<1>4. ASSUME NEW d \in Docs, Reindex(d) PROVE TypeOK' /\ Working'
  BY <1>4 DEF Reindex, GetCollectionForWorkspace, Backed
<1>5. ASSUME NEW d \in Docs, PromoteWrite(d) PROVE TypeOK' /\ Working'
  BY <1>5 DEF PromoteWrite
<1>6. CASE SaveWrite
  BY <1>6 DEF SaveWrite
<1>7. CASE SaveDropLocal
  BY <1>7 DEF SaveDropLocal
<1>8. CASE SaveDocumentIndexEntry
  BY <1>8 DEF SaveDocumentIndexEntry
<1>9. CASE DropOtherIndexEntry
  BY <1>9 DEF DropOtherIndexEntry, Other
<1>10. ASSUME NEW i \in ConflictIds, DeleteConflict(i) PROVE TypeOK' /\ Working'
  BY <1>10 DEF DeleteConflict
<1>11. ASSUME NEW i \in ConflictIds, NEW s \in {"resolved", "dismissed"}, UpdateConflictResolutionState(i, s) PROVE TypeOK' /\ Working'
  BY <1>11 DEF UpdateConflictResolutionState
<1>12. CASE WriteConflictIndex
  BY <1>12 DEF WriteConflictIndex, IndexEdit
<1>13. CASE DeleteSyncedCopy
  BY <1>13 DEF DeleteSyncedCopy
<1>14. CASE DeleteLocalCopy
  BY <1>14 DEF DeleteLocalCopy
<1>15. CASE RemoveLocalIndexEntry
  BY <1>15 DEF RemoveLocalIndexEntry
<1>16. CASE RemoveSyncedIndexEntry
  BY <1>16 DEF RemoveSyncedIndexEntry
<1>17. CASE ListDocuments
  BY <1>17 DEF ListDocuments
<1>18. CASE ScanCollections
  BY <1>18 DEF ScanCollections, Stored
<1>19. CASE FinishScan
  BY <1>19 DEF FinishScan
<1>20. ASSUME NEW ws \in SUBSET Workspaces, ApplySyncBootstrap(ws) PROVE TypeOK' /\ Working'
  BY <1>20 DEF ApplySyncBootstrap
<1>21. CASE PromoteDropLocal
  BY <1>21 DEF PromoteDropLocal
<1>22. CASE FinishPromotion
  BY <1>22 DEF FinishPromotion
<1>23. CASE StartSync
  <2>1. faults' \in Nat
    BY <1>23 DEF StartSync
  <2> QED
    BY <1>23, <2>1 DEF StartSync
<1>24. CASE ResetReplicator
  BY <1>24 DEF ResetReplicator
<1>25. ASSUME NEW d \in Docs, Pull(d) PROVE TypeOK' /\ Working'
  BY <1>25 DEF Pull, Pullable
<1>26. CASE CollectionChanged
  BY <1>26 DEF CollectionChanged
<1>27. CASE DocumentsPulled
  BY <1>27 DEF DocumentsPulled
<1>28. ASSUME NEW i \in ConflictIds, ResolverSaveConflict(i) PROVE TypeOK' /\ Working'
  BY <1>28 DEF ResolverSaveConflict
<1>29. CASE ResolverWriteIndex
  <2>1. faults' \in Nat
    BY <1>29 DEF ResolverWriteIndex, IndexEdit, Pullable
  <2>2. conflictIndex' \in SUBSET ConflictIds
    BY <1>29 DEF ResolverWriteIndex, IndexEdit
  <2>3. docs' \in [Coll -> SUBSET Docs]
    <3>1. PageOf[rconf] \in Docs
      BY <1>29 DEF ResolverWriteIndex
    <3>2. [docs EXCEPT !["synced"] = @ \cup {PageOf[rconf]}] \in [Coll -> SUBSET Docs]
      BY <3>1
    <3> QED
      BY <1>29, <3>2 DEF ResolverWriteIndex
  <2>4. events' \in SUBSET {"collection", "replication"}
    BY <1>29 DEF ResolverWriteIndex
  <2>5. UNCHANGED <<index, indexDocs, conflicts, sync, dirty, gui>>
    BY <1>29 DEF ResolverWriteIndex
  <2>6. rpc' = "idle" /\ rconf' = NoConflict /\ rread' = {}
    BY <1>29 DEF ResolverWriteIndex
  <2> QED
    BY <2>1, <2>2, <2>3, <2>4, <2>5, <2>6
<1>30. CASE Restart
  <2>1. faults' \in Nat
    BY <1>30 DEF Restart
  <2> QED
    BY <1>30, <2>1 DEF Restart
<1>31. CASE StorageError
  <2>1. faults' \in Nat
    BY <1>31 DEF StorageError
  <2> QED
    BY <1>31, <2>1 DEF StorageError
<1>32. CASE ResolverError
  BY <1>32 DEF ResolverError
<1> QED
  BY <1>1, <1>2, <1>3, <1>4, <1>5, <1>6, <1>7, <1>8, <1>9, <1>10, <1>11, <1>12, <1>13, <1>14, <1>15, <1>16, <1>17, <1>18, <1>19, <1>20, <1>21, <1>22, <1>23, <1>24, <1>25, <1>26, <1>27, <1>28, <1>29, <1>30, <1>31, <1>32 DEF Next, GuiStep, ReplicatorStep

-----------------------------------------------------------------------------
\* Why a page has one home while nothing fails: a local page is of a workspace
\* that is neither mapped nor pulled, and a save or a promotion that creates a
\* second copy is the one that removes the first.
HomeInv ==
  faults = 0 =>
    /\ \A d \in docs["local"] : ~Pullable(d)
    /\ \A d \in docs["local"] : Backed(d) => pc = "promote" /\ d \in todo \cup {cur}
    /\ pc # "promote" \/ ~changed => channels \subseteq mapped
    /\ pc = "promote" => todo \subseteq docs["local"] \ {cur}
    /\ pc = "save_write" /\ dest = "local" => ~Backed(cur) /\ cur \notin docs["synced"]
    /\ pc = "save_write" /\ dest = "synced" => cur \notin docs["local"]
    /\ \A d \in docs["synced"] \cap docs["local"] : cur = d /\ pc = "promote"

\* Every step that is not a fault keeps HomeInv.
LEMMA HomeStep == TypeOK /\ Working /\ HomeInv /\ [Next]_vars => HomeInv'
<1> SUFFICES ASSUME TypeOK, Working, HomeInv, [Next]_vars, faults' = 0 PROVE HomeInv'
  BY DEF HomeInv
<1> USE CbliteStoreAssumption
<1> USE DEF TypeOK, Working, HomeInv, Coll, Backed, Pullable, disk, sync, notice, gui, replicator
<1>1. CASE UNCHANGED vars
  BY <1>1 DEF vars
<1>2. ASSUME NEW d \in Docs, SaveDocument(d) PROVE HomeInv'
  BY <1>2 DEF SaveDocument
<1>3. ASSUME NEW d \in Docs, DeleteDocument(d) PROVE HomeInv'
  BY <1>3 DEF DeleteDocument, ListConflicts
<1>4. ASSUME NEW d \in Docs, Reindex(d) PROVE HomeInv'
  BY <1>4 DEF Reindex, GetCollectionForWorkspace, Backed
<1>5. ASSUME NEW d \in Docs, PromoteWrite(d) PROVE HomeInv'
  BY <1>5 DEF PromoteWrite
<1>6. CASE SaveWrite
  BY <1>6 DEF SaveWrite
<1>7. CASE SaveDropLocal
  BY <1>7 DEF SaveDropLocal
<1>8. CASE SaveDocumentIndexEntry
  BY <1>8 DEF SaveDocumentIndexEntry
<1>9. CASE DropOtherIndexEntry
  BY <1>9 DEF DropOtherIndexEntry, Other
<1>10. ASSUME NEW i \in ConflictIds, DeleteConflict(i) PROVE HomeInv'
  BY <1>10 DEF DeleteConflict
<1>11. ASSUME NEW i \in ConflictIds, NEW s \in {"resolved", "dismissed"}, UpdateConflictResolutionState(i, s) PROVE HomeInv'
  BY <1>11 DEF UpdateConflictResolutionState
<1>12. CASE WriteConflictIndex
  BY <1>12 DEF WriteConflictIndex, IndexEdit
<1>13. CASE DeleteSyncedCopy
  BY <1>13 DEF DeleteSyncedCopy
<1>14. CASE DeleteLocalCopy
  BY <1>14 DEF DeleteLocalCopy
<1>15. CASE RemoveLocalIndexEntry
  BY <1>15 DEF RemoveLocalIndexEntry
<1>16. CASE RemoveSyncedIndexEntry
  BY <1>16 DEF RemoveSyncedIndexEntry
<1>17. CASE ListDocuments
  BY <1>17 DEF ListDocuments
<1>18. CASE ScanCollections
  BY <1>18 DEF ScanCollections, Stored
<1>19. CASE FinishScan
  BY <1>19 DEF FinishScan
<1>20. ASSUME NEW ws \in SUBSET Workspaces, ApplySyncBootstrap(ws) PROVE HomeInv'
  BY <1>20 DEF ApplySyncBootstrap
<1>21. CASE PromoteDropLocal
  BY <1>21 DEF PromoteDropLocal
<1>22. CASE FinishPromotion
  BY <1>22 DEF FinishPromotion
<1>23. CASE StartSync
  BY <1>23 DEF StartSync
<1>24. CASE ResetReplicator
  BY <1>24 DEF ResetReplicator
<1>25. ASSUME NEW d \in Docs, Pull(d) PROVE HomeInv'
  BY <1>25 DEF Pull, Pullable
<1>26. CASE CollectionChanged
  BY <1>26 DEF CollectionChanged
<1>27. CASE DocumentsPulled
  BY <1>27 DEF DocumentsPulled
<1>28. ASSUME NEW i \in ConflictIds, ResolverSaveConflict(i) PROVE HomeInv'
  BY <1>28 DEF ResolverSaveConflict
<1>29. CASE ResolverWriteIndex
  BY <1>29 DEF ResolverWriteIndex, IndexEdit, Pullable
<1>30. CASE Restart
  BY <1>30 DEF Restart
<1>31. CASE StorageError
  BY <1>31 DEF StorageError
<1>32. CASE ResolverError
  BY <1>32 DEF ResolverError
<1> QED
  BY <1>1, <1>2, <1>3, <1>4, <1>5, <1>6, <1>7, <1>8, <1>9, <1>10, <1>11, <1>12, <1>13, <1>14, <1>15, <1>16, <1>17, <1>18, <1>19, <1>20, <1>21, <1>22, <1>23, <1>24, <1>25, <1>26, <1>27, <1>28, <1>29, <1>30, <1>31, <1>32 DEF Next, GuiStep, ReplicatorStep

-----------------------------------------------------------------------------
\* A stored page that no scan is going to find is named by an index.
Covered(d) ==
  \/ d \in index["synced"] \cup index["local"]
  \/ dirty \/ "replication" \in events
  \/ BeingIndexed(d)

\* Why the indexes stay complete while nothing fails: the entry a save adds is
\* not the one it removes, and a deleted page that is back was pulled again.
IndexInv ==
  faults = 0 =>
    /\ \A d \in Stored : Covered(d)
    /\ pc = "save_unindex" => cur \in index[dest]
    /\ pc = "delete_local" /\ cur \in docs["synced"] => dirty \/ "replication" \in events
    /\ pc \in {"unindex_local", "unindex_synced"} /\ cur \in Stored =>
         dirty \/ "replication" \in events

\* Every step that is not a fault keeps IndexInv.
LEMMA IndexStep == TypeOK /\ Working /\ HomeInv /\ IndexInv /\ [Next]_vars => IndexInv'
<1> SUFFICES ASSUME TypeOK, Working, HomeInv, IndexInv, [Next]_vars, faults' = 0 PROVE IndexInv'
  BY DEF IndexInv
<1> USE CbliteStoreAssumption
<1> USE DEF TypeOK, Working, IndexInv, Coll, Stored, Covered, BeingIndexed, disk, sync, notice, gui, replicator
<1>1. CASE UNCHANGED vars
  BY <1>1 DEF vars
<1>2. ASSUME NEW d \in Docs, SaveDocument(d) PROVE IndexInv'
  BY <1>2 DEF SaveDocument
<1>3. ASSUME NEW d \in Docs, DeleteDocument(d) PROVE IndexInv'
  BY <1>3 DEF DeleteDocument, ListConflicts
<1>4. ASSUME NEW d \in Docs, Reindex(d) PROVE IndexInv'
  BY <1>4 DEF Reindex, GetCollectionForWorkspace, Backed
<1>5. ASSUME NEW d \in Docs, PromoteWrite(d) PROVE IndexInv'
  BY <1>5 DEF PromoteWrite, HomeInv
<1>6. CASE SaveWrite
  BY <1>6 DEF SaveWrite
<1>7. CASE SaveDropLocal
  BY <1>7 DEF SaveDropLocal
<1>8. CASE SaveDocumentIndexEntry
  BY <1>8 DEF SaveDocumentIndexEntry
<1>9. CASE DropOtherIndexEntry
  BY <1>9 DEF DropOtherIndexEntry, Other
<1>10. ASSUME NEW i \in ConflictIds, DeleteConflict(i) PROVE IndexInv'
  BY <1>10 DEF DeleteConflict
<1>11. ASSUME NEW i \in ConflictIds, NEW s \in {"resolved", "dismissed"}, UpdateConflictResolutionState(i, s) PROVE IndexInv'
  BY <1>11 DEF UpdateConflictResolutionState
<1>12. CASE WriteConflictIndex
  BY <1>12 DEF WriteConflictIndex, IndexEdit
<1>13. CASE DeleteSyncedCopy
  BY <1>13 DEF DeleteSyncedCopy
<1>14. CASE DeleteLocalCopy
  BY <1>14 DEF DeleteLocalCopy
<1>15. CASE RemoveLocalIndexEntry
  BY <1>15 DEF RemoveLocalIndexEntry
<1>16. CASE RemoveSyncedIndexEntry
  BY <1>16 DEF RemoveSyncedIndexEntry
<1>17. CASE ListDocuments
  BY <1>17 DEF ListDocuments
<1>18. CASE ScanCollections
  BY <1>18 DEF ScanCollections
<1>19. CASE FinishScan
  BY <1>19 DEF FinishScan
<1>20. ASSUME NEW ws \in SUBSET Workspaces, ApplySyncBootstrap(ws) PROVE IndexInv'
  BY <1>20 DEF ApplySyncBootstrap
<1>21. CASE PromoteDropLocal
  BY <1>21 DEF PromoteDropLocal
<1>22. CASE FinishPromotion
  BY <1>22 DEF FinishPromotion
<1>23. CASE StartSync
  BY <1>23 DEF StartSync
<1>24. CASE ResetReplicator
  BY <1>24 DEF ResetReplicator
<1>25. ASSUME NEW d \in Docs, Pull(d) PROVE IndexInv'
  BY <1>25 DEF Pull, Pullable
<1>26. CASE CollectionChanged
  BY <1>26 DEF CollectionChanged
<1>27. CASE DocumentsPulled
  BY <1>27 DEF DocumentsPulled
<1>28. ASSUME NEW i \in ConflictIds, ResolverSaveConflict(i) PROVE IndexInv'
  BY <1>28 DEF ResolverSaveConflict
<1>29. CASE ResolverWriteIndex
  BY <1>29 DEF ResolverWriteIndex, IndexEdit, Pullable
<1>30. CASE Restart
  BY <1>30 DEF Restart
<1>31. CASE StorageError
  BY <1>31 DEF StorageError
<1>32. CASE ResolverError
  BY <1>32 DEF ResolverError
<1> QED
  BY <1>1, <1>2, <1>3, <1>4, <1>5, <1>6, <1>7, <1>8, <1>9, <1>10, <1>11, <1>12, <1>13, <1>14, <1>15, <1>16, <1>17, <1>18, <1>19, <1>20, <1>21, <1>22, <1>23, <1>24, <1>25, <1>26, <1>27, <1>28, <1>29, <1>30, <1>31, <1>32 DEF Next, GuiStep, ReplicatorStep

-----------------------------------------------------------------------------
\* Before the local copy of a page is dropped, the synced copy was written;
\* only the running replicator can have deleted it since.
MoveInv ==
  \/ pc = "save_drop" /\ dest = "synced"
  \/ pc = "promote" /\ cur # NoDoc
  => cur \in docs["synced"] \/ Pullable(cur)

\* Every step, a fault included, keeps MoveInv.
LEMMA MoveStep == TypeOK /\ Working /\ MoveInv /\ [Next]_vars => MoveInv'
<1> SUFFICES ASSUME TypeOK, Working, MoveInv, [Next]_vars PROVE MoveInv'
  OBVIOUS
<1> USE CbliteStoreAssumption
<1> USE DEF TypeOK, Working, MoveInv, Coll, Pullable, disk, sync, notice, gui, replicator
<1>1. CASE UNCHANGED vars
  BY <1>1 DEF vars
<1>2. ASSUME NEW d \in Docs, SaveDocument(d) PROVE MoveInv'
  BY <1>2 DEF SaveDocument
<1>3. ASSUME NEW d \in Docs, DeleteDocument(d) PROVE MoveInv'
  BY <1>3 DEF DeleteDocument, ListConflicts
<1>4. ASSUME NEW d \in Docs, Reindex(d) PROVE MoveInv'
  BY <1>4 DEF Reindex, GetCollectionForWorkspace, Backed
<1>5. ASSUME NEW d \in Docs, PromoteWrite(d) PROVE MoveInv'
  BY <1>5 DEF PromoteWrite
<1>6. CASE SaveWrite
  BY <1>6 DEF SaveWrite
<1>7. CASE SaveDropLocal
  BY <1>7 DEF SaveDropLocal
<1>8. CASE SaveDocumentIndexEntry
  BY <1>8 DEF SaveDocumentIndexEntry
<1>9. CASE DropOtherIndexEntry
  BY <1>9 DEF DropOtherIndexEntry, Other
<1>10. ASSUME NEW i \in ConflictIds, DeleteConflict(i) PROVE MoveInv'
  BY <1>10 DEF DeleteConflict
<1>11. ASSUME NEW i \in ConflictIds, NEW s \in {"resolved", "dismissed"}, UpdateConflictResolutionState(i, s) PROVE MoveInv'
  BY <1>11 DEF UpdateConflictResolutionState
<1>12. CASE WriteConflictIndex
  BY <1>12 DEF WriteConflictIndex, IndexEdit
<1>13. CASE DeleteSyncedCopy
  BY <1>13 DEF DeleteSyncedCopy
<1>14. CASE DeleteLocalCopy
  BY <1>14 DEF DeleteLocalCopy
<1>15. CASE RemoveLocalIndexEntry
  BY <1>15 DEF RemoveLocalIndexEntry
<1>16. CASE RemoveSyncedIndexEntry
  BY <1>16 DEF RemoveSyncedIndexEntry
<1>17. CASE ListDocuments
  BY <1>17 DEF ListDocuments
<1>18. CASE ScanCollections
  BY <1>18 DEF ScanCollections, Stored
<1>19. CASE FinishScan
  BY <1>19 DEF FinishScan
<1>20. ASSUME NEW ws \in SUBSET Workspaces, ApplySyncBootstrap(ws) PROVE MoveInv'
  BY <1>20 DEF ApplySyncBootstrap
<1>21. CASE PromoteDropLocal
  BY <1>21 DEF PromoteDropLocal
<1>22. CASE FinishPromotion
  BY <1>22 DEF FinishPromotion
<1>23. CASE StartSync
  BY <1>23 DEF StartSync
<1>24. CASE ResetReplicator
  BY <1>24 DEF ResetReplicator
<1>25. ASSUME NEW d \in Docs, Pull(d) PROVE MoveInv'
  BY <1>25 DEF Pull, Pullable
<1>26. CASE CollectionChanged
  BY <1>26 DEF CollectionChanged
<1>27. CASE DocumentsPulled
  BY <1>27 DEF DocumentsPulled
<1>28. ASSUME NEW i \in ConflictIds, ResolverSaveConflict(i) PROVE MoveInv'
  BY <1>28 DEF ResolverSaveConflict
<1>29. CASE ResolverWriteIndex
  BY <1>29 DEF ResolverWriteIndex, IndexEdit, Pullable
<1>30. CASE Restart
  BY <1>30 DEF Restart
<1>31. CASE StorageError
  BY <1>31 DEF StorageError
<1>32. CASE ResolverError
  BY <1>32 DEF ResolverError
<1> QED
  BY <1>1, <1>2, <1>3, <1>4, <1>5, <1>6, <1>7, <1>8, <1>9, <1>10, <1>11, <1>12, <1>13, <1>14, <1>15, <1>16, <1>17, <1>18, <1>19, <1>20, <1>21, <1>22, <1>23, <1>24, <1>25, <1>26, <1>27, <1>28, <1>29, <1>30, <1>31, <1>32 DEF Next, GuiStep, ReplicatorStep

\* A page that a step takes out of the database was deleted here or elsewhere.
Gone(d) == (cur = d /\ pc \in {"delete_conflicts", "delete_local"}) \/ Pullable(d)

\* What PageSurvives says of one step.
LEMMA SurvivalStep ==
  TypeOK /\ Working /\ MoveInv /\ [Next]_vars => \A d \in Stored \ Stored' : Gone(d)
<1> SUFFICES ASSUME TypeOK, Working, MoveInv, [Next]_vars PROVE \A d \in Stored \ Stored' : Gone(d)
  OBVIOUS
<1> USE CbliteStoreAssumption
<1> USE DEF TypeOK, Working, MoveInv, Coll, Pullable, Stored, Gone, disk, sync, notice, gui, replicator
<1>1. CASE UNCHANGED vars
  BY <1>1 DEF vars
<1>2. ASSUME NEW d \in Docs, SaveDocument(d) PROVE \A x \in Stored \ Stored' : Gone(x)
  BY <1>2 DEF SaveDocument
<1>3. ASSUME NEW d \in Docs, DeleteDocument(d) PROVE \A x \in Stored \ Stored' : Gone(x)
  BY <1>3 DEF DeleteDocument, ListConflicts
<1>4. ASSUME NEW d \in Docs, Reindex(d) PROVE \A x \in Stored \ Stored' : Gone(x)
  BY <1>4 DEF Reindex, GetCollectionForWorkspace, Backed
<1>5. ASSUME NEW d \in Docs, PromoteWrite(d) PROVE \A x \in Stored \ Stored' : Gone(x)
  BY <1>5 DEF PromoteWrite
<1>6. CASE SaveWrite
  BY <1>6 DEF SaveWrite
<1>7. CASE SaveDropLocal
  BY <1>7 DEF SaveDropLocal
<1>8. CASE SaveDocumentIndexEntry
  BY <1>8 DEF SaveDocumentIndexEntry
<1>9. CASE DropOtherIndexEntry
  BY <1>9 DEF DropOtherIndexEntry, Other
<1>10. ASSUME NEW i \in ConflictIds, DeleteConflict(i) PROVE \A x \in Stored \ Stored' : Gone(x)
  BY <1>10 DEF DeleteConflict
<1>11. ASSUME NEW i \in ConflictIds, NEW s \in {"resolved", "dismissed"}, UpdateConflictResolutionState(i, s) PROVE \A x \in Stored \ Stored' : Gone(x)
  BY <1>11 DEF UpdateConflictResolutionState
<1>12. CASE WriteConflictIndex
  BY <1>12 DEF WriteConflictIndex, IndexEdit
<1>13. CASE DeleteSyncedCopy
  BY <1>13 DEF DeleteSyncedCopy
<1>14. CASE DeleteLocalCopy
  BY <1>14 DEF DeleteLocalCopy
<1>15. CASE RemoveLocalIndexEntry
  BY <1>15 DEF RemoveLocalIndexEntry
<1>16. CASE RemoveSyncedIndexEntry
  BY <1>16 DEF RemoveSyncedIndexEntry
<1>17. CASE ListDocuments
  BY <1>17 DEF ListDocuments
<1>18. CASE ScanCollections
  BY <1>18 DEF ScanCollections, Stored
<1>19. CASE FinishScan
  BY <1>19 DEF FinishScan
<1>20. ASSUME NEW ws \in SUBSET Workspaces, ApplySyncBootstrap(ws) PROVE \A x \in Stored \ Stored' : Gone(x)
  BY <1>20 DEF ApplySyncBootstrap
<1>21. CASE PromoteDropLocal
  BY <1>21 DEF PromoteDropLocal
<1>22. CASE FinishPromotion
  BY <1>22 DEF FinishPromotion
<1>23. CASE StartSync
  BY <1>23 DEF StartSync
<1>24. CASE ResetReplicator
  BY <1>24 DEF ResetReplicator
<1>25. ASSUME NEW d \in Docs, Pull(d) PROVE \A x \in Stored \ Stored' : Gone(x)
  BY <1>25 DEF Pull, Pullable
<1>26. CASE CollectionChanged
  BY <1>26 DEF CollectionChanged
<1>27. CASE DocumentsPulled
  BY <1>27 DEF DocumentsPulled
<1>28. ASSUME NEW i \in ConflictIds, ResolverSaveConflict(i) PROVE \A x \in Stored \ Stored' : Gone(x)
  BY <1>28 DEF ResolverSaveConflict
<1>29. CASE ResolverWriteIndex
  BY <1>29 DEF ResolverWriteIndex, IndexEdit, Pullable
<1>30. CASE Restart
  BY <1>30 DEF Restart
<1>31. CASE StorageError
  BY <1>31 DEF StorageError
<1>32. CASE ResolverError
  BY <1>32 DEF ResolverError
<1> QED
  BY <1>1, <1>2, <1>3, <1>4, <1>5, <1>6, <1>7, <1>8, <1>9, <1>10, <1>11, <1>12, <1>13, <1>14, <1>15, <1>16, <1>17, <1>18, <1>19, <1>20, <1>21, <1>22, <1>23, <1>24, <1>25, <1>26, <1>27, <1>28, <1>29, <1>30, <1>31, <1>32 DEF Next, GuiStep, ReplicatorStep

-----------------------------------------------------------------------------
IInv == TypeOK /\ Working /\ HomeInv /\ IndexInv /\ MoveInv

\* The inductive invariant holds in every state of every run.
THEOREM InductiveInvariant == Spec => []IInv
<1>1. Init => IInv
  <2> SUFFICES ASSUME Init PROVE IInv
    OBVIOUS
  <2>1. TypeOK /\ Working
    BY CbliteStoreAssumption DEF Init, TypeOK, Working, Coll
  <2>2. HomeInv
    BY DEF Init, HomeInv, Coll
  <2>3. IndexInv
    BY DEF Init, IndexInv, Coll, Stored
  <2> QED
    BY <2>1, <2>2, <2>3 DEF Init, IInv, MoveInv
<1>2. IInv /\ [Next]_vars => IInv'
  BY TypeStep, HomeStep, IndexStep, MoveStep DEF IInv
<1> QED
  BY <1>1, <1>2, PTL DEF Spec

\* Types, for every instance.
THEOREM TypeCorrect == Spec => []TypeOK
<1>1. IInv => TypeOK
  BY DEF IInv
<1> QED
  BY <1>1, InductiveInvariant, PTL

\* No stored page is missing from ListDocuments unless the process was
\* restarted, a write failed or a notification was lost.
THEOREM IndexCorrect == Spec => []IndexComplete
<1>1. IInv => IndexComplete
  BY DEF IInv, IndexInv, IndexComplete, Covered, Listed
<1> QED
  BY <1>1, InductiveInvariant, PTL

\* A page never lives in both collections except while it is being promoted.
THEOREM SingleHomeCorrect == Spec => []SingleHome
<1>1. IInv => SingleHome
  BY DEF IInv, HomeInv, SingleHome
<1> QED
  BY <1>1, InductiveInvariant, PTL

\* Whatever fails, a stored page is gone only after DeleteDocument or a pulled
\* deletion: saves and promotions write the new copy before dropping the old.
THEOREM PagesSurvive == Spec => PageSurvives
<1>1. IInv /\ [Next]_vars =>
        [\A d \in Stored \ Stored' :
           \/ cur = d /\ pc \in {"delete_conflicts", "delete_local"}
           \/ Pullable(d)]_vars
  BY SurvivalStep DEF IInv, Gone
<1> QED
  BY <1>1, InductiveInvariant, PTL DEF Spec, PageSurvives
=============================================================================
