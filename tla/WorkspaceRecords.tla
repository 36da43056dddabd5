--------------------------- MODULE WorkspaceRecords ---------------------------
(***************************************************************************)
(* What a workspace holds beside its tree: the knowledge records of its     *)
(* pages (Knowledge), the packages of pages its agents are given            *)
(* (ContextPacks) and its backup (WorkspaceArchive).  They touch different  *)
(* records of the repository or, in the case of the backup, the same ones   *)
(* at a coarser grain, so the three are followed one at a time: one goes on *)
(* while the others are as they began.                                      *)
(***************************************************************************)
EXTENDS WorkspaceArchive, Knowledge, ContextPacks

recordsVars == <<vars, knowledgeVars, packVars>>

NoArchiving == edits = 0 /\ faults = 0 /\ archive = NoArchive /\ restored = "none"
KnowledgeIdle == changes = 0
PacksIdle == PacksInit

RecordsInit == Init /\ KnowledgeInit /\ PacksInit

RecordsNext ==
  \/ KnowledgeIdle /\ PacksIdle /\ Next /\ UNCHANGED <<knowledgeVars, packVars>>
  \/ NoArchiving /\ PacksIdle /\ KnowledgeNext /\ UNCHANGED <<vars, packVars>>
  \/ NoArchiving /\ KnowledgeIdle /\ PacksNext /\ UNCHANGED <<vars, knowledgeVars>>
RecordsSpec == RecordsInit /\ [][RecordsNext]_recordsVars
=============================================================================
