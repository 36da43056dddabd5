------------------------------ MODULE FileStore ------------------------------
(***************************************************************************)
(* The file repository (src/src/storage/file_document_repository.cc): one  *)
(* file per record, written through a temporary file and a backup, and a   *)
(* sweep at the start that settles the writes a crash has cut off.         *)
(*                                                                         *)
(* The program may stop at any time and the file system may refuse any     *)
(* call, so every change of the disk is a step.  One thread calls the      *)
(* repository, one operation at a time; operations that only read          *)
(* (LoadDocument, ListDocuments, ...) are operators.  A file holds what a  *)
(* record says, or bytes that do not parse (Torn).  Ids are UUIDs in every *)
(* caller: no two share a file name.                                       *)
(***************************************************************************)
EXTENDS Naturals, FiniteSets, Sequences

CONSTANTS
  Files,       \* record files that may exist
  Dir,         \* file -> its directory
  PagesOf,     \* file -> the pages its record belongs to
  Needs,       \* file -> records its save looks up
  BlobOf,      \* metadata file of an attachment -> its bytes
  Contents,    \* what a record may say
  Absent,      \* no such file
  Torn,        \* a file cut short
  MaxErrors,   \* bound on failing file system calls
  MaxCrashes   \* bound on crashes

Pages == {f \in Files : Dir[f] = "pages"}
Swept == {"pages", "conflicts", "attachments", "property-definitions",
          "page-property-values", "relation-types", "page-relations"}
Unswept == {"revisions", "repository-artifacts", "agent-runs",
            "result-references", "context-packs"}

ASSUME FileStoreAssumption ==
  /\ Dir \in [Files -> Swept \cup Unswept \cup {"blobs"}]
  /\ PagesOf \in [Files -> SUBSET Pages] /\ Needs \in [Files -> SUBSET Files]
  /\ \A f \in Files : PagesOf[f] # {} =>
       Dir[f] \in {"page-property-values", "page-relations", "conflicts", "revisions"}
  /\ \A f \in Files : Dir[f] = "attachments" => BlobOf[f] \in Files /\ Dir[BlobOf[f]] = "blobs"
  /\ \A f, g \in Files : Dir[f] = "attachments" /\ Dir[g] = "attachments" =>
       (BlobOf[f] = BlobOf[g] => f = g)
  /\ Absent # Torn /\ Contents \cap {Absent, Torn} = {}
  /\ MaxErrors \in Nat /\ MaxCrashes \in Nat

VARIABLES
  disk,     \* file -> the target and its .tmp and .backup siblings
  task,     \* the operation that runs and where it is
  sweep,    \* targets the sweep has still to settle
  result,   \* how the last operation ended
  acked,    \* history: what the last successful save or delete left
  tried,    \* history: contents of later saves that did not succeed
  lost,     \* history: a temporary file lost its end at close, unnoticed
  errors, crashes

vars == <<disk, task, sweep, result, acked, tried, lost, errors, crashes>>

Triple == [main : Contents \cup {Absent, Torn}, tmp : Contents \cup {Absent, Torn},
           bak : Contents \cup {Absent, Torn}]
NoFile == [main |-> Absent, tmp |-> Absent, bak |-> Absent]
Rest == [op |-> "none"]

Write(f, v, stage) ==
  [op |-> "write", file |-> f, old |-> disk[f].main, value |-> v, stage |-> stage]
Removal(f, phase) == [op |-> "remove", file |-> f, phase |-> phase]

Init ==
  /\ disk = [f \in Files |-> NoFile]
  /\ task = Rest /\ sweep = {} /\ result = "ok"
  /\ acked = [f \in Files |-> Absent] /\ tried = [f \in Files |-> {}]
  /\ lost = FALSE /\ errors = 0 /\ crashes = 0

-----------------------------------------------------------------------------
(* Reading.                                                                 *)

Readable(f) == disk[f].main \notin {Absent, Torn}
In(d) == {f \in Files : Dir[f] = d}

\* A listing of a directory of knowledge records fails on one file that does
\* not parse; the listings of conflicts and revisions skip it.
Strict == {"property-definitions", "page-property-values", "relation-types",
           "page-relations", "agent-runs"}
Listable(d) == d \in Strict => \A f \in In(d) : disk[f].main # Torn

\* ListDocuments: a page that does not parse is listed as a placeholder.
ListDocuments == {p \in Pages : disk[p].main # Absent}

\* LoadAttachment: the bytes have the size the metadata say.
LoadAttachment(m) == Readable(m) /\ disk[BlobOf[m]].main = disk[m].main
ListAttachments == {m \in In("attachments") : LoadAttachment(m)}

-----------------------------------------------------------------------------
(* WriteFileAtomically, a file system call at a time.                       *)

Keep == UNCHANGED <<result, sweep, acked, tried, lost, crashes>>
Fails == errors < MaxErrors /\ errors' = errors + 1
Try(f, v) == tried' = [tried EXCEPT ![f] = @ \cup {v}]
Ack(f, v) ==
  /\ acked' = [acked EXCEPT ![f] = v]
  /\ tried' = [tried EXCEPT ![f] = {}]
Goto(stage) == task' = [task EXCEPT !.stage = stage]

\* SavePagePropertyValue and SavePageRelation: the definition or the type is
\* listed; nobody looks at the pages.  SaveResultReference: the run is.
ReferencesListed(f) == \A g \in Needs[f] : Readable(g) /\ Listable(Dir[g])

\* SaveAttachment: neither of the two files is there.
NotThere(m) == disk[m].main = Absent /\ disk[BlobOf[m]].main = Absent

\* Mutant: an attachment may be saved again.
Admitted_Again(f) == ReferencesListed(f)

\* What a save checks first.
Admitted(f) == IF Dir[f] = "attachments" THEN NotThere(f) ELSE ReferencesListed(f)

SaveRecord(f, v) ==
  /\ task = Rest /\ sweep = {} /\ Dir[f] # "blobs" /\ Admitted(f)
  /\ task' = Write(IF Dir[f] = "attachments" THEN BlobOf[f] ELSE f, v, "temp")
  /\ UNCHANGED <<disk, sweep, result, acked, tried, lost, errors, crashes>>

\* The temporary file.  A disk that is full shows at once, or only when the
\* stream is closed, which nobody looks at.
WriteTemp ==
  /\ task.op = "write" /\ task.stage = "temp"
  /\ LET f == task.file IN
     \/ /\ disk' = [disk EXCEPT ![f].tmp = task.value]
        /\ Goto("backup") /\ UNCHANGED <<lost, errors>>
     \/ /\ Fails /\ disk' = [disk EXCEPT ![f].tmp = Torn]
        /\ Goto("backup") /\ lost' = TRUE
     \/ /\ Fails /\ disk' \in {disk, [disk EXCEPT ![f].tmp = Absent]}
        /\ Goto("undo") /\ UNCHANGED lost
  /\ UNCHANGED <<sweep, result, acked, tried, crashes>>

Renamed(f) ==
  IF disk[f].main = Absent THEN disk
  ELSE [disk EXCEPT ![f].bak = disk[f].main, ![f].main = Absent]

RenameToBackup ==
  /\ task.op = "write" /\ task.stage = "backup"
  /\ \/ disk' = Renamed(task.file) /\ Goto("swap") /\ UNCHANGED errors
     \/ Fails /\ Goto("undo") /\ UNCHANGED disk
  /\ Keep

RenameTemp ==
  /\ task.op = "write" /\ task.stage = "swap"
  /\ LET f == task.file IN
     \/ /\ disk' = [disk EXCEPT ![f].main = disk[f].tmp, ![f].tmp = Absent]
        /\ Goto("clean") /\ UNCHANGED errors
     \/ Fails /\ Goto("undo") /\ UNCHANGED disk
  /\ Keep

\* The backup goes, and the file is written; after the bytes of an attachment
\* come its metadata.
RemoveBackup ==
  /\ task.op = "write" /\ task.stage = "clean"
  /\ LET f == task.file IN
     \/ /\ disk' = [disk EXCEPT ![f].bak = Absent]
        /\ IF Dir[f] = "blobs" THEN Goto("metadata") /\ UNCHANGED result
                              ELSE task' = Rest /\ result' = "ok"
        /\ Ack(f, task.value) /\ UNCHANGED errors
     \/ /\ disk[f].bak # Absent
        /\ Fails /\ Goto("undo") /\ UNCHANGED <<disk, result, acked, tried>>
  /\ UNCHANGED <<sweep, lost, crashes>>

WriteMetadata ==
  /\ task.op = "write" /\ task.stage = "metadata"
  /\ \E m \in In("attachments") : BlobOf[m] = task.file /\ task' = Write(m, task.value, "temp")
  /\ UNCHANGED <<disk, errors>> /\ Keep

\* Mutant: the backup is not given back.
RestoreFromBackup_Never(f) == disk

RestoreFromBackup(f) ==
  IF disk[f].bak = Absent THEN disk
  ELSE [disk EXCEPT ![f].main = disk[f].bak, ![f].bak = Absent]

\* What a save that has failed does to the disk: the backup comes back, except
\* for attachments, whose bytes go when their metadata cannot be written.
Undone(f) ==
  CASE Dir[f] = "attachments" -> [disk EXCEPT ![BlobOf[f]].main = Absent]
    [] Dir[f] = "blobs" -> disk
    [] OTHER -> RestoreFromBackup(f)

Undo ==
  /\ task.op = "write" /\ task.stage = "undo"
  /\ LET f == task.file IN
     /\ tried' = [tried EXCEPT ![f] = @ \cup {task.value}]
     /\ \/ disk' = Undone(f) /\ UNCHANGED errors
           /\ acked' = IF Dir[f] = "attachments" THEN [acked EXCEPT ![BlobOf[f]] = Absent] ELSE acked
        \/ Undone(f) # disk /\ Fails /\ UNCHANGED <<disk, acked>>
  /\ task' = Rest /\ result' = "error"
  /\ UNCHANGED <<sweep, lost, crashes>>

-----------------------------------------------------------------------------
(* Deleting.                                                                *)

\* The directories DeleteDocument goes through before it removes the page.
Phases == <<"page-property-values", "page-relations", "conflicts", "revisions">>
Last == Len(Phases) + 1

\* Mutant: the conflicts are left to themselves.
Owned_NoConflicts(p, d) == {f \in In(d) : p \in PagesOf[f] /\ Readable(f) /\ d # "conflicts"}

\* What the listing of a directory finds of a page.
Owned(p, d) == {f \in In(d) : p \in PagesOf[f] /\ Readable(f)}

\* Mutant: the bytes of an attachment are deleted like a record.
Deletable_All(f) == TRUE
Deletable(f) == Dir[f] \notin {"attachments", "blobs"}

\* DeleteDocument of a page that is not there leaves knowledge records alone; of
\* one that does not parse, it fails.  Other records are one file.
StartDelete(f) ==
  /\ task = Rest /\ sweep = {} /\ Deletable(f)
  /\ IF f \notin Pages THEN task' = Removal(f, Last) /\ UNCHANGED result
     ELSE IF disk[f].main = Torn THEN result' = "refused" /\ UNCHANGED task
     ELSE task' = Removal(f, IF disk[f].main = Absent THEN 3 ELSE 1) /\ UNCHANGED result
  /\ UNCHANGED <<disk, sweep, acked, tried, lost, errors, crashes>>

RemoveFile(f) ==
  \/ /\ disk' = [disk EXCEPT ![f].main = Absent]
     /\ Ack(f, Absent) /\ UNCHANGED errors
  \/ Fails /\ disk[f].main # Absent /\ UNCHANGED <<disk, acked, tried>>

\* A step of DeleteDocument: one record of the directory it is at, or on to the
\* next directory; any error ends it where it is.
DeleteRecords ==
  /\ task.op = "remove" /\ task.phase # Last
  /\ LET d == Phases[task.phase] IN
     \/ /\ ~Listable(d)
        /\ task' = Rest /\ result' = "error"
        /\ UNCHANGED <<disk, acked, tried, errors>>
     \/ /\ Listable(d) /\ Owned(task.file, d) = {}
        /\ task' = [task EXCEPT !.phase = @ + 1]
        /\ UNCHANGED <<disk, result, acked, tried, errors>>
     \/ /\ Listable(d)
        /\ \E f \in Owned(task.file, d) : RemoveFile(f)
        /\ IF errors' = errors THEN UNCHANGED <<task, result>>
                             ELSE task' = Rest /\ result' = "error"
  /\ UNCHANGED <<sweep, lost, crashes>>

DeleteLast ==
  /\ task.op = "remove" /\ task.phase = Last
  /\ RemoveFile(task.file)
  /\ task' = Rest /\ result' = IF errors' = errors THEN "ok" ELSE "error"
  /\ UNCHANGED <<sweep, lost, crashes>>

-----------------------------------------------------------------------------
(* Crash and restart.                                                       *)

\* Mutant: the temporary file is taken for the newer one whenever there is one.
Reconciled_TempFirst(t) ==
  [NoFile EXCEPT !.main = IF t.tmp # Absent THEN t.tmp
                          ELSE IF t.main # Absent THEN t.main ELSE t.bak]

\* ReconcileInterruptedWrite: what is there tells how far the write had come.
Reconciled(t) ==
  [NoFile EXCEPT !.main = IF t.main # Absent THEN t.main
                          ELSE IF t.tmp # Absent THEN t.tmp ELSE t.bak]

SweptFiles == {f \in Files : Dir[f] \in Swept \cup {"blobs"}}
Unsettled(d) == {f \in SweptFiles : d[f].tmp # Absent \/ d[f].bak # Absent}

\* The program dies; a temporary file that is being written may be cut short.
Crash ==
  /\ crashes < MaxCrashes /\ crashes' = crashes + 1
  /\ LET first == task.op = "write" /\ task.stage = "temp"
         cut == first /\ disk'[task.file].tmp = Torn /\ disk[task.file].main = Absent
     IN
     /\ \/ UNCHANGED disk
        \/ first /\ disk' = [disk EXCEPT ![task.file].tmp = Torn]
     /\ tried' = IF task.op = "write"
                 THEN [tried EXCEPT ![task.file] =
                         @ \cup {task.value} \cup (IF cut THEN {Torn} ELSE {})]
                 ELSE tried
  /\ task' = Rest /\ result' = "crash"
  /\ sweep' = Unsettled(disk')
  /\ UNCHANGED <<acked, lost, errors>>

\* SweepInterruptedWrites in the constructor, a target at a time; an error is
\* logged and leaves the target as it is.
Sweep ==
  /\ \E f \in sweep :
       /\ sweep' = sweep \ {f}
       /\ \/ disk' = [disk EXCEPT ![f] = Reconciled(@)] /\ UNCHANGED errors
          \/ Fails /\ UNCHANGED disk
  /\ UNCHANGED <<task, result, acked, tried, lost, crashes>>

Next ==
  \/ \E f \in Files, v \in Contents : SaveRecord(f, v)
  \/ WriteTemp \/ RenameToBackup \/ RenameTemp \/ RemoveBackup \/ WriteMetadata \/ Undo
  \/ \E f \in Files : StartDelete(f)
  \/ DeleteRecords \/ DeleteLast
  \/ Crash \/ Sweep
Spec == Init /\ [][Next]_vars

-----------------------------------------------------------------------------
(* What must hold.                                                          *)

Tasks ==
  {Rest} \cup [op : {"write"}, file : Files, old : Contents \cup {Absent, Torn}, value : Contents,
               stage : {"temp", "backup", "swap", "clean", "metadata", "undo"}]
         \cup [op : {"remove"}, file : {f \in Files : Dir[f] \notin {"attachments", "blobs"}},
               phase : 1..Last]

\* Types.
TypeOK ==
  /\ disk \in [Files -> Triple] /\ task \in Tasks /\ sweep \subseteq SweptFiles
  /\ result \in {"ok", "error", "refused", "crash"}
  /\ acked \in [Files -> Contents \cup {Absent}]
  /\ tried \in [Files -> SUBSET (Contents \cup {Torn})]
  /\ lost \in BOOLEAN /\ errors \in 0..MaxErrors /\ crashes \in 0..MaxCrashes

Settled == task = Rest /\ sweep = {}

\* However often the program dies, a record of a swept directory reads as the
\* last save or delete that succeeded left it, or as a later save that was cut
\* off (WriteFileAtomically, ReconcileInterruptedWrite); and one call of the file
\* system that fails, and is noticed, changes no record (RestoreFromBackup).
SavedSurvives ==
  Settled =>
    /\ errors = 0 => \A f \in SweptFiles : disk[f].main \in {acked[f]} \cup tried[f]
    /\ errors <= 1 /\ crashes = 0 /\ ~lost => \A f \in Files : disk[f].main = acked[f]

\* Attachments listed by their metadata have their bytes, also after a crash
\* between the two files (SaveAttachment).
AttachmentIsComplete ==
  errors = 0 => \A m \in In("attachments") : Readable(m) => LoadAttachment(m)

\* The repository is a table of records whose saves happen at one moment.
Recovered(f) == Reconciled(disk[f]).main
R == INSTANCE Repository WITH
       Files <- SweptFiles,
       store <- [f \in SweptFiles |-> Recovered(f)],
       running <-
         IF task.op = "write" /\ task.file \in SweptFiles /\ task.stage # "metadata"
         THEN [op |-> "save", file |-> task.file, old |-> task.old, new |-> task.value]
         ELSE IF task.op = "remove" /\ task.file \in SweptFiles
         THEN [op |-> "remove", files |-> SweptFiles \cap
                 ({task.file} \cup {f \in Files : task.file \in PagesOf[f]})]
         ELSE [op |-> "none"]

\* As long as the file system works, every step is a step of the table
\* (FileDocumentRepository).
ImplementsRepository == R!RInit /\ [][errors' = 0 => [R!RNext]_(R!rvars)]_vars

\* "DeleteDocument still resolves it by id": a page that does not parse can be
\* deleted.
CorruptedCanBeDeleted == result # "refused"

\* "The temp file is guaranteed fully written": the sweep completes no write
\* with a file cut short.
RecoveredIsWhole ==
  [][Sweep => \A f \in Files : disk'[f].main = Torn => disk[f].main = Torn]_vars
=============================================================================
