--------------------------- MODULE FileStoreProofs ---------------------------
(***************************************************************************)
(* The file repository keeps what was saved and is a Repository, for any   *)
(* records, contents and number of crashes.                                *)
(*                                                                         *)
(* As long as the file system works, the three names of a record (target,  *)
(* .tmp, .backup) tell how far its write has come: StageInv is that table, *)
(* and everything else follows from it.                                    *)
(***************************************************************************)
EXTENDS FileStore, TLAPS

Stages == {"temp", "backup", "swap", "clean", "metadata", "undo"}
Marks == Contents \cup {Absent, Torn}

LEMMA PhaseLemma ==
  /\ Last = 5
  /\ Phases[1] = "page-property-values" /\ Phases[2] = "page-relations"
  /\ Phases[3] = "conflicts" /\ Phases[4] = "revisions"
  BY DEF Last, Phases

LEMMA WriteTask ==
  ASSUME task \in Tasks, task.op = "write"
  PROVE  /\ task \in [op : {"write"}, file : Files, old : Marks, value : Contents, stage : Stages]
         /\ task.file \in Files /\ task.old \in Marks /\ task.value \in Contents
         /\ task.stage \in Stages
  BY DEF Tasks, Rest, Marks, Stages

LEMMA RemoveTask ==
  ASSUME task \in Tasks, task.op = "remove"
  PROVE  /\ task \in [op : {"remove"}, file : {f \in Files : Dir[f] \notin {"attachments", "blobs"}},
                      phase : 1 .. 5]
         /\ task.file \in Files /\ Dir[task.file] \notin {"attachments", "blobs"}
         /\ task.phase \in 1 .. 5
  BY PhaseLemma DEF Tasks, Rest

LEMMA GotoLemma ==
  ASSUME task \in Tasks, task.op = "write", NEW stage \in Stages, Goto(stage)
  PROVE  /\ task' \in Tasks /\ task'.op = "write" /\ task'.file = task.file
         /\ task'.old = task.old /\ task'.value = task.value /\ task'.stage = stage
<1>1. task' = [task EXCEPT !.stage = stage]
  BY DEF Goto
<1>2. task' \in [op : {"write"}, file : Files, old : Marks, value : Contents, stage : Stages]
  BY <1>1, WriteTask
<1> QED BY <1>1, <1>2, WriteTask DEF Tasks, Stages, Marks

LEMMA WriteLemma ==
  ASSUME TypeOK, NEW f \in Files, NEW v \in Contents
  PROVE  Write(f, v, "temp") \in Tasks
  BY DEF TypeOK, Triple, Write, Tasks

LEMMA RemovalLemma ==
  ASSUME NEW f \in Files, Deletable(f), NEW n \in 1 .. 5
  PROVE  Removal(f, n) \in Tasks
  BY PhaseLemma DEF Removal, Tasks, Deletable

LEMMA RestLemma == Rest \in Tasks /\ Rest.op = "none"
  BY DEF Rest, Tasks

LEMMA NameLemma ==
  ASSUME TypeOK, NEW f \in Files, NEW m \in Marks
  PROVE  /\ [disk EXCEPT ![f].main = m] \in [Files -> Triple]
         /\ [disk EXCEPT ![f].tmp = m] \in [Files -> Triple]
         /\ [disk EXCEPT ![f].bak = m] \in [Files -> Triple]
  BY DEF TypeOK, Triple, Marks

-----------------------------------------------------------------------------
(* Types.                                                                   *)

LEMMA TypeInit == Init => TypeOK
<1>1. NoFile \in Triple
  BY DEF NoFile, Triple
<1>2. 0 \in 0 .. MaxErrors /\ 0 \in 0 .. MaxCrashes
  BY FileStoreAssumption
<1> QED BY <1>1, <1>2, RestLemma DEF Init, TypeOK

LEMMA TypeWrite ==
  ASSUME TypeOK,
         WriteTemp \/ RenameToBackup \/ RenameTemp \/ RemoveBackup \/ WriteMetadata \/ Undo
  PROVE  TypeOK'
<1> DEFINE f == task.file
<1>1. task \in Tasks /\ task.op = "write"
  BY DEF TypeOK, WriteTemp, RenameToBackup, RenameTemp, RemoveBackup, WriteMetadata, Undo
<1>2. f \in Files /\ task.value \in Contents /\ Absent \in Marks /\ Torn \in Marks
  BY <1>1, WriteTask DEF Marks
<1>3. disk[f].main \in Marks /\ disk[f].tmp \in Marks /\ disk[f].bak \in Marks
  BY <1>2 DEF TypeOK, Triple, Marks
<1>4. errors' = errors \/ Fails => errors' \in 0 .. MaxErrors
  BY FileStoreAssumption DEF TypeOK, Fails
<1>5. CASE WriteTemp
  <2>1. \E stage \in Stages : Goto(stage)
    BY <1>5 DEF WriteTemp, Stages
  <2>2. task' \in Tasks
    BY <1>1, <2>1, GotoLemma
  <2>3. disk' \in [Files -> Triple]
    <3>1. \/ disk' = [disk EXCEPT ![f].tmp = task.value] \/ disk' = [disk EXCEPT ![f].tmp = Torn]
          \/ disk' = disk \/ disk' = [disk EXCEPT ![f].tmp = Absent]
      BY <1>5 DEF WriteTemp
    <3>2. /\ task.value \in Marks
          /\ [disk EXCEPT ![f].tmp = Torn] \in [Files -> Triple]
          /\ [disk EXCEPT ![f].tmp = Absent] \in [Files -> Triple]
      BY <1>2, NameLemma DEF Marks
    <3>3. [disk EXCEPT ![f].tmp = task.value] \in [Files -> Triple]
      BY <1>2, <3>2, NameLemma
    <3> QED BY <3>1, <3>2, <3>3 DEF TypeOK
  <2> QED BY <1>4, <1>5, <2>2, <2>3 DEF WriteTemp, TypeOK
<1>6. CASE RenameToBackup
  <2>1. \E stage \in Stages : Goto(stage)
    BY <1>6 DEF RenameToBackup, Stages
  <2>2. task' \in Tasks
    BY <1>1, <2>1, GotoLemma
  <2>3. disk' \in [Files -> Triple]
    BY <1>2, <1>3, <1>6 DEF RenameToBackup, Renamed, TypeOK, Triple, Marks
  <2> QED BY <1>4, <1>6, <2>2, <2>3 DEF RenameToBackup, Keep, TypeOK
<1>7. CASE RenameTemp
  <2>1. \E stage \in Stages : Goto(stage)
    BY <1>7 DEF RenameTemp, Stages
  <2>2. task' \in Tasks
    BY <1>1, <2>1, GotoLemma
  <2>3. disk' \in [Files -> Triple]
    BY <1>2, <1>3, <1>7 DEF RenameTemp, TypeOK, Triple, Marks
  <2> QED BY <1>4, <1>7, <2>2, <2>3 DEF RenameTemp, Keep, TypeOK
<1>8. CASE RemoveBackup
  <2>1. task' = Rest \/ \E stage \in Stages : Goto(stage)
    BY <1>8 DEF RemoveBackup, Stages
  <2>2. task' \in Tasks
    BY <1>1, <2>1, GotoLemma, RestLemma
  <2>3. disk' \in [Files -> Triple]
    <3>1. [disk EXCEPT ![f].bak = Absent] \in [Files -> Triple]
      BY <1>2, NameLemma
    <3> QED BY <1>8, <3>1 DEF RemoveBackup, TypeOK
  <2>4. /\ acked' \in [Files -> Contents \cup {Absent}]
        /\ tried' \in [Files -> SUBSET (Contents \cup {Torn})]
    BY <1>2, <1>8 DEF RemoveBackup, Ack, TypeOK
  <2>5. result' \in {"ok", "error", "refused", "crash"}
    BY <1>8 DEF RemoveBackup, TypeOK
  <2> QED BY <1>4, <1>8, <2>2, <2>3, <2>4, <2>5 DEF RemoveBackup, TypeOK
<1>9. CASE WriteMetadata
  <2>1. task' \in Tasks
    BY <1>2, <1>9, WriteLemma DEF WriteMetadata, In
  <2> QED BY <1>9, <2>1 DEF WriteMetadata, Keep, TypeOK
<1>10. CASE Undo
  <2>1. Undone(f) \in [Files -> Triple]
    <3>1. Dir[f] = "attachments" => BlobOf[f] \in Files
      BY <1>2, FileStoreAssumption
    <3> QED BY <1>2, <1>3, <3>1 DEF Undone, RestoreFromBackup, TypeOK, Triple, Marks
  <2>2. disk' \in [Files -> Triple]
    BY <1>10, <2>1 DEF Undo, TypeOK
  <2>3. /\ acked' \in [Files -> Contents \cup {Absent}]
        /\ tried' \in [Files -> SUBSET (Contents \cup {Torn})]
    BY <1>2, <1>10 DEF Undo, TypeOK
  <2> QED BY <1>4, <1>10, <2>2, <2>3, RestLemma DEF Undo, TypeOK
<1> QED BY <1>5, <1>6, <1>7, <1>8, <1>9, <1>10

LEMMA TypeRemove ==
  ASSUME TypeOK, (\E f \in Files : StartDelete(f)) \/ DeleteRecords \/ DeleteLast
  PROVE  TypeOK'
<1>1. errors' = errors \/ Fails => errors' \in 0 .. MaxErrors
  BY FileStoreAssumption DEF TypeOK, Fails
<1>2. ASSUME NEW f \in Files, RemoveFile(f)
      PROVE  /\ disk' \in [Files -> Triple] /\ errors' \in 0 .. MaxErrors
             /\ acked' \in [Files -> Contents \cup {Absent}]
             /\ tried' \in [Files -> SUBSET (Contents \cup {Torn})]
  <2>1. Absent \in Marks
    BY DEF Marks
  <2>2. [disk EXCEPT ![f].main = Absent] \in [Files -> Triple]
    BY <2>1, NameLemma
  <2> QED BY <1>1, <1>2, <2>2 DEF RemoveFile, Ack, TypeOK
<1>3. ASSUME NEW f \in Files, StartDelete(f) PROVE TypeOK'
  <2>1. \/ task' = task \/ \E n \in 1 .. 5 : task' = Removal(f, n)
    BY <1>3, PhaseLemma DEF StartDelete
  <2>2. task' \in Tasks
    BY <1>3, <2>1, RemovalLemma DEF StartDelete, TypeOK
  <2> QED BY <1>3, <2>2 DEF StartDelete, TypeOK
<1>4. CASE DeleteRecords
  <2>1. task \in Tasks /\ task.op = "remove"
    BY <1>4 DEF DeleteRecords, TypeOK
  <2>2. task' \in Tasks
    <3>1. \/ task' = Rest \/ task' = task
          \/ task.phase # Last /\ task' = [task EXCEPT !.phase = @ + 1]
      BY <1>4 DEF DeleteRecords
    <3>2. task.phase # Last => [task EXCEPT !.phase = @ + 1] \in
            [op : {"remove"}, file : {f \in Files : Dir[f] \notin {"attachments", "blobs"}},
             phase : 1 .. 5]
      BY <2>1, RemoveTask, PhaseLemma
    <3> QED BY <2>1, <3>1, <3>2, RestLemma, PhaseLemma DEF Tasks
  <2>3. /\ disk' \in [Files -> Triple] /\ errors' \in 0 .. MaxErrors
        /\ acked' \in [Files -> Contents \cup {Absent}]
        /\ tried' \in [Files -> SUBSET (Contents \cup {Torn})]
    <3>1. CASE \E f \in Owned(task.file, Phases[task.phase]) : RemoveFile(f)
      BY <1>2, <3>1 DEF Owned, In
    <3>2. CASE UNCHANGED <<disk, acked, tried, errors>>
      BY <3>2 DEF TypeOK
    <3> QED BY <1>4, <3>1, <3>2 DEF DeleteRecords
  <2>4. result' \in {"ok", "error", "refused", "crash"}
    BY <1>4 DEF DeleteRecords, TypeOK
  <2> QED BY <1>4, <2>2, <2>3, <2>4 DEF DeleteRecords, TypeOK
<1>5. CASE DeleteLast
  <2>1. task.file \in Files
    BY <1>5, RemoveTask DEF DeleteLast, TypeOK
  <2>2. result' \in {"ok", "error", "refused", "crash"}
    BY <1>5 DEF DeleteLast
  <2> QED BY <1>2, <1>5, <2>1, <2>2, RestLemma DEF DeleteLast, TypeOK
<1> QED BY <1>3, <1>4, <1>5

LEMMA TypeCrash ==
  ASSUME TypeOK, Crash
  PROVE  TypeOK'
<1>1. task.op = "write" => task.file \in Files /\ task.value \in Contents
  BY WriteTask DEF TypeOK
<1>2. disk' \in [Files -> Triple]
  <2>1. CASE UNCHANGED disk
    BY <2>1 DEF TypeOK
  <2>2. CASE task.op = "write" /\ disk' = [disk EXCEPT ![task.file].tmp = Torn]
    <3>1. Torn \in Marks
      BY DEF Marks
    <3> QED BY <1>1, <2>2, <3>1, NameLemma
  <2> QED BY <2>1, <2>2 DEF Crash
<1>3. tried' \in [Files -> SUBSET (Contents \cup {Torn})]
  BY <1>1 DEF Crash, TypeOK
<1>4. crashes' \in 0 .. MaxCrashes /\ sweep' \subseteq SweptFiles
  BY FileStoreAssumption DEF Crash, TypeOK, Unsettled
<1> QED BY <1>2, <1>3, <1>4, RestLemma DEF Crash, TypeOK

LEMMA TypeSweep ==
  ASSUME TypeOK, Sweep
  PROVE  TypeOK'
<1>1. PICK f \in sweep :
        /\ sweep' = sweep \ {f}
        /\ \/ disk' = [disk EXCEPT ![f] = Reconciled(@)] /\ UNCHANGED errors
           \/ Fails /\ UNCHANGED disk
  BY DEF Sweep
<1>2. f \in Files
  BY DEF TypeOK, SweptFiles
<1>3. Reconciled(disk[f]) \in Triple
  BY <1>2 DEF Reconciled, TypeOK, Triple, NoFile
<1> QED BY <1>1, <1>2, <1>3, FileStoreAssumption DEF Sweep, TypeOK, Fails

LEMMA TypeStep == TypeOK /\ [Next]_vars => TypeOK'
<1> SUFFICES ASSUME TypeOK, [Next]_vars PROVE TypeOK'
  OBVIOUS
<1>1. ASSUME NEW f \in Files, NEW v \in Contents, SaveRecord(f, v) PROVE TypeOK'
  <2>1. task' \in Tasks
    BY <1>1, WriteLemma, FileStoreAssumption DEF SaveRecord
  <2> QED BY <1>1, <2>1 DEF SaveRecord, TypeOK
<1>2. CASE UNCHANGED vars
  BY <1>2 DEF vars, TypeOK
<1> QED BY <1>1, <1>2, TypeWrite, TypeRemove, TypeCrash, TypeSweep DEF Next

-----------------------------------------------------------------------------
(* Where a write is, as the file system shows it.                           *)

Writing(f) == task.op = "write" /\ task.file = f
Names(m, t, b) == [main |-> m, tmp |-> t, bak |-> b]
Clean(f) == disk[f].tmp = Absent /\ disk[f].bak = Absent

LEMMA NamesLemma ==
  /\ \A m, t, b : Names(m, t, b).main = m /\ Names(m, t, b).tmp = t /\ Names(m, t, b).bak = b
  /\ \A d \in Triple : d = Names(d.main, d.tmp, d.bak)
  BY DEF Names, Triple

\* What the three names hold at each stage of a write.
Staged ==
  LET d == disk[task.file] IN
  \/ task.stage = "temp" /\ d = Names(task.old, Absent, Absent)
  \/ task.stage = "backup" /\ d = Names(task.old, task.value, Absent)
  \/ task.stage = "swap" /\ d = Names(Absent, task.value, task.old)
  \/ task.stage = "clean" /\ d = Names(task.value, Absent, task.old)
  \/ task.stage = "metadata" /\ d = Names(task.value, Absent, Absent)

StageInv ==
  /\ sweep # {} => task = Rest
  /\ errors = 0 =>
       /\ task.op = "write" /\ task.file \in SweptFiles => Staged
       /\ \A f \in SweptFiles : Clean(f) \/ f \in sweep \/ Writing(f)

LEMMA ErrorLemma == errors \in Nat /\ Fails => errors' # 0 /\ errors' # errors /\ errors' \in Nat
  BY DEF Fails

\* The write goes on: one record changes, to what the next stage wants.
LEMMA StageWrite ==
  ASSUME TypeOK, StageInv, WriteTemp \/ RenameToBackup \/ RenameTemp
  PROVE  StageInv'
<1> DEFINE f == task.file
<1>1. /\ task \in Tasks /\ task.op = "write" /\ errors \in Nat /\ sweep' = sweep
      /\ task # Rest /\ disk \in [Files -> Triple]
  BY RestLemma DEF TypeOK, WriteTemp, RenameToBackup, RenameTemp, Keep
<1>2. f \in Files /\ task.value \in Contents /\ task.old \in Marks
  BY <1>1, WriteTask
<1>3. \E stage \in Stages : Goto(stage)
  BY DEF WriteTemp, RenameToBackup, RenameTemp, Stages
<1>4. /\ task' \in Tasks /\ task'.op = "write" /\ task'.file = f
      /\ task'.old = task.old /\ task'.value = task.value
  BY <1>1, <1>3, GotoLemma
<1>5. ASSUME errors' = 0
      PROVE  /\ errors = 0
             /\ \A g \in SweptFiles \ {f} : disk'[g] = disk[g]
             /\ f \in SweptFiles => Staged'
  <2>1. CASE WriteTemp
    <3>1. disk' = [disk EXCEPT ![f].tmp = task.value] /\ Goto("backup") /\ errors = 0
      BY <1>1, <1>5, <2>1, ErrorLemma DEF WriteTemp
    <3>2. task'.stage = "backup"
      BY <1>1, <3>1, GotoLemma DEF Stages
    <3>3. f \in SweptFiles => disk[f] = Names(task.old, Absent, Absent)
      BY <1>1, <2>1, <3>1 DEF StageInv, Staged, WriteTemp
    <3>4. f \in SweptFiles => disk'[f] = Names(task.old, task.value, Absent)
      BY <1>1, <1>2, <3>1, <3>3 DEF Names
    <3> QED BY <1>1, <1>2, <1>4, <3>1, <3>2, <3>4 DEF Staged, SweptFiles
  <2>2. CASE RenameToBackup
    <3>1. disk' = Renamed(f) /\ Goto("swap") /\ errors = 0
      BY <1>1, <1>5, <2>2, ErrorLemma DEF RenameToBackup
    <3>2. task'.stage = "swap"
      BY <1>1, <3>1, GotoLemma DEF Stages
    <3>3. f \in SweptFiles => disk[f] = Names(task.old, task.value, Absent)
      BY <1>1, <2>2, <3>1 DEF StageInv, Staged, RenameToBackup
    <3>4. f \in SweptFiles => disk'[f] = Names(Absent, task.value, task.old)
      <4>1. CASE disk[f].main = Absent
        BY <3>1, <3>3, <4>1 DEF Names, Renamed
      <4>2. CASE disk[f].main # Absent
        <5>1. disk' = [disk EXCEPT ![f].bak = disk[f].main, ![f].main = Absent]
          BY <3>1, <4>2 DEF Renamed
        <5>2. /\ disk'[f] \in Triple /\ disk'[f].main = Absent
              /\ disk'[f].tmp = disk[f].tmp /\ disk'[f].bak = disk[f].main
          BY <1>1, <1>2, <5>1 DEF Triple
        <5> QED BY <3>3, <5>2, NamesLemma
      <4> QED BY <4>1, <4>2
    <3>5. \A g \in SweptFiles \ {f} : disk'[g] = disk[g]
      BY <1>1, <1>2, <3>1 DEF Renamed, SweptFiles
    <3> QED BY <1>4, <3>1, <3>2, <3>4, <3>5 DEF Staged
  <2>3. CASE RenameTemp
    <3>1. /\ disk' = [disk EXCEPT ![f].main = disk[f].tmp, ![f].tmp = Absent]
          /\ Goto("clean") /\ errors = 0
      BY <1>1, <1>5, <2>3, ErrorLemma DEF RenameTemp
    <3>2. task'.stage = "clean"
      BY <1>1, <3>1, GotoLemma DEF Stages
    <3>3. f \in SweptFiles => disk[f] = Names(Absent, task.value, task.old)
      BY <1>1, <2>3, <3>1 DEF StageInv, Staged, RenameTemp
    <3>4. f \in SweptFiles => disk'[f] = Names(task.value, Absent, task.old)
      <4>1. /\ disk'[f] \in Triple /\ disk'[f].main = disk[f].tmp
            /\ disk'[f].tmp = Absent /\ disk'[f].bak = disk[f].bak
        BY <1>1, <1>2, <3>1 DEF Triple
      <4> QED BY <3>3, <4>1, NamesLemma
    <3>5. \A g \in SweptFiles \ {f} : disk'[g] = disk[g]
      BY <1>1, <1>2, <3>1 DEF SweptFiles
    <3> QED BY <1>4, <3>1, <3>2, <3>4, <3>5 DEF Staged
  <2> QED BY <2>1, <2>2, <2>3
<1>6. sweep = {}
  BY <1>1 DEF StageInv
<1>7. errors' = 0 => \A g \in SweptFiles : Clean(g)' \/ Writing(g)'
  BY <1>1, <1>4, <1>5, <1>6 DEF StageInv, Clean, Writing
<1> QED BY <1>1, <1>4, <1>5, <1>6, <1>7 DEF StageInv

\* The write ends, or comes to the metadata.
LEMMA StageEnd ==
  ASSUME TypeOK, StageInv, RemoveBackup \/ WriteMetadata \/ Undo
  PROVE  StageInv'
<1> DEFINE f == task.file
<1>1. /\ task \in Tasks /\ task.op = "write" /\ errors \in Nat /\ sweep' = sweep
      /\ task # Rest /\ disk \in [Files -> Triple]
  BY RestLemma DEF TypeOK, RemoveBackup, WriteMetadata, Undo, Keep
<1>2. f \in Files /\ task.value \in Contents /\ task.old \in Marks
  BY <1>1, WriteTask
<1>3. sweep = {}
  BY <1>1 DEF StageInv
<1>4. CASE RemoveBackup
  <2>1. SUFFICES ASSUME errors' = 0
                 PROVE  /\ task'.op = "write" /\ task'.file \in SweptFiles => Staged'
                        /\ \A g \in SweptFiles : Clean(g)' \/ Writing(g)'
    BY <1>1, <1>3 DEF StageInv
  <2>2. /\ disk' = [disk EXCEPT ![f].bak = Absent] /\ errors = 0
        /\ task' = Rest \/ Goto("metadata")
    BY <1>1, <1>4, <2>1, ErrorLemma DEF RemoveBackup
  <2>3. f \in SweptFiles => disk'[f] = Names(task.value, Absent, Absent)
    <3>1. f \in SweptFiles => disk[f] = Names(task.value, Absent, task.old)
      BY <1>1, <1>4, <2>2 DEF StageInv, Staged, RemoveBackup
    <3> QED BY <1>1, <1>2, <2>2, <3>1 DEF Names
  <2>4. \A g \in SweptFiles \ {f} : disk'[g] = disk[g]
    BY <1>1, <2>2 DEF SweptFiles
  <2>5. \A g \in SweptFiles : Clean(g)'
    BY <1>1, <1>3, <2>2, <2>3, <2>4 DEF StageInv, Clean, Writing, Names
  <2>6. CASE task' = Rest
    BY <2>5, <2>6, RestLemma
  <2>7. CASE Goto("metadata")
    <3>1. task'.file = f /\ task'.stage = "metadata" /\ task'.value = task.value
      BY <1>1, <2>7, GotoLemma DEF Stages
    <3> QED BY <2>3, <2>5, <3>1 DEF Staged
  <2> QED BY <2>2, <2>6, <2>7
<1>5. CASE WriteMetadata
  <2>1. PICK m \in In("attachments") : BlobOf[m] = f /\ task' = Write(m, task.value, "temp")
    BY <1>5 DEF WriteMetadata
  <2>2. disk' = disk /\ errors' = errors
    BY <1>5 DEF WriteMetadata
  <2>3. m \in SweptFiles /\ m # f /\ f \in SweptFiles /\ m \in Files
    BY <1>2, <2>1, FileStoreAssumption DEF In, SweptFiles, Swept
  <2>4. /\ task'.op = "write" /\ task'.file = m /\ task'.old = disk[m].main
        /\ task'.stage = "temp" /\ task' # Rest
    BY <2>1, RestLemma DEF Write
  <2>5. errors = 0 => disk[f] = Names(task.value, Absent, Absent)
    BY <1>1, <1>5, <2>3 DEF StageInv, Staged, WriteMetadata
  <2>6. errors = 0 => \A g \in SweptFiles : Clean(g)
    BY <1>1, <1>3, <2>5 DEF StageInv, Clean, Writing, Names
  <2>7. errors = 0 => disk[m] = Names(disk[m].main, Absent, Absent)
    BY <1>1, <2>3, <2>6 DEF Names, Clean, Triple
  <2> QED BY <1>1, <1>3, <2>2, <2>4, <2>6, <2>7 DEF StageInv, Staged, Clean
<1>6. CASE Undo
  <2>1. f \in SweptFiles => errors # 0
    BY <1>1, <1>6 DEF StageInv, Staged, Undo
  <2>2. task' = Rest /\ (errors' = errors \/ Fails)
    BY <1>6 DEF Undo
  <2>3. ASSUME errors' = 0 PROVE \A g \in SweptFiles : Clean(g)'
    <3>1. errors = 0 /\ f \notin SweptFiles /\ disk' = Undone(f)
      BY <1>1, <1>6, <2>1, <2>2, <2>3, ErrorLemma DEF Undo
    <3>2. Dir[f] \notin {"attachments", "blobs"}
      BY <1>2, <3>1 DEF SweptFiles, Swept
    <3>3. \A g \in SweptFiles : disk'[g] = disk[g]
      BY <1>1, <1>2, <3>1, <3>2 DEF Undone, RestoreFromBackup, SweptFiles
    <3> QED BY <1>1, <1>3, <3>1, <3>3 DEF StageInv, Clean, Writing
  <2> QED BY <1>1, <1>3, <2>2, <2>3, RestLemma DEF StageInv
<1> QED BY <1>4, <1>5, <1>6

LEMMA StageRemove ==
  ASSUME TypeOK, StageInv, (\E f \in Files : StartDelete(f)) \/ DeleteRecords \/ DeleteLast
  PROVE  StageInv'
<1>1. /\ task \in Tasks /\ task.op # "write" /\ errors \in Nat /\ sweep' = sweep
      /\ disk \in [Files -> Triple]
  BY RestLemma DEF TypeOK, StartDelete, DeleteRecords, DeleteLast
<1>2. sweep = {}
  BY RestLemma DEF StageInv, StartDelete, DeleteRecords, DeleteLast
<1>3. task'.op # "write"
  <2>1. CASE \E f \in Files : StartDelete(f)
    BY <1>1, <2>1 DEF StartDelete, Removal
  <2>2. CASE DeleteRecords
    <3>1. task' = Rest \/ task' = task \/ task' = [task EXCEPT !.phase = @ + 1]
      BY <2>2 DEF DeleteRecords
    <3>2. [task EXCEPT !.phase = @ + 1].op = task.op
      BY <2>2, RemoveTask DEF DeleteRecords, TypeOK
    <3> QED BY <1>1, <3>1, <3>2, RestLemma
  <2>3. CASE DeleteLast
    BY <2>3, RestLemma DEF DeleteLast
  <2> QED BY <2>1, <2>2, <2>3
<1>4. ASSUME errors' = 0
      PROVE  errors = 0 /\ \A g \in Files : disk'[g].tmp = disk[g].tmp /\ disk'[g].bak = disk[g].bak
  <2>1. ASSUME NEW f \in Files, RemoveFile(f)
        PROVE  disk' = [disk EXCEPT ![f].main = Absent] /\ errors = 0
    BY <1>1, <1>4, <2>1, ErrorLemma DEF RemoveFile
  <2>2. \/ disk' = disk /\ errors' = errors
        \/ \E f \in Files : disk' = [disk EXCEPT ![f].main = Absent] /\ errors = 0
    <3>1. CASE \E f \in Files : StartDelete(f)
      BY <3>1 DEF StartDelete
    <3>2. CASE DeleteRecords
      BY <2>1, <3>2 DEF DeleteRecords, Owned, In
    <3>3. CASE DeleteLast
      <4>1. task.file \in Files
        BY <1>1, <3>3, RemoveTask DEF DeleteLast
      <4> QED BY <2>1, <3>3, <4>1 DEF DeleteLast
    <3> QED BY <3>1, <3>2, <3>3
  <2> QED BY <1>1, <1>4, <2>2 DEF Triple
<1>5. errors' = 0 => \A g \in SweptFiles : Clean(g)'
  BY <1>1, <1>2, <1>4 DEF StageInv, Clean, Writing, SweptFiles
<1> QED BY <1>1, <1>2, <1>3, <1>5 DEF StageInv

LEMMA StageOther ==
  ASSUME TypeOK, StageInv,
         (\E f \in Files, v \in Contents : SaveRecord(f, v)) \/ Crash \/ Sweep \/ UNCHANGED vars
  PROVE  StageInv'
<1>1. task \in Tasks /\ errors \in Nat /\ disk \in [Files -> Triple]
  BY DEF TypeOK
<1>2. ASSUME NEW f \in Files, NEW v \in Contents, SaveRecord(f, v) PROVE StageInv'
  <2>1. /\ sweep = {} /\ sweep' = sweep /\ task = Rest /\ disk' = disk /\ errors' = errors
    BY <1>2 DEF SaveRecord
  <2>2. PICK g \in Files : task' = Write(g, v, "temp")
    BY <1>2, FileStoreAssumption DEF SaveRecord
  <2>3. errors = 0 => \A h \in SweptFiles : Clean(h)
    BY <2>1, RestLemma DEF StageInv, Writing
  <2>4. /\ task'.file = g /\ task'.old = disk[g].main /\ task'.stage = "temp"
    BY <2>2 DEF Write
  <2>5. errors = 0 /\ g \in SweptFiles => disk[g] = Names(disk[g].main, Absent, Absent)
    BY <1>1, <2>3 DEF Clean, Names, Triple
  <2> QED BY <2>1, <2>3, <2>4, <2>5 DEF StageInv, Staged, Clean
<1>3. CASE Crash
  <2>1. task' = Rest /\ sweep' = Unsettled(disk') /\ errors' = errors
    BY <1>3 DEF Crash
  <2> QED BY <2>1, RestLemma DEF StageInv, Clean, Unsettled
<1>4. CASE Sweep
  <2>1. PICK f \in sweep :
          /\ sweep' = sweep \ {f}
          /\ \/ disk' = [disk EXCEPT ![f] = Reconciled(@)] /\ UNCHANGED errors
             \/ Fails /\ UNCHANGED disk
    BY <1>4 DEF Sweep
  <2>2. task = Rest /\ task' = Rest
    BY <1>4, <2>1 DEF StageInv, Sweep
  <2>3. f \in Files
    BY <2>1 DEF TypeOK, SweptFiles
  <2>4. ASSUME errors' = 0 PROVE \A g \in SweptFiles : Clean(g)' \/ g \in sweep'
    <3>1. errors = 0 /\ disk' = [disk EXCEPT ![f] = Reconciled(@)]
      BY <1>1, <2>1, <2>4, ErrorLemma
    <3>2. \A g \in SweptFiles : Clean(g) \/ g \in sweep
      BY <2>2, <3>1, RestLemma DEF StageInv, Writing
    <3>3. disk'[f].tmp = Absent /\ disk'[f].bak = Absent
      BY <1>1, <2>3, <3>1 DEF Reconciled, NoFile
    <3>4. \A g \in SweptFiles \ {f} : disk'[g] = disk[g]
      BY <1>1, <2>3, <3>1 DEF SweptFiles
    <3> QED BY <2>1, <3>2, <3>3, <3>4 DEF Clean
  <2> QED BY <2>2, <2>4, RestLemma DEF StageInv
<1>5. CASE UNCHANGED vars
  BY <1>5 DEF vars, StageInv, Staged, Clean, Writing
<1> QED BY <1>2, <1>3, <1>4, <1>5

LEMMA StageStep == TypeOK /\ StageInv /\ [Next]_vars => StageInv'
  BY StageWrite, StageEnd, StageRemove, StageOther DEF Next

-----------------------------------------------------------------------------
(* Deleting a page: the directories that have been gone through are empty.  *)

RemovalInv ==
  task.op = "remove" /\ task.file \in Pages /\ disk[task.file].main # Absent =>
    \A n \in 1 .. task.phase - 1 : Owned(task.file, Phases[n]) = {}

LEMMA RemovalStep == TypeOK /\ StageInv /\ RemovalInv /\ [Next]_vars => RemovalInv'
<1> SUFFICES ASSUME TypeOK, StageInv, RemovalInv, [Next]_vars PROVE RemovalInv'
  OBVIOUS
<1>1. task \in Tasks /\ disk \in [Files -> Triple]
  BY DEF TypeOK
<1>2. ASSUME task' = Rest \/ task'.op = "write" PROVE RemovalInv'
  BY <1>2, RestLemma DEF RemovalInv
<1>3. ASSUME NEW f \in Files, NEW v \in Contents, SaveRecord(f, v) PROVE RemovalInv'
  BY <1>2, <1>3 DEF SaveRecord, Write
<1>4. CASE WriteTemp \/ RenameToBackup \/ RenameTemp \/ RemoveBackup \/ WriteMetadata \/ Undo
  <2>1. task.op = "write"
    BY <1>4 DEF WriteTemp, RenameToBackup, RenameTemp, RemoveBackup, WriteMetadata, Undo
  <2>2. \/ task' = Rest \/ \E stage \in Stages : Goto(stage)
        \/ \E m \in Files : task' = Write(m, task.value, "temp")
    BY <1>4 DEF WriteTemp, RenameToBackup, RenameTemp, RemoveBackup, WriteMetadata, Undo, Stages, In
  <2>3. task' = Rest \/ task'.op = "write"
    BY <1>1, <2>1, <2>2, GotoLemma DEF Write
  <2> QED BY <1>2, <2>3
<1>5. ASSUME NEW f \in Files, StartDelete(f) PROVE RemovalInv'
  <2>1. disk' = disk
    BY <1>5 DEF StartDelete
  <2>2. CASE task' = Removal(f, 1)
    BY <2>2 DEF RemovalInv, Removal
  <2>3. CASE task' = Removal(f, 3) /\ disk[f].main = Absent
    BY <2>1, <2>3 DEF RemovalInv, Removal
  <2>4. CASE task' = Removal(f, Last) /\ f \notin Pages
    BY <2>4 DEF RemovalInv, Removal
  <2>5. CASE task' = task
    BY <1>5, <2>5, RestLemma DEF RemovalInv, StartDelete
  <2> QED BY <1>5, <2>2, <2>3, <2>4, <2>5 DEF StartDelete
<1>6. CASE DeleteRecords
  <2> DEFINE p == task.file
             d == Phases[task.phase]
  <2>1. task.op = "remove" /\ p \in Files /\ task.phase \in 1 .. 5 /\ task.phase # 5
    BY <1>1, <1>6, RemoveTask, PhaseLemma DEF DeleteRecords
  <2>2. CASE task' = Rest
    BY <1>2, <2>2
  <2>3. CASE Owned(p, d) = {} /\ task' = [task EXCEPT !.phase = @ + 1] /\ disk' = disk
    <3>1. task'.op = "remove" /\ task'.file = p /\ task'.phase = task.phase + 1
      BY <1>1, <2>1, <2>3, RemoveTask
    <3>2. \A n \in 1 .. task.phase : n = task.phase \/ n \in 1 .. task.phase - 1
      BY <2>1
    <3>3. \A n : Owned(p, Phases[n])' = Owned(p, Phases[n])
      BY <2>3 DEF Owned, In, Readable
    <3> QED BY <2>1, <2>3, <3>1, <3>2, <3>3 DEF RemovalInv
  <2>4. CASE task' = task /\ \E f \in Owned(p, d) : RemoveFile(f)
    <3>1. PICK f \in Owned(p, d) : RemoveFile(f)
      BY <2>4
    <3>2. f \in Files /\ p \in PagesOf[f]
      BY <3>1 DEF Owned, In
    <3>3. p \in Pages /\ f # p
      BY <3>2, FileStoreAssumption DEF Pages
    <3>4. disk' = disk \/ disk' = [disk EXCEPT ![f].main = Absent]
      BY <3>1 DEF RemoveFile
    <3>5. disk'[p] = disk[p] /\ \A g \in Files : Readable(g)' => Readable(g)
      BY <1>1, <2>1, <3>2, <3>3, <3>4 DEF Readable, Triple
    <3>6. \A n : Owned(p, Phases[n])' \subseteq Owned(p, Phases[n])
      BY <2>4, <3>5 DEF Owned, In
    <3> QED BY <2>4, <3>5, <3>6 DEF RemovalInv
  <2> QED BY <1>6, <2>2, <2>3, <2>4 DEF DeleteRecords
<1>7. CASE DeleteLast \/ Crash
  BY <1>2, <1>7 DEF DeleteLast, Crash
<1>8. CASE Sweep
  BY <1>2, <1>8 DEF Sweep, StageInv
<1>9. CASE UNCHANGED vars
  BY <1>9 DEF vars, RemovalInv, Owned, In, Readable
<1> QED BY <1>3, <1>4, <1>5, <1>6, <1>7, <1>8, <1>9 DEF Next

-----------------------------------------------------------------------------
(* A step of the files is a step of the table.                              *)

Store == [f \in SweptFiles |-> Recovered(f)]
Running ==
  IF task.op = "write" /\ task.file \in SweptFiles /\ task.stage # "metadata"
  THEN [op |-> "save", file |-> task.file, old |-> task.old, new |-> task.value]
  ELSE IF task.op = "remove" /\ task.file \in SweptFiles
  THEN [op |-> "remove", files |-> SweptFiles \cap
          ({task.file} \cup {f \in Files : task.file \in PagesOf[f]})]
  ELSE [op |-> "none"]

LEMMA RecoveredLemma ==
  ASSUME NEW f
  PROVE  Recovered(f) = IF disk[f].main # Absent THEN disk[f].main
                        ELSE IF disk[f].tmp # Absent THEN disk[f].tmp ELSE disk[f].bak
  BY DEF Recovered, Reconciled, NoFile

LEMMA SettledLemma ==
  ASSUME TypeOK, NEW f \in SweptFiles, Clean(f)
  PROVE  Recovered(f) = disk[f].main
  BY RecoveredLemma DEF Clean

LEMMA WriteRefines ==
  ASSUME TypeOK, StageInv, StageInv', errors' = 0, WriteTemp \/ RenameToBackup \/ RenameTemp
  PROVE  [R!RNext]_(R!rvars)
<1> DEFINE f == task.file
<1>1. /\ task \in Tasks /\ task.op = "write" /\ errors \in Nat /\ disk \in [Files -> Triple]
      /\ task.stage # "metadata"
  BY DEF TypeOK, WriteTemp, RenameToBackup, RenameTemp
<1>2. f \in Files /\ task.value \in Contents /\ task.old \in Marks
  BY <1>1, WriteTask
<1>3. PICK stage \in {"backup", "swap", "clean"} : Goto(stage)
  BY <1>1, ErrorLemma DEF WriteTemp, RenameToBackup, RenameTemp
<1>4. /\ task'.op = "write" /\ task'.file = f /\ task'.stage = stage
      /\ task'.old = task.old /\ task'.value = task.value
  BY <1>1, <1>3, GotoLemma DEF Stages
<1>5. Running' = Running
  BY <1>1, <1>3, <1>4 DEF Running
<1>6. \A g \in Files \ {f} : disk'[g] = disk[g]
  BY <1>1, ErrorLemma DEF WriteTemp, RenameToBackup, Renamed, RenameTemp
<1>7. CASE f \in SweptFiles
  <2>1. Recovered(f)' \in {task.old, task.value}
    <3>1. Staged'
      BY <1>4, <1>7 DEF StageInv
    <3>2. \/ disk'[f] = Names(task.old, task.value, Absent)
          \/ disk'[f] = Names(Absent, task.value, task.old)
          \/ disk'[f] = Names(task.value, Absent, task.old)
      BY <1>3, <1>4, <3>1 DEF Staged
    <3>3. task.value # Absent
      BY <1>2, FileStoreAssumption
    <3>4. Recovered(f)' = IF disk'[f].main # Absent THEN disk'[f].main
                          ELSE IF disk'[f].tmp # Absent THEN disk'[f].tmp ELSE disk'[f].bak
      BY <1>4 DEF Recovered, Reconciled, NoFile
    <3> QED BY <3>2, <3>3, <3>4, NamesLemma
  <2>2. Store' = [Store EXCEPT ![f] = Recovered(f)']
    BY <1>4, <1>6, <1>7 DEF Store, Recovered, SweptFiles
  <2>3. Running = [op |-> "save", file |-> f, old |-> task.old, new |-> task.value]
    BY <1>1, <1>7 DEF Running
  <2> HIDE DEF f
  <2> QED BY <1>5, <2>1, <2>2, <2>3 DEF R!RNext, R!Save, R!rvars, Store, Running
<1>8. CASE f \notin SweptFiles
  <2>1. Store' = Store
    BY <1>6, <1>8 DEF Store, Recovered, SweptFiles
  <2> QED BY <1>5, <2>1 DEF R!rvars, Store, Running
<1> QED BY <1>7, <1>8

LEMMA EndRefines ==
  ASSUME TypeOK, StageInv, errors' = 0, RemoveBackup \/ WriteMetadata \/ Undo
  PROVE  [R!RNext]_(R!rvars)
<1> DEFINE f == task.file
<1>1. task \in Tasks /\ task.op = "write" /\ errors \in Nat /\ disk \in [Files -> Triple]
  BY DEF TypeOK, RemoveBackup, WriteMetadata, Undo
<1>2. f \in Files /\ task.value \in Contents /\ task.old \in Marks /\ task.value # Absent
  BY <1>1, WriteTask, FileStoreAssumption
<1>3. CASE RemoveBackup
  <2>1. disk' = [disk EXCEPT ![f].bak = Absent] /\ errors = 0 /\ (task' = Rest \/ Goto("metadata"))
    BY <1>1, <1>3, ErrorLemma DEF RemoveBackup
  <2>2. \A g \in Files \ {f} : disk'[g] = disk[g]
    BY <1>1, <2>1
  <2>3. Running' = R!Idle
    <3>1. CASE task' = Rest
      BY <3>1, RestLemma DEF Running, R!Idle
    <3>2. CASE Goto("metadata")
      BY <1>1, <3>2, GotoLemma DEF Stages, Running, R!Idle
    <3> QED BY <2>1, <3>1, <3>2
  <2>4. CASE f \in SweptFiles
    <3>1. disk[f] = Names(task.value, Absent, task.old)
      BY <1>1, <1>3, <2>1, <2>4 DEF StageInv, Staged, RemoveBackup
    <3>2. disk'[f].main = task.value
      BY <1>1, <1>2, <2>1, <3>1, NamesLemma DEF Triple
    <3>3. Store' = [Store EXCEPT ![f] = task.value]
      BY <1>2, <2>2, <2>4, <3>2 DEF Store, Recovered, Reconciled, NoFile, SweptFiles
    <3>4. Running = [op |-> "save", file |-> f, old |-> task.old, new |-> task.value]
      BY <1>1, <1>3, <2>4 DEF Running, RemoveBackup
    <3> HIDE DEF f
    <3> QED BY <2>3, <3>3, <3>4 DEF R!RNext, R!Save, R!rvars, Store, Running
  <2>5. CASE f \notin SweptFiles
    <3>1. Store' = Store
      BY <2>2, <2>5 DEF Store, Recovered, SweptFiles
    <3>2. Running = R!Idle
      BY <1>1, <2>5 DEF Running, R!Idle
    <3> QED BY <2>3, <3>1, <3>2 DEF R!rvars, Store, Running
  <2> QED BY <2>4, <2>5
<1>4. CASE WriteMetadata
  <2>1. PICK m \in In("attachments") : BlobOf[m] = f /\ task' = Write(m, task.value, "temp")
    BY <1>4 DEF WriteMetadata
  <2>2. disk' = disk /\ errors = 0 /\ task.stage = "metadata"
    BY <1>4 DEF WriteMetadata
  <2>3. m \in SweptFiles /\ m # f /\ sweep = {}
    BY <1>1, <1>2, <2>1, RestLemma, FileStoreAssumption DEF In, SweptFiles, Swept, StageInv
  <2>4. Recovered(m) = disk[m].main
    BY <1>1, <2>2, <2>3, SettledLemma DEF StageInv, Writing
  <2>5. Running = R!Idle /\ Store' = Store
    BY <1>1, <2>2 DEF Running, R!Idle, Store, Recovered
  <2>6. Running' = R!Saving(m, Store[m], task.value)
    BY <2>1, <2>3, <2>4 DEF Write, Running, R!Saving, Store
  <2> QED BY <1>2, <2>3, <2>5, <2>6 DEF R!RNext, R!Begin, R!rvars, Store, Running
<1>5. CASE Undo
  <2>1. errors = 0
    BY <1>1, <1>5, ErrorLemma DEF Undo
  <2>2. f \notin SweptFiles /\ disk' = Undone(f) /\ task' = Rest
    BY <1>1, <1>5, <2>1, ErrorLemma DEF StageInv, Staged, Undo
  <2>3. Dir[f] \notin {"attachments", "blobs"}
    BY <1>2, <2>2 DEF SweptFiles, Swept
  <2>4. \A g \in SweptFiles : disk'[g] = disk[g]
    BY <1>1, <1>2, <2>2, <2>3 DEF Undone, RestoreFromBackup, SweptFiles
  <2>5. Store' = Store /\ Running' = R!Idle /\ Running = R!Idle
    BY <1>1, <2>2, <2>4, RestLemma DEF Store, Recovered, Running, R!Idle
  <2> QED BY <2>5 DEF R!rvars, Store, Running
<1> QED BY <1>3, <1>4, <1>5

LEMMA SaveRefines ==
  ASSUME TypeOK, StageInv, errors' = 0, NEW f \in Files, NEW v \in Contents, SaveRecord(f, v)
  PROVE  [R!RNext]_(R!rvars)
<1>1. task = Rest /\ sweep = {} /\ disk' = disk /\ errors = 0
  BY DEF SaveRecord
<1>2. PICK g \in Files : task' = Write(g, v, "temp")
  BY FileStoreAssumption DEF SaveRecord
<1>3. Running = R!Idle /\ Store' = Store
  BY <1>1, RestLemma DEF Running, R!Idle, Store, Recovered
<1>4. CASE g \in SweptFiles
  <2>1. Recovered(g) = disk[g].main
    BY <1>1, <1>4, SettledLemma, RestLemma DEF StageInv, Writing
  <2>2. Running' = R!Saving(g, Store[g], v)
    BY <1>2, <1>4, <2>1 DEF Write, Running, R!Saving, Store
  <2> QED BY <1>3, <1>4, <2>2 DEF R!RNext, R!Begin, R!rvars, Store, Running
<1>5. CASE g \notin SweptFiles
  <2>1. Running' = R!Idle
    BY <1>2, <1>5 DEF Write, Running, R!Idle
  <2> QED BY <1>3, <2>1 DEF R!rvars, Store, Running
<1> QED BY <1>4, <1>5

LEMMA StartDeleteRefines ==
  ASSUME TypeOK, NEW f \in Files, StartDelete(f)
  PROVE  [R!RNext]_(R!rvars)
<1>1. task = Rest /\ disk' = disk
  BY DEF StartDelete
<1>2. Running = R!Idle /\ Store' = Store
  BY <1>1, RestLemma DEF Running, R!Idle, Store, Recovered
<1>3. CASE task' = task
  BY <1>1, <1>2, <1>3, RestLemma DEF R!rvars, Store, Running, R!Idle
<1>4. CASE \E n : task' = Removal(f, n)
  <2>1. task'.op = "remove" /\ task'.file = f
    BY <1>4 DEF Removal
  <2>2. CASE f \notin SweptFiles
    BY <1>2, <2>1, <2>2 DEF R!rvars, Store, Running, R!Idle
  <2>3. CASE f \in SweptFiles
    <3>1. Running' = R!Removing(SweptFiles \cap ({f} \cup {g \in Files : f \in PagesOf[g]}))
      BY <2>1, <2>3 DEF Running, R!Removing
    <3>2. CASE f \in Pages
      <4>1. SweptFiles \cap ({f} \cup {g \in Files : f \in PagesOf[g]}) = R!Owned(f) \cup {f}
        BY <2>3 DEF R!Owned, SweptFiles
      <4> QED BY <1>2, <3>1, <3>2, <4>1 DEF R!RNext, R!Begin, R!rvars, Store, Running
    <3>3. CASE f \notin Pages
      <4>1. SweptFiles \cap ({f} \cup {g \in Files : f \in PagesOf[g]}) = {f}
        BY <2>3, <3>3, FileStoreAssumption
      <4> QED BY <1>2, <2>3, <3>1, <4>1 DEF R!RNext, R!Begin, R!rvars, Store, Running
    <3> QED BY <3>2, <3>3
  <2> QED BY <2>2, <2>3
<1> QED BY <1>3, <1>4 DEF StartDelete

\* While a deletion runs no write has been cut off.
LEMMA DeletingLemma ==
  ASSUME TypeOK, StageInv, errors = 0, task.op = "remove", NEW f \in SweptFiles
  PROVE  Clean(f) /\ Recovered(f) = disk[f].main
<1>1. sweep = {}
  BY RestLemma DEF StageInv
<1> QED BY <1>1, SettledLemma DEF StageInv, Writing

\* The removal of a record is a change of the table, or of nothing it sees.
LEMMA RemoveLemma ==
  ASSUME TypeOK, StageInv, task.op = "remove", NEW f \in Files, RemoveFile(f), errors' = 0
  PROVE  /\ errors = 0
         /\ f \in SweptFiles => Store' = [Store EXCEPT ![f] = Absent]
         /\ f \notin SweptFiles => Store' = Store
<1>1. disk' = [disk EXCEPT ![f].main = Absent] /\ errors = 0 /\ disk \in [Files -> Triple]
  BY ErrorLemma DEF RemoveFile, TypeOK
<1>2. CASE f \in SweptFiles
  <2>1. Clean(f)
    BY <1>1, <1>2, DeletingLemma
  <2>2. disk'[f].main = Absent /\ disk'[f].tmp = Absent /\ disk'[f].bak = Absent
    BY <1>1, <2>1 DEF Clean, Triple
  <2>3. \A g \in SweptFiles \ {f} : disk'[g] = disk[g]
    BY <1>1 DEF SweptFiles
  <2>4. Recovered(f)' = Absent
    BY <2>2 DEF Recovered, Reconciled, NoFile
  <2>5. \A g \in SweptFiles \ {f} : Recovered(g)' = Recovered(g)
    BY <2>3 DEF Recovered
  <2> QED BY <1>1, <1>2, <2>4, <2>5 DEF Store
<1>3. CASE f \notin SweptFiles
  BY <1>1, <1>3 DEF Store, Recovered, SweptFiles
<1> QED BY <1>1, <1>2, <1>3

LEMMA DeleteRecordsRefines ==
  ASSUME TypeOK, StageInv, errors' = 0, DeleteRecords
  PROVE  [R!RNext]_(R!rvars)
<1> DEFINE p == task.file
           d == Phases[task.phase]
           S == SweptFiles \cap ({p} \cup {f \in Files : p \in PagesOf[f]})
<1>1. /\ task \in Tasks /\ task.op = "remove" /\ errors \in Nat /\ p \in Files
      /\ task.phase \in 1 .. 4
  <2>1. task \in Tasks /\ task.op = "remove" /\ errors \in Nat /\ task.phase # 5
    BY PhaseLemma DEF TypeOK, DeleteRecords
  <2> QED BY <2>1, RemoveTask
<1>2. Running = IF p \in SweptFiles THEN R!Removing(S) ELSE R!Idle
  BY <1>1 DEF Running, R!Removing, R!Idle
<1>3. CASE task' = Rest /\ disk' = disk
  <2>1. Running' = R!Idle /\ Store' = Store
    BY <1>3, RestLemma DEF Running, R!Idle, Store, Recovered
  <2> QED BY <1>2, <2>1 DEF R!RNext, R!Finish, R!rvars, R!Removing, Store, Running
<1>4. CASE task' = [task EXCEPT !.phase = @ + 1] /\ disk' = disk
  <2>1. task'.op = "remove" /\ task'.file = p
    BY <1>1, <1>4, RemoveTask
  <2>2. Running' = Running /\ Store' = Store
    BY <1>1, <1>4, <2>1 DEF Running, Store, Recovered
  <2> QED BY <2>2 DEF R!rvars, Store, Running
<1>5. CASE /\ \E f \in Owned(p, d) : RemoveFile(f)
           /\ errors' = errors => task' = task
  <2>1. PICK f \in Owned(p, d) : RemoveFile(f)
    BY <1>5
  <2>2. f \in Files /\ Dir[f] = d /\ p \in PagesOf[f]
    BY <2>1 DEF Owned, In
  <2>3. p \in SweptFiles /\ f \notin Pages
    BY <1>1, <2>2, PhaseLemma, FileStoreAssumption DEF Pages, SweptFiles, Swept
  <2>4. /\ errors = 0
        /\ f \in SweptFiles => Store' = [Store EXCEPT ![f] = Absent]
        /\ f \notin SweptFiles => Store' = Store
    BY <1>1, <2>1, <2>2, RemoveLemma
  <2>5. CASE task' = task
    <3>1. Running' = Running
      BY <2>5 DEF Running
    <3>2. CASE f \in SweptFiles
      <4>1. f \in S
        BY <2>2, <3>2
      <4> HIDE DEF S
      <4> QED BY <1>2, <2>3, <2>4, <3>1, <3>2, <4>1
              DEF R!RNext, R!Remove, R!Removing, R!rvars, Store, Running
    <3>3. CASE f \notin SweptFiles
      BY <2>4, <3>1, <3>3 DEF R!rvars, Store, Running
    <3> QED BY <3>2, <3>3
  <2>6. task' = task
    BY <1>5, <2>4
  <2> QED BY <2>5, <2>6
<1> QED BY <1>3, <1>4, <1>5 DEF DeleteRecords

LEMMA DeleteLastRefines ==
  ASSUME TypeOK, StageInv, RemovalInv, errors' = 0, DeleteLast
  PROVE  [R!RNext]_(R!rvars)
<1> DEFINE p == task.file
           S == SweptFiles \cap ({p} \cup {f \in Files : p \in PagesOf[f]})
<1>1. /\ task \in Tasks /\ task.op = "remove" /\ errors \in Nat /\ p \in Files
      /\ task.phase = 5 /\ task' = Rest
  BY RemoveTask, PhaseLemma DEF TypeOK, DeleteLast
<1>2. Running = IF p \in SweptFiles THEN R!Removing(S) ELSE R!Idle
  BY <1>1 DEF Running, R!Removing, R!Idle
<1>3. Running' = R!Idle
  BY <1>1, RestLemma DEF Running, R!Idle
<1>4. /\ errors = 0
      /\ p \in SweptFiles => Store' = [Store EXCEPT ![p] = Absent]
      /\ p \notin SweptFiles => Store' = Store
  BY <1>1, RemoveLemma DEF DeleteLast
<1>5. CASE p \notin SweptFiles
  BY <1>2, <1>3, <1>4, <1>5 DEF R!rvars, Store, Running
<1>6. CASE p \in SweptFiles /\ disk[p].main = Absent
  <2>1. Store[p] = Absent
    BY <1>1, <1>4, <1>6, DeletingLemma DEF Store
  <2>2. Store' = Store
    BY <1>4, <1>6, <2>1 DEF Store
  <2> QED BY <1>2, <1>3, <1>6, <2>2 DEF R!RNext, R!Finish, R!Removing, R!rvars, Store, Running
<1>7. CASE p \in SweptFiles /\ disk[p].main # Absent
  <2>1. ASSUME p \in Pages, NEW g \in S \ {p} PROVE Store[g] \in {Absent, Torn}
    <3>1. g \in SweptFiles /\ g \in Files /\ p \in PagesOf[g]
      BY DEF SweptFiles
    <3>2. \E n \in 1 .. 4 : Dir[g] = Phases[n]
      BY <3>1, PhaseLemma, FileStoreAssumption
    <3>3. PICK n \in 1 .. 4 : Dir[g] = Phases[n]
      BY <3>2
    <3>4. Owned(p, Phases[n]) = {}
      BY <1>1, <1>7, <2>1, <3>3 DEF RemovalInv
    <3>5. ~Readable(g)
      BY <3>1, <3>3, <3>4 DEF Owned, In
    <3>6. Store[g] = disk[g].main
      BY <1>1, <1>4, <3>1, DeletingLemma DEF Store
    <3> QED BY <3>5, <3>6 DEF Readable
  <2>2. p \in S
    BY <1>7
  <2> HIDE DEF S
  <2> QED BY <1>2, <1>3, <1>4, <1>7, <2>1, <2>2
          DEF R!RNext, R!Remove, R!Removing, R!rvars, Store, Running
<1> QED BY <1>5, <1>6, <1>7

LEMMA CrashRefines ==
  ASSUME TypeOK, StageInv, errors' = 0, Crash
  PROVE  [R!RNext]_(R!rvars)
<1> DEFINE f == task.file
<1>1. task \in Tasks /\ disk \in [Files -> Triple] /\ task' = Rest /\ errors = 0
  BY DEF TypeOK, Crash
<1>2. Running' = R!Idle
  BY <1>1, RestLemma DEF Running, R!Idle
<1>3. CASE disk' = disk
  <2>1. Store' = Store
    BY <1>3 DEF Store, Recovered
  <2> QED BY <1>2, <2>1 DEF R!RNext, R!Crash, R!rvars, Store, Running
<1>4. CASE task.op = "write" /\ task.stage = "temp" /\ disk' = [disk EXCEPT ![f].tmp = Torn]
  <2>1. f \in Files
    BY <1>1, <1>4, WriteTask
  <2>2. \A g \in Files \ {f} : disk'[g] = disk[g]
    BY <1>1, <1>4
  <2>3. CASE f \notin SweptFiles
    <3>1. Store' = Store
      BY <2>2, <2>3 DEF Store, Recovered, SweptFiles
    <3> QED BY <1>2, <3>1 DEF R!RNext, R!Crash, R!rvars, Store, Running
  <2>4. CASE f \in SweptFiles
    <3>1. disk[f] = Names(task.old, Absent, Absent)
      BY <1>1, <1>4, <2>4 DEF StageInv, Staged
    <3>2. disk'[f].main = task.old /\ disk'[f].tmp = Torn
      BY <1>1, <1>4, <2>1, <3>1, NamesLemma DEF Triple
    <3>3. Recovered(f) = task.old
      BY <3>1, NamesLemma, RecoveredLemma
    <3>4. \A g \in SweptFiles \ {f} : Recovered(g)' = Recovered(g)
      BY <2>2 DEF Recovered, SweptFiles
    <3>5. CASE task.old # Absent
      <4>1. Reconciled(disk'[f]).main = task.old
        BY <3>2, <3>5 DEF Reconciled, NoFile
      <4>2. Store' = Store
        BY <2>2, <3>3, <4>1 DEF Store, Recovered, SweptFiles
      <4> QED BY <1>2, <4>2 DEF R!RNext, R!Crash, R!rvars, Store, Running
    <3>6. CASE task.old = Absent
      <4>1. Reconciled(disk'[f]).main = Torn
        BY <3>2, <3>6, FileStoreAssumption DEF Reconciled, NoFile
      <4>2. Store' = [Store EXCEPT ![f] = Torn] /\ Store[f] = Absent
        BY <2>2, <2>4, <3>3, <3>6, <4>1 DEF Store, Recovered, SweptFiles
      <4>3. Running = [op |-> "save", file |-> f, old |-> task.old, new |-> task.value]
        BY <1>4, <2>4 DEF Running
      <4> HIDE DEF f
      <4> QED BY <1>2, <4>2, <4>3 DEF R!RNext, R!Crash, R!rvars, Store, Running
    <3> QED BY <3>5, <3>6
  <2> QED BY <2>3, <2>4
<1> QED BY <1>3, <1>4 DEF Crash

LEMMA SweepRefines ==
  ASSUME TypeOK, errors' = 0, Sweep
  PROVE  [R!RNext]_(R!rvars)
<1>1. PICK f \in sweep :
        \/ disk' = [disk EXCEPT ![f] = Reconciled(@)] /\ UNCHANGED errors
        \/ Fails /\ UNCHANGED disk
  BY DEF Sweep
<1>2. disk' = [disk EXCEPT ![f] = Reconciled(@)] /\ f \in Files /\ disk \in [Files -> Triple]
  BY <1>1, ErrorLemma DEF TypeOK, SweptFiles
<1>3. Reconciled(Reconciled(disk[f])).main = Reconciled(disk[f]).main
  BY DEF Reconciled, NoFile
<1>4. Store' = Store
  BY <1>2, <1>3 DEF Store, Recovered, SweptFiles
<1>5. Running' = Running
  BY DEF Sweep, Running
<1> QED BY <1>4, <1>5 DEF R!rvars, Store, Running

LEMMA StepRefines ==
  TypeOK /\ StageInv /\ StageInv' /\ RemovalInv /\ [Next]_vars
    => [errors' = 0 => [R!RNext]_(R!rvars)]_vars
<1>1. CASE UNCHANGED vars
  BY <1>1
<1> QED BY <1>1, WriteRefines, EndRefines, SaveRefines, StartDeleteRefines, DeleteRecordsRefines,
           DeleteLastRefines, CrashRefines, SweepRefines DEF Next

LEMMA InitRefines == Init => R!RInit
<1> SUFFICES ASSUME Init PROVE R!RInit
  OBVIOUS
<1>1. Store = [f \in SweptFiles |-> Absent]
  BY DEF Init, Store, Recovered, Reconciled, NoFile, SweptFiles
<1>2. Running = R!Idle
  BY RestLemma DEF Init, Running, R!Idle
<1> QED BY <1>1, <1>2 DEF R!RInit, Store, Running

-----------------------------------------------------------------------------
(* What was saved is there.                                                 *)

\* What a restart would make of a record is what was last acknowledged, or a
\* later save that did not end; while a write runs this holds of what it
\* replaces.
Saved(f) ==
  (IF Writing(f) /\ task.stage # "metadata" THEN task.old ELSE Recovered(f))
    \in {acked[f]} \cup tried[f]
SavedInv == errors = 0 => \A f \in SweptFiles : Saved(f)

LEMMA SavedElsewhere ==
  ASSUME NEW g, Saved(g), ~Writing(g), ~Writing(g)', disk'[g] = disk[g],
         acked'[g] = acked[g], tried[g] \subseteq tried'[g]
  PROVE  Saved(g)'
  BY DEF Saved, Recovered

LEMMA SavedWrite ==
  ASSUME TypeOK, StageInv, SavedInv, WriteTemp \/ RenameToBackup \/ RenameTemp
  PROVE  SavedInv'
<1> DEFINE f == task.file
<1>1. /\ task \in Tasks /\ task.op = "write" /\ errors \in Nat /\ disk \in [Files -> Triple]
      /\ task.stage # "metadata" /\ acked' = acked /\ tried' = tried
  BY DEF TypeOK, WriteTemp, RenameToBackup, RenameTemp, Keep
<1>2. SUFFICES ASSUME errors' = 0, NEW g \in SweptFiles PROVE Saved(g)'
  BY DEF SavedInv
<1>3. errors = 0 /\ \E stage \in {"backup", "swap", "clean"} : Goto(stage)
  BY <1>1, <1>2, ErrorLemma DEF WriteTemp, RenameToBackup, RenameTemp
<1>4. /\ task'.op = "write" /\ task'.file = f /\ task'.stage # "metadata"
      /\ task'.old = task.old
  BY <1>1, <1>3, GotoLemma DEF Stages
<1>5. g # f => disk'[g] = disk[g]
  BY <1>1, <1>2, <1>3, ErrorLemma DEF WriteTemp, RenameToBackup, Renamed, RenameTemp, SweptFiles
<1>6. Saved(g)
  BY <1>3 DEF SavedInv
<1>7. CASE g = f
  BY <1>1, <1>4, <1>6, <1>7 DEF Saved, Writing
<1>8. CASE g # f
  BY <1>1, <1>4, <1>5, <1>6, <1>8, SavedElsewhere DEF Writing
<1> QED BY <1>7, <1>8

LEMMA SavedEnd ==
  ASSUME TypeOK, StageInv, SavedInv, RemoveBackup \/ WriteMetadata \/ Undo
  PROVE  SavedInv'
<1> DEFINE f == task.file
<1>1. task \in Tasks /\ task.op = "write" /\ errors \in Nat /\ disk \in [Files -> Triple]
  BY DEF TypeOK, RemoveBackup, WriteMetadata, Undo
<1>2. f \in Files /\ task.value \in Contents /\ task.value # Absent
  BY <1>1, WriteTask, FileStoreAssumption
<1>3. SUFFICES ASSUME errors' = 0, NEW g \in SweptFiles PROVE Saved(g)'
  BY DEF SavedInv
<1>4. errors = 0 /\ g \in Files
  BY <1>1, <1>3, ErrorLemma DEF RemoveBackup, WriteMetadata, Undo, SweptFiles
<1>5. Saved(g)
  BY <1>4 DEF SavedInv
<1>6. CASE RemoveBackup
  <2>1. /\ disk' = [disk EXCEPT ![f].bak = Absent] /\ (task' = Rest \/ Goto("metadata"))
        /\ Ack(f, task.value)
    BY <1>1, <1>3, <1>6, ErrorLemma DEF RemoveBackup
  <2>2. ~(Writing(g)' /\ task'.stage # "metadata") /\ (g # f => ~Writing(g)')
    <3>1. CASE task' = Rest
      BY <3>1, RestLemma DEF Writing
    <3>2. CASE Goto("metadata")
      BY <1>1, <3>2, GotoLemma DEF Writing, Stages
    <3> QED BY <2>1, <3>1, <3>2
  <2>3. CASE g = f
    <3>1. disk[f] = Names(task.value, Absent, task.old)
      BY <1>1, <1>4, <1>6, <2>3 DEF StageInv, Staged, RemoveBackup
    <3>2. disk'[f].main = task.value
      BY <1>1, <1>2, <2>1, <3>1, NamesLemma DEF Triple
    <3>3. acked'[f] = task.value
      BY <1>2, <2>1 DEF Ack, TypeOK
    <3>4. Recovered(g)' = task.value
      BY <1>2, <2>3, <3>2 DEF Recovered, Reconciled, NoFile
    <3> QED BY <2>2, <2>3, <3>3, <3>4 DEF Saved
  <2>4. CASE g # f
    <3>1. disk'[g] = disk[g] /\ acked'[g] = acked[g] /\ tried'[g] = tried[g]
      BY <1>1, <1>4, <2>1, <2>4 DEF Ack, TypeOK
    <3> QED BY <1>5, <2>2, <2>4, <3>1, SavedElsewhere DEF Writing
  <2> QED BY <2>3, <2>4
<1>7. CASE WriteMetadata
  <2>1. PICK m \in In("attachments") : BlobOf[m] = f /\ task' = Write(m, task.value, "temp")
    BY <1>7 DEF WriteMetadata
  <2>2. disk' = disk /\ acked' = acked /\ tried' = tried /\ task.stage = "metadata"
    BY <1>7 DEF WriteMetadata, Keep
  <2>3. m \in SweptFiles /\ m # f /\ sweep = {}
    BY <1>1, <1>2, <2>1, RestLemma, FileStoreAssumption DEF In, SweptFiles, Swept, StageInv
  <2>4. Recovered(g) \in {acked[g]} \cup tried[g]
    BY <1>5, <2>2 DEF Saved
  <2>5. Recovered(m) = disk[m].main
    BY <1>1, <1>4, <2>3, SettledLemma DEF StageInv, Writing
  <2>6. task'.file = m /\ task'.old = disk[m].main
    BY <2>1 DEF Write
  <2>7. Recovered(g)' = Recovered(g)
    BY <2>2 DEF Recovered
  <2> QED BY <2>2, <2>4, <2>5, <2>6, <2>7 DEF Saved, Writing
<1>8. CASE Undo
  <2>1. f \notin SweptFiles /\ disk' = Undone(f) /\ task' = Rest
    BY <1>1, <1>3, <1>4, <1>8, ErrorLemma DEF StageInv, Staged, Undo
  <2>2. Dir[f] \notin {"attachments", "blobs"}
    BY <1>2, <2>1 DEF SweptFiles, Swept
  <2>3. g # f /\ disk'[g] = disk[g]
    BY <1>1, <1>2, <2>1, <2>2 DEF Undone, RestoreFromBackup, SweptFiles
  <2>4. acked' = acked /\ tried'[g] = tried[g]
    BY <1>1, <1>3, <1>4, <1>8, <2>2, <2>3, ErrorLemma DEF Undo, TypeOK
  <2> QED BY <1>5, <2>1, <2>3, <2>4, RestLemma, SavedElsewhere DEF Writing
<1> QED BY <1>6, <1>7, <1>8

LEMMA SavedRemove ==
  ASSUME TypeOK, StageInv, SavedInv, (\E f \in Files : StartDelete(f)) \/ DeleteRecords \/ DeleteLast
  PROVE  SavedInv'
<1>1. /\ task \in Tasks /\ task.op # "write" /\ errors \in Nat /\ disk \in [Files -> Triple]
      /\ sweep = {}
  BY RestLemma DEF TypeOK, StageInv, StartDelete, DeleteRecords, DeleteLast
<1>2. task'.op # "write"
  <2>1. CASE \E f \in Files : StartDelete(f)
    BY <1>1, <2>1 DEF StartDelete, Removal
  <2>2. CASE DeleteRecords
    <3>1. task' = Rest \/ task' = task \/ task' = [task EXCEPT !.phase = @ + 1]
      BY <2>2 DEF DeleteRecords
    <3>2. [task EXCEPT !.phase = @ + 1].op = task.op
      BY <2>2, RemoveTask DEF DeleteRecords, TypeOK
    <3> QED BY <1>1, <3>1, <3>2, RestLemma
  <2>3. CASE DeleteLast
    BY <2>3, RestLemma DEF DeleteLast
  <2> QED BY <2>1, <2>2, <2>3
<1>3. SUFFICES ASSUME errors' = 0, NEW g \in SweptFiles PROVE Saved(g)'
  BY DEF SavedInv
<1>4. ASSUME NEW h \in Files, RemoveFile(h)
      PROVE  Saved(g)'
  <2>1. disk' = [disk EXCEPT ![h].main = Absent] /\ errors = 0 /\ Ack(h, Absent)
    BY <1>1, <1>3, <1>4, ErrorLemma DEF RemoveFile
  <2>2. g \in Files /\ Clean(g)
    BY <1>1, <2>1 DEF SweptFiles, StageInv, Writing
  <2>3. CASE g = h
    <3>1. disk'[g].main = Absent /\ disk'[g].tmp = Absent /\ disk'[g].bak = Absent
      BY <1>1, <2>1, <2>2, <2>3 DEF Clean, Triple
    <3>2. Recovered(g)' = Absent
      BY <3>1 DEF Recovered, Reconciled, NoFile
    <3>3. acked'[g] = Absent
      BY <2>1, <2>3 DEF Ack, TypeOK
    <3> QED BY <1>2, <3>2, <3>3 DEF Saved, Writing
  <2>4. CASE g # h
    <3>1. disk'[g] = disk[g] /\ acked'[g] = acked[g] /\ tried'[g] = tried[g]
      BY <1>1, <2>1, <2>2, <2>4 DEF Ack, TypeOK
    <3> QED BY <1>1, <1>2, <2>1, <3>1, SavedElsewhere DEF Writing, SavedInv
  <2> QED BY <2>3, <2>4
<1>5. ASSUME disk' = disk, errors' = errors, acked' = acked, tried' = tried PROVE Saved(g)'
  BY <1>1, <1>2, <1>3, <1>5, SavedElsewhere DEF Writing, SavedInv
<1>6. CASE \E f \in Files : StartDelete(f)
  BY <1>5, <1>6 DEF StartDelete
<1>7. CASE DeleteRecords
  BY <1>4, <1>5, <1>7 DEF DeleteRecords, Owned, In
<1>8. CASE DeleteLast
  <2>1. task.file \in Files
    BY <1>1, <1>8, RemoveTask DEF DeleteLast
  <2> QED BY <1>4, <1>8, <2>1 DEF DeleteLast
<1> QED BY <1>6, <1>7, <1>8

LEMMA SavedOther ==
  ASSUME TypeOK, StageInv, SavedInv,
         (\E f \in Files, v \in Contents : SaveRecord(f, v)) \/ Crash \/ Sweep \/ UNCHANGED vars
  PROVE  SavedInv'
<1>1. task \in Tasks /\ errors \in Nat /\ disk \in [Files -> Triple]
  BY DEF TypeOK
<1>2. SUFFICES ASSUME errors' = 0, NEW g \in SweptFiles PROVE Saved(g)'
  BY DEF SavedInv
<1>3. g \in Files
  BY DEF SweptFiles
<1>4. ASSUME NEW f \in Files, NEW v \in Contents, SaveRecord(f, v) PROVE Saved(g)'
  <2>1. /\ sweep = {} /\ task = Rest /\ disk' = disk /\ errors = 0
        /\ acked' = acked /\ tried' = tried
    BY <1>2, <1>4 DEF SaveRecord
  <2>2. PICK h \in Files : task' = Write(h, v, "temp")
    BY <1>4, FileStoreAssumption DEF SaveRecord
  <2>3. task'.file = h /\ task'.old = disk[h].main
    BY <2>2 DEF Write
  <2>4. Recovered(g) = disk[g].main
    BY <2>1, SettledLemma, RestLemma DEF StageInv, Writing
  <2>5. Recovered(g) \in {acked[g]} \cup tried[g]
    BY <2>1, RestLemma DEF SavedInv, Saved, Writing
  <2>6. Recovered(g)' = Recovered(g)
    BY <2>1 DEF Recovered
  <2> QED BY <2>1, <2>3, <2>4, <2>5, <2>6 DEF Saved, Writing
<1>5. CASE Crash
  <2> DEFINE f == task.file
             first == task.op = "write" /\ task.stage = "temp"
             cut == first /\ disk'[f].tmp = Torn /\ disk[f].main = Absent
  <2>1. /\ task' = Rest /\ acked' = acked /\ errors = 0
        /\ disk' = disk \/ (first /\ disk' = [disk EXCEPT ![f].tmp = Torn])
        /\ tried' = IF task.op = "write"
                    THEN [tried EXCEPT ![f] = @ \cup {task.value} \cup (IF cut THEN {Torn} ELSE {})]
                    ELSE tried
    BY <1>2, <1>5 DEF Crash
  <2>2. Saved(g) /\ ~Writing(g)'
    BY <2>1, RestLemma DEF SavedInv, Writing
  <2>3. tried \in [Files -> SUBSET (Contents \cup {Torn})]
    BY DEF TypeOK
  <2>4. CASE ~Writing(g)
    <3>1. disk'[g] = disk[g]
      BY <1>1, <1>3, <2>1, <2>4 DEF Writing
    <3>2. tried'[g] = tried[g]
      BY <1>3, <2>1, <2>3, <2>4 DEF Writing
    <3> QED BY <2>1, <2>2, <2>4, <3>1, <3>2, SavedElsewhere
  <2>5. CASE Writing(g)
    <3>1. /\ task.op = "write" /\ f = g /\ task.value # Absent
          /\ tried'[g] = tried[g] \cup {task.value} \cup (IF cut THEN {Torn} ELSE {})
      BY <1>1, <1>3, <2>1, <2>3, <2>5, WriteTask, FileStoreAssumption DEF Writing
    <3>2. Staged
      BY <2>1, <3>1 DEF StageInv
    <3>3. Recovered(g)' = IF disk'[g].main # Absent THEN disk'[g].main
                          ELSE IF disk'[g].tmp # Absent THEN disk'[g].tmp ELSE disk'[g].bak
      BY DEF Recovered, Reconciled, NoFile
    <3>4. Recovered(g)' \in {acked[g]} \cup tried'[g]
      <4>1. CASE disk' = disk
        <5>1. CASE task.stage = "metadata"
          BY <2>2, <3>1, <4>1, <5>1 DEF Saved, Recovered
        <5>2. CASE task.stage # "metadata"
          <6>1. Recovered(g)' \in {task.old, task.value}
            BY <3>1, <3>2, <3>3, <4>1, <5>2, NamesLemma DEF Staged
          <6>2. task.old \in {acked[g]} \cup tried[g]
            BY <2>2, <2>5, <5>2 DEF Saved
          <6> QED BY <3>1, <6>1, <6>2
        <5> QED BY <5>1, <5>2
      <4>2. CASE first /\ disk' = [disk EXCEPT ![f].tmp = Torn]
        <5>1. disk[g] = Names(task.old, Absent, Absent)
          BY <3>1, <3>2, <4>2 DEF Staged
        <5>2. disk'[g].main = task.old /\ disk'[g].tmp = Torn /\ disk[g].main = task.old
          BY <1>1, <1>3, <3>1, <4>2, <5>1, NamesLemma DEF Triple
        <5>3. task.old \in {acked[g]} \cup tried[g]
          BY <2>2, <2>5, <4>2 DEF Saved
        <5> QED BY <3>1, <3>3, <4>2, <5>2, <5>3, FileStoreAssumption
      <4> QED BY <2>1, <4>1, <4>2
    <3> QED BY <2>1, <2>2, <3>4 DEF Saved
  <2> QED BY <2>4, <2>5
<1>6. CASE Sweep
  <2>1. PICK f \in sweep :
          /\ sweep' = sweep \ {f}
          /\ \/ disk' = [disk EXCEPT ![f] = Reconciled(@)] /\ UNCHANGED errors
             \/ Fails /\ UNCHANGED disk
    BY <1>6 DEF Sweep
  <2>2. task = Rest /\ task' = Rest /\ acked' = acked /\ tried' = tried
    BY <1>6, <2>1 DEF StageInv, Sweep
  <2>3. disk' = [disk EXCEPT ![f] = Reconciled(@)] /\ f \in Files /\ errors = 0
    BY <1>1, <1>2, <2>1, ErrorLemma DEF TypeOK, SweptFiles
  <2>4. Reconciled(Reconciled(disk[f])).main = Reconciled(disk[f]).main
    BY DEF Reconciled, NoFile
  <2>5. Recovered(g)' = Recovered(g)
    BY <1>1, <1>3, <2>3, <2>4 DEF Recovered
  <2> QED BY <2>2, <2>3, <2>5, RestLemma DEF SavedInv, Saved, Writing
<1>7. CASE UNCHANGED vars
  BY <1>2, <1>7 DEF vars, SavedInv, Saved, Writing, Recovered
<1> QED BY <1>4, <1>5, <1>6, <1>7

LEMMA SavedStep == TypeOK /\ StageInv /\ SavedInv /\ [Next]_vars => SavedInv'
  BY SavedWrite, SavedEnd, SavedRemove, SavedOther DEF Next

-----------------------------------------------------------------------------
(* Metadata say what the bytes say.                                         *)

\* While the bytes are written there are no metadata; once there are any, or
\* they are being written, they say what the bytes say.
Matched(m) ==
  LET b == BlobOf[m] IN
  /\ Writing(b) => disk[m] = NoFile
  /\ Writing(m) => task.value = disk[b].main
  /\ disk[m] # NoFile \/ Writing(m) =>
       /\ disk[b].main \in Contents
       /\ {disk[m].main, disk[m].tmp, disk[m].bak} \subseteq {Absent, Torn, disk[b].main}
AttachedInv == errors = 0 => \A m \in In("attachments") : Matched(m)

LEMMA AttachmentFiles ==
  ASSUME NEW m \in In("attachments")
  PROVE  /\ m \in Files /\ m \in SweptFiles /\ Dir[m] = "attachments"
         /\ BlobOf[m] \in Files /\ BlobOf[m] \in SweptFiles /\ Dir[BlobOf[m]] = "blobs"
         /\ m # BlobOf[m] /\ m \notin Pages
  BY FileStoreAssumption DEF In, SweptFiles, Swept, Pages

LEMMA MatchedElsewhere ==
  ASSUME NEW m, Matched(m), disk'[m] = disk[m], disk'[BlobOf[m]] = disk[BlobOf[m]],
         ~Writing(m)', ~Writing(BlobOf[m])'
  PROVE  Matched(m)'
  BY DEF Matched

LEMMA AttachedWrite ==
  ASSUME TypeOK, StageInv, AttachedInv, WriteTemp \/ RenameToBackup \/ RenameTemp
  PROVE  AttachedInv'
<1> DEFINE f == task.file
<1>1. /\ task \in Tasks /\ task.op = "write" /\ errors \in Nat /\ disk \in [Files -> Triple]
  BY DEF TypeOK, WriteTemp, RenameToBackup, RenameTemp
<1>2. SUFFICES ASSUME errors' = 0, NEW m \in In("attachments") PROVE Matched(m)'
  BY DEF AttachedInv, In
<1> DEFINE b == BlobOf[m]
<1>3. errors = 0 /\ \E stage \in {"backup", "swap", "clean"} : Goto(stage)
  BY <1>1, <1>2, ErrorLemma DEF WriteTemp, RenameToBackup, RenameTemp
<1>4. /\ task'.op = "write" /\ task'.file = f /\ task'.value = task.value
  BY <1>1, <1>3, GotoLemma DEF Stages
<1>5. \A g \in Files : g # f => disk'[g] = disk[g]
  BY <1>1, <1>2, <1>3, ErrorLemma DEF WriteTemp, RenameToBackup, Renamed, RenameTemp
<1>6. Matched(m) /\ f \in Files /\ task.value \in Contents
  BY <1>1, <1>3, WriteTask DEF AttachedInv
<1>7. CASE f = m
  <2>1. disk'[b] = disk[b] /\ Writing(m) /\ Writing(m)' /\ ~Writing(b) /\ ~Writing(b)'
    BY <1>1, <1>4, <1>5, <1>7, AttachmentFiles DEF Writing
  <2>2. {disk'[m].main, disk'[m].tmp, disk'[m].bak}
          \subseteq {disk[m].main, disk[m].tmp, disk[m].bak, task.value, Absent}
    <3>1. CASE WriteTemp
      <4>1. disk' = [disk EXCEPT ![m].tmp = task.value]
        BY <1>1, <1>2, <1>7, <3>1, ErrorLemma DEF WriteTemp
      <4> QED BY <1>1, <1>6, <1>7, <4>1 DEF Triple
    <3>2. CASE RenameToBackup
      <4>1. disk' = disk \/ disk' = [disk EXCEPT ![m].bak = disk[m].main, ![m].main = Absent]
        BY <1>1, <1>2, <1>7, <3>2, ErrorLemma DEF RenameToBackup, Renamed
      <4> QED BY <1>1, <1>6, <1>7, <4>1 DEF Triple
    <3>3. CASE RenameTemp
      <4>1. disk' = [disk EXCEPT ![m].main = disk[m].tmp, ![m].tmp = Absent]
        BY <1>1, <1>2, <1>7, <3>3, ErrorLemma DEF RenameTemp
      <4> QED BY <1>1, <1>6, <1>7, <4>1 DEF Triple
    <3> QED BY <3>1, <3>2, <3>3
  <2>3. task.value = disk[b].main
    BY <1>6, <2>1 DEF Matched
  <2>4. {disk'[m].main, disk'[m].tmp, disk'[m].bak} \subseteq {Absent, Torn, disk[b].main}
    BY <1>6, <2>1, <2>2, <2>3 DEF Matched
  <2>5. disk'[b].main = disk[b].main /\ task'.value = disk'[b].main /\ disk'[b].main \in Contents
    BY <1>4, <1>6, <2>1, <2>3
  <2> QED BY <2>1, <2>4, <2>5 DEF Matched
<1>8. CASE f = b
  <2>1. disk[m] = NoFile /\ Writing(b) /\ ~Writing(m)'
    BY <1>1, <1>4, <1>6, <1>8, AttachmentFiles DEF Writing, Matched
  <2>2. disk'[m] = NoFile
    BY <1>5, <1>8, <2>1, AttachmentFiles
  <2> QED BY <2>1, <2>2 DEF Matched
<1>9. CASE f \notin {m, b}
  BY <1>4, <1>5, <1>6, <1>9, AttachmentFiles, MatchedElsewhere DEF Writing
<1> QED BY <1>7, <1>8, <1>9

LEMMA AttachedEnd ==
  ASSUME TypeOK, StageInv, AttachedInv, RemoveBackup \/ WriteMetadata \/ Undo
  PROVE  AttachedInv'
<1> DEFINE f == task.file
<1>1. task \in Tasks /\ task.op = "write" /\ errors \in Nat /\ disk \in [Files -> Triple]
  BY DEF TypeOK, RemoveBackup, WriteMetadata, Undo
<1>2. f \in Files /\ task.value \in Contents /\ task.value \notin {Absent, Torn}
  BY <1>1, WriteTask, FileStoreAssumption
<1>3. SUFFICES ASSUME errors' = 0, NEW m \in In("attachments") PROVE Matched(m)'
  BY DEF AttachedInv, In
<1> DEFINE b == BlobOf[m]
<1>4. errors = 0
  BY <1>1, <1>3, ErrorLemma DEF RemoveBackup, WriteMetadata, Undo
<1>5. Matched(m)
  BY <1>4 DEF AttachedInv
<1>6. CASE RemoveBackup
  <2>1. disk' = [disk EXCEPT ![f].bak = Absent]
    BY <1>1, <1>3, <1>6, ErrorLemma DEF RemoveBackup
  <2>2. \A g \in Files : g # f => disk'[g] = disk[g]
    BY <1>1, <2>1
  <2>3. task' = Rest \/ (Dir[f] = "blobs" /\ Goto("metadata"))
    <3>1. ~Fails
      BY <1>1, <1>3, ErrorLemma
    <3> QED BY <1>6, <3>1 DEF RemoveBackup
  <2>4. ~Writing(m)' /\ (Writing(b)' => f = b)
    <3>1. CASE task' = Rest
      BY <3>1, RestLemma DEF Writing
    <3>2. CASE Dir[f] = "blobs" /\ Goto("metadata")
      BY <1>1, <3>2, GotoLemma, AttachmentFiles DEF Writing, Stages
    <3> QED BY <2>3, <3>1, <3>2
  <2>5. CASE f = m
    <3>1. Writing(m) /\ ~Writing(b)' /\ disk'[b] = disk[b]
      BY <1>1, <2>2, <2>4, <2>5, AttachmentFiles DEF Writing
    <3>2. /\ disk'[m].main = disk[m].main /\ disk'[m].tmp = disk[m].tmp
          /\ disk'[m].bak = Absent
      BY <1>1, <1>2, <2>1, <2>5 DEF Triple
    <3> QED BY <1>5, <2>4, <3>1, <3>2 DEF Matched
  <2>6. CASE f = b
    <3>1. disk[m] = NoFile /\ disk'[m] = disk[m]
      BY <1>1, <1>5, <2>2, <2>6, AttachmentFiles DEF Writing, Matched
    <3> QED BY <2>4, <3>1 DEF Matched
  <2>7. CASE f \notin {m, b}
    BY <1>5, <2>2, <2>4, <2>7, AttachmentFiles, MatchedElsewhere
  <2> QED BY <2>5, <2>6, <2>7
<1>7. CASE WriteMetadata
  <2>1. PICK n \in In("attachments") : BlobOf[n] = f /\ task' = Write(n, task.value, "temp")
    BY <1>7 DEF WriteMetadata
  <2>2. disk' = disk /\ task.stage = "metadata"
    BY <1>7 DEF WriteMetadata
  <2>3. /\ task'.op = "write" /\ task'.file = n /\ task'.value = task.value
    BY <2>1 DEF Write
  <2>4. f \in SweptFiles /\ Dir[f] = "blobs" /\ Dir[n] = "attachments"
    BY <2>1, AttachmentFiles
  <2>5. CASE n = m
    <3>1. disk[m] = NoFile /\ ~Writing(b)'
      BY <1>1, <1>5, <2>1, <2>3, <2>5, AttachmentFiles DEF Writing, Matched
    <3>2. disk[b] = Names(task.value, Absent, Absent)
      BY <1>1, <1>4, <2>1, <2>2, <2>4, <2>5 DEF StageInv, Staged
    <3>3. disk'[b].main = task.value /\ disk'[m] = NoFile
      BY <2>2, <3>1, <3>2, NamesLemma
    <3>4. {disk'[m].main, disk'[m].tmp, disk'[m].bak} = {Absent}
      BY <3>3 DEF NoFile
    <3> QED BY <1>2, <2>3, <2>5, <3>1, <3>3, <3>4 DEF Matched
  <2>6. CASE n # m
    <3>1. ~Writing(m)' /\ ~Writing(b)'
      BY <2>3, <2>4, <2>6, AttachmentFiles DEF Writing
    <3> QED BY <1>5, <2>2, <3>1, MatchedElsewhere
  <2> QED BY <2>5, <2>6
<1>8. CASE Undo
  <2>1. f \notin SweptFiles /\ disk' = Undone(f) /\ task' = Rest
    BY <1>1, <1>3, <1>4, <1>8, ErrorLemma DEF StageInv, Staged, Undo
  <2>2. Dir[f] \notin {"attachments", "blobs"}
    BY <1>2, <2>1 DEF SweptFiles, Swept
  <2>3. \A g \in Files : g # f => disk'[g] = disk[g]
    BY <1>1, <1>2, <2>1, <2>2 DEF Undone, RestoreFromBackup
  <2>4. ~Writing(m)' /\ ~Writing(b)' /\ f # m /\ f # b
    BY <2>1, <2>2, RestLemma, AttachmentFiles DEF Writing
  <2> QED BY <1>5, <2>3, <2>4, AttachmentFiles, MatchedElsewhere
<1> QED BY <1>6, <1>7, <1>8

\* No deletion removes the files of an attachment.
LEMMA AttachedRemove ==
  ASSUME TypeOK, StageInv, AttachedInv,
         (\E f \in Files : StartDelete(f)) \/ DeleteRecords \/ DeleteLast
  PROVE  AttachedInv'
<1>1. /\ task \in Tasks /\ task.op # "write" /\ errors \in Nat /\ disk \in [Files -> Triple]
  BY RestLemma DEF TypeOK, StartDelete, DeleteRecords, DeleteLast
<1>2. task'.op # "write"
  <2>1. CASE \E f \in Files : StartDelete(f)
    BY <1>1, <2>1 DEF StartDelete, Removal
  <2>2. CASE DeleteRecords
    <3>1. task' = Rest \/ task' = task \/ task' = [task EXCEPT !.phase = @ + 1]
      BY <2>2 DEF DeleteRecords
    <3>2. [task EXCEPT !.phase = @ + 1].op = task.op
      BY <2>2, RemoveTask DEF DeleteRecords, TypeOK
    <3> QED BY <1>1, <3>1, <3>2, RestLemma
  <2>3. CASE DeleteLast
    BY <2>3, RestLemma DEF DeleteLast
  <2> QED BY <2>1, <2>2, <2>3
<1>3. SUFFICES ASSUME errors' = 0, NEW m \in In("attachments") PROVE Matched(m)'
  BY DEF AttachedInv, In
<1>4. ASSUME NEW h \in Files, Dir[h] \notin {"attachments", "blobs"}, RemoveFile(h)
      PROVE  Matched(m)'
  <2>1. disk' = [disk EXCEPT ![h].main = Absent] /\ errors = 0
    BY <1>1, <1>3, <1>4, ErrorLemma DEF RemoveFile
  <2>2. disk'[m] = disk[m] /\ disk'[BlobOf[m]] = disk[BlobOf[m]]
    BY <1>1, <1>4, <2>1, AttachmentFiles
  <2> QED BY <1>2, <2>1, <2>2, MatchedElsewhere DEF AttachedInv, Writing
<1>5. ASSUME disk' = disk, errors' = errors PROVE Matched(m)'
  BY <1>2, <1>3, <1>5, MatchedElsewhere DEF AttachedInv, Writing
<1>6. CASE \E f \in Files : StartDelete(f)
  BY <1>5, <1>6 DEF StartDelete
<1>7. CASE DeleteRecords
  <2> DEFINE d == Phases[task.phase]
  <2>1. d \notin {"attachments", "blobs"}
    BY <1>1, <1>7, RemoveTask, PhaseLemma DEF DeleteRecords
  <2>2. \A h \in Owned(task.file, d) : h \in Files /\ Dir[h] = d
    BY DEF Owned, In
  <2> HIDE DEF d
  <2>3. CASE \E h \in Owned(task.file, d) : RemoveFile(h)
    BY <1>4, <2>1, <2>2, <2>3
  <2>4. CASE UNCHANGED <<disk, errors>>
    BY <1>5, <2>4
  <2> QED BY <1>7, <2>3, <2>4 DEF DeleteRecords, d
<1>8. CASE DeleteLast
  <2>1. task.file \in Files /\ Dir[task.file] \notin {"attachments", "blobs"}
    BY <1>1, <1>8, RemoveTask DEF DeleteLast
  <2> QED BY <1>4, <1>8, <2>1 DEF DeleteLast
<1> QED BY <1>6, <1>7, <1>8

LEMMA AttachedOther ==
  ASSUME TypeOK, StageInv, AttachedInv,
         (\E f \in Files, v \in Contents : SaveRecord(f, v)) \/ Crash \/ Sweep \/ UNCHANGED vars
  PROVE  AttachedInv'
<1>1. task \in Tasks /\ errors \in Nat /\ disk \in [Files -> Triple]
  BY DEF TypeOK
<1>2. SUFFICES ASSUME errors' = 0, NEW m \in In("attachments") PROVE Matched(m)'
  BY DEF AttachedInv, In
<1> DEFINE b == BlobOf[m]
<1>3. ASSUME NEW f \in Files, NEW v \in Contents, SaveRecord(f, v) PROVE Matched(m)'
  <2>1. sweep = {} /\ task = Rest /\ disk' = disk /\ errors = 0 /\ Dir[f] # "blobs"
    BY <1>2, <1>3 DEF SaveRecord
  <2>2. CASE f = m
    <3>1. disk[m].main = Absent /\ task' = Write(b, v, "temp")
      BY <1>3, <2>2, AttachmentFiles DEF SaveRecord, Admitted, NotThere
    <3>2. Clean(m)
      BY <2>1, RestLemma, AttachmentFiles DEF StageInv, Writing
    <3>3. disk'[m] = NoFile
      BY <1>1, <2>1, <3>1, <3>2, AttachmentFiles DEF Clean, NoFile, Triple
    <3>4. ~Writing(m)'
      BY <3>1, AttachmentFiles DEF Writing, Write
    <3> QED BY <3>3, <3>4 DEF Matched
  <2>3. CASE f # m
    <3>1. ~Writing(m)' /\ ~Writing(b)'
      <4>1. CASE Dir[f] = "attachments"
        <5>1. task' = Write(BlobOf[f], v, "temp") /\ BlobOf[f] # m /\ BlobOf[f] # b
          BY <1>3, <2>3, <4>1, AttachmentFiles, FileStoreAssumption DEF SaveRecord
        <5> QED BY <5>1 DEF Writing, Write
      <4>2. CASE Dir[f] # "attachments"
        BY <1>3, <2>1, <4>2, AttachmentFiles DEF SaveRecord, Writing, Write
      <4> QED BY <4>1, <4>2
    <3> QED BY <2>1, <3>1, MatchedElsewhere DEF AttachedInv
  <2> QED BY <2>2, <2>3
<1>4. CASE Crash
  <2> DEFINE f == task.file
  <2>1. /\ task' = Rest /\ errors = 0
        /\ \/ disk' = disk
           \/ task.op = "write" /\ task.stage = "temp" /\ disk' = [disk EXCEPT ![f].tmp = Torn]
    BY <1>2, <1>4 DEF Crash
  <2>2. Matched(m) /\ ~Writing(m)' /\ ~Writing(b)'
    BY <2>1, RestLemma DEF AttachedInv, Writing
  <2>3. CASE disk' = disk
    BY <2>2, <2>3, MatchedElsewhere
  <2>4. CASE task.op = "write" /\ task.stage = "temp" /\ disk' = [disk EXCEPT ![f].tmp = Torn]
    <3>1. f \in Files /\ \A g \in Files : g # f => disk'[g] = disk[g]
      BY <1>1, <2>4, WriteTask
    <3>2. CASE f = m
      <4>1. /\ disk'[m].main = disk[m].main /\ disk'[m].bak = disk[m].bak
            /\ disk'[m].tmp = Torn /\ disk'[b] = disk[b] /\ Writing(m)
        BY <1>1, <2>4, <3>1, <3>2, AttachmentFiles DEF Triple, Writing
      <4> QED BY <2>2, <4>1 DEF Matched
    <3>3. CASE f = b
      <4>1. disk[m] = NoFile /\ disk'[m] = disk[m]
        BY <2>2, <2>4, <3>1, <3>3, AttachmentFiles DEF Matched, Writing
      <4> QED BY <2>2, <4>1 DEF Matched
    <3>4. CASE f \notin {m, b}
      BY <2>2, <3>1, <3>4, AttachmentFiles, MatchedElsewhere
    <3> QED BY <3>2, <3>3, <3>4
  <2> QED BY <2>1, <2>3, <2>4
<1>5. CASE Sweep
  <2>1. PICK f \in sweep :
          /\ sweep' = sweep \ {f}
          /\ \/ disk' = [disk EXCEPT ![f] = Reconciled(@)] /\ UNCHANGED errors
             \/ Fails /\ UNCHANGED disk
    BY <1>5 DEF Sweep
  <2>2. task = Rest /\ task' = Rest
    BY <1>5, <2>1 DEF StageInv, Sweep
  <2>3. disk' = [disk EXCEPT ![f] = Reconciled(@)] /\ f \in Files /\ errors = 0
    BY <1>1, <1>2, <2>1, ErrorLemma DEF TypeOK, SweptFiles
  <2>4. Matched(m) /\ ~Writing(m)' /\ ~Writing(b)'
    BY <2>2, <2>3, RestLemma DEF AttachedInv, Writing
  <2>5. \A g \in Files : g # f => disk'[g] = disk[g]
    BY <1>1, <2>3
  <2>6. CASE f = m
    <3>1. disk'[b] = disk[b] /\ disk'[m] = Reconciled(disk[m])
      BY <1>1, <2>3, <2>5, <2>6, AttachmentFiles
    <3>2. /\ disk'[m].main \in {disk[m].main, disk[m].tmp, disk[m].bak}
          /\ disk'[m].tmp = Absent /\ disk'[m].bak = Absent
      BY <3>1 DEF Reconciled, NoFile
    <3>3. CASE disk[m] = NoFile
      <4>1. disk'[m] = NoFile
        BY <3>1, <3>3 DEF Reconciled, NoFile
      <4> QED BY <2>4, <4>1 DEF Matched
    <3>4. CASE disk[m] # NoFile
      BY <2>4, <3>1, <3>2, <3>4 DEF Matched
    <3> QED BY <3>3, <3>4
  <2>7. CASE f = b
    <3>1. disk'[m] = disk[m] /\ disk'[b] = Reconciled(disk[b])
      BY <1>1, <2>3, <2>5, <2>7, AttachmentFiles
    <3>2. disk[b].main \in Contents => disk'[b].main = disk[b].main
      BY <3>1, FileStoreAssumption DEF Reconciled, NoFile
    <3> QED BY <2>4, <3>1, <3>2 DEF Matched
  <2>8. CASE f \notin {m, b}
    BY <2>4, <2>5, <2>8, AttachmentFiles, MatchedElsewhere
  <2> QED BY <2>6, <2>7, <2>8
<1>6. CASE UNCHANGED vars
  BY <1>2, <1>6 DEF vars, AttachedInv, Matched, Writing
<1> QED BY <1>3, <1>4, <1>5, <1>6

LEMMA AttachedStep == TypeOK /\ StageInv /\ AttachedInv /\ [Next]_vars => AttachedInv'
  BY AttachedWrite, AttachedEnd, AttachedRemove, AttachedOther DEF Next

-----------------------------------------------------------------------------
(* A call that fails loses nothing.                                         *)

\* At most one call has failed, and was noticed; the program has not died.
Mild == errors <= 1 /\ crashes = 0 /\ ~lost

\* While a record is written, what it held is under one of two names.
Held(d) ==
  \/ task.stage = "temp" /\ d.main = task.old /\ d.bak = Absent
  \/ task.stage = "backup" /\ d.main = task.old /\ d.tmp = task.value /\ d.bak = Absent
  \/ task.stage = "swap" /\ d.main = Absent /\ d.tmp = task.value /\ d.bak = task.old
  \/ task.stage = "clean" /\ d.main = task.value /\ d.bak = task.old
  \/ task.stage = "metadata" /\ d.main = task.value /\ d.bak = Absent
       /\ acked[task.file] = task.value
  \/ task.stage = "undo" /\ errors = 1 /\ d.main = task.old /\ d.bak = Absent
  \/ task.stage = "undo" /\ errors = 1 /\ d.bak = task.old /\ task.old # Absent

\* The files of an attachment are written where there is none.
Fresh ==
  /\ Dir[task.file] \in {"attachments", "blobs"} /\ task.stage # "metadata" => task.old = Absent
  /\ \A m \in In("attachments") : BlobOf[m] = task.file => disk[m].main = Absent

Kept(f) == disk[f].main = acked[f] /\ disk[f].bak = Absent

HeldInv ==
  Mild =>
    /\ sweep = {}
    /\ task.op = "write" =>
         /\ Held(disk[task.file]) /\ Fresh
         /\ task.stage # "metadata" => task.old = acked[task.file]
    /\ \A f \in Files : Writing(f) \/ Kept(f)

LEMMA MildLemma ==
  ASSUME TypeOK, [Next]_vars, Mild'
  PROVE  /\ Mild /\ errors \in Nat /\ errors' \in Nat /\ (Fails => errors = 0 /\ errors' = 1)
         /\ ~Crash /\ crashes' = crashes
<1>1. errors \in Nat /\ crashes \in Nat /\ errors' \in Nat
  BY TypeStep DEF TypeOK
<1>2. errors <= errors' /\ crashes' = crashes /\ (lost => lost')
  <2>1. ASSUME NEW f \in Files, RemoveFile(f) PROVE errors <= errors'
    BY <1>1, <2>1 DEF RemoveFile, Fails
  <2>2. CASE DeleteRecords \/ DeleteLast
    <3>1. \/ errors' = errors \/ \E f : RemoveFile(f)
      BY <2>2 DEF DeleteRecords, DeleteLast
    <3>2. ASSUME NEW f, RemoveFile(f) PROVE errors <= errors'
      BY <1>1, <3>2 DEF RemoveFile, Fails
    <3> QED BY <1>1, <2>2, <3>1, <3>2 DEF DeleteRecords, DeleteLast
  <2>3. CASE WriteTemp \/ RenameToBackup \/ RenameTemp \/ RemoveBackup \/ WriteMetadata \/ Undo
    BY <1>1, <2>3 DEF WriteTemp, RenameToBackup, RenameTemp, RemoveBackup, WriteMetadata, Undo,
                      Keep, Fails
  <2>4. CASE \/ \E f \in Files, v \in Contents : SaveRecord(f, v)
             \/ \E f \in Files : StartDelete(f)
    BY <1>1, <2>4 DEF SaveRecord, StartDelete
  <2>5. CASE Sweep
    BY <1>1, <2>5 DEF Sweep, Fails
  <2>6. CASE Crash
    BY <1>1, <2>6 DEF Crash, Mild
  <2>7. CASE UNCHANGED vars
    BY <1>1, <2>7 DEF vars
  <2> QED BY <2>2, <2>3, <2>4, <2>5, <2>6, <2>7 DEF Next
<1> QED BY <1>1, <1>2 DEF Mild, Fails, Crash

LEMMA HeldInit == Init => HeldInv
<1> SUFFICES ASSUME Init PROVE HeldInv
  OBVIOUS
<1> QED BY RestLemma DEF Init, HeldInv, Kept, NoFile

LEMMA HeldWrite ==
  ASSUME TypeOK, HeldInv, Next, WriteTemp \/ RenameToBackup \/ RenameTemp
  PROVE  HeldInv'
<1> SUFFICES ASSUME Mild' PROVE HeldInv'
  BY DEF HeldInv
<1> DEFINE f == task.file
<1>1. Mild /\ errors \in Nat /\ (Fails => errors = 0 /\ errors' = 1)
  BY MildLemma
<1>2. task \in Tasks /\ task.op = "write" /\ disk \in [Files -> Triple] /\ task.stage # "metadata"
  BY DEF TypeOK, WriteTemp, RenameToBackup, RenameTemp
<1>3. f \in Files /\ task.value \in Contents /\ task.old \in Marks /\ task.value # Absent
  BY <1>2, WriteTask, FileStoreAssumption
<1>4. Held(disk[f]) /\ Fresh /\ task.old = acked[f] /\ sweep = {}
  BY <1>1, <1>2 DEF HeldInv
<1>5. \E stage \in {"backup", "swap", "clean", "undo"} : Goto(stage)
  BY DEF WriteTemp, RenameToBackup, RenameTemp
<1>6. /\ task' \in Tasks /\ task'.op = "write" /\ task'.file = f /\ task'.old = task.old
      /\ task'.value = task.value /\ task'.stage # "metadata"
  BY <1>2, <1>5, GotoLemma DEF Stages
<1>7. /\ \A g \in Files : g # f => disk'[g] = disk[g]
      /\ sweep' = {} /\ acked' = acked
  BY <1>2, <1>4 DEF WriteTemp, RenameToBackup, Renamed, RenameTemp, Keep
<1>8. Held(disk[f])'
  <2>1. CASE WriteTemp
    <3>1. disk[f].main = task.old /\ disk[f].bak = Absent
      BY <1>4, <2>1 DEF Held, WriteTemp
    <3>2. CASE disk' = [disk EXCEPT ![f].tmp = task.value] /\ Goto("backup")
      <4>1. task'.stage = "backup"
        BY <1>2, <3>2, GotoLemma DEF Stages
      <4>2. disk'[f].main = disk[f].main /\ disk'[f].bak = disk[f].bak /\ disk'[f].tmp = task.value
        BY <1>2, <1>3, <3>2 DEF Triple
      <4> QED BY <1>6, <3>1, <4>1, <4>2 DEF Held
    <3>3. CASE Fails /\ disk' \in {disk, [disk EXCEPT ![f].tmp = Absent]} /\ Goto("undo")
      <4>1. task'.stage = "undo"
        BY <1>2, <3>3, GotoLemma DEF Stages
      <4>2. disk'[f].main = disk[f].main /\ disk'[f].bak = disk[f].bak
        BY <1>2, <1>3, <3>3 DEF Triple
      <4> QED BY <1>1, <1>6, <3>1, <3>3, <4>1, <4>2 DEF Held
    <3> QED BY <2>1, <3>2, <3>3 DEF WriteTemp, Mild
  <2>2. CASE RenameToBackup
    <3>1. disk[f].main = task.old /\ disk[f].tmp = task.value /\ disk[f].bak = Absent
      BY <1>4, <2>2 DEF Held, RenameToBackup
    <3>2. CASE disk' = Renamed(f) /\ Goto("swap")
      <4>1. task'.stage = "swap"
        BY <1>2, <3>2, GotoLemma DEF Stages
      <4>2. /\ disk'[f].main = Absent /\ disk'[f].tmp = disk[f].tmp
            /\ disk'[f].bak = task.old
        <5>1. CASE disk[f].main = Absent
          BY <3>1, <3>2, <5>1 DEF Renamed
        <5>2. CASE disk[f].main # Absent
          <6>1. disk' = [disk EXCEPT ![f].bak = disk[f].main, ![f].main = Absent]
            BY <3>2, <5>2 DEF Renamed
          <6> QED BY <1>2, <1>3, <3>1, <6>1 DEF Triple
        <5> QED BY <5>1, <5>2
      <4> QED BY <1>6, <3>1, <4>1, <4>2 DEF Held
    <3>3. CASE Fails /\ disk' = disk /\ Goto("undo")
      <4>1. task'.stage = "undo"
        BY <1>2, <3>3, GotoLemma DEF Stages
      <4> QED BY <1>1, <1>6, <3>1, <3>3, <4>1 DEF Held
    <3> QED BY <2>2, <3>2, <3>3 DEF RenameToBackup
  <2>3. CASE RenameTemp
    <3>1. disk[f].main = Absent /\ disk[f].tmp = task.value /\ disk[f].bak = task.old
      BY <1>4, <2>3 DEF Held, RenameTemp
    <3>2. CASE disk' = [disk EXCEPT ![f].main = disk[f].tmp, ![f].tmp = Absent] /\ Goto("clean")
      <4>1. task'.stage = "clean"
        BY <1>2, <3>2, GotoLemma DEF Stages
      <4>2. disk'[f].main = disk[f].tmp /\ disk'[f].bak = disk[f].bak
        BY <1>2, <1>3, <3>2 DEF Triple
      <4> QED BY <1>6, <3>1, <4>1, <4>2 DEF Held
    <3>3. CASE Fails /\ disk' = disk /\ Goto("undo")
      <4>1. task'.stage = "undo"
        BY <1>2, <3>3, GotoLemma DEF Stages
      <4>2. CASE task.old = Absent
        BY <1>1, <1>6, <3>1, <3>3, <4>1, <4>2 DEF Held
      <4>3. CASE task.old # Absent
        BY <1>1, <1>6, <3>1, <3>3, <4>1, <4>3 DEF Held
      <4> QED BY <4>2, <4>3
    <3> QED BY <2>3, <3>2, <3>3 DEF RenameTemp
  <2> QED BY <2>1, <2>2, <2>3
<1>9. Fresh'
  <2>1. ASSUME NEW m \in In("attachments"), BlobOf[m] = f PROVE disk'[m].main = Absent
    <3>1. disk'[m] = disk[m]
      BY <1>7, <2>1, AttachmentFiles
    <3> QED BY <1>4, <2>1, <3>1 DEF Fresh
  <2> QED BY <1>2, <1>4, <1>6, <2>1 DEF Fresh, In
<1>10. \A g \in Files : Writing(g)' \/ Kept(g)'
  BY <1>1, <1>6, <1>7 DEF HeldInv, Writing, Kept
<1> QED BY <1>4, <1>6, <1>7, <1>8, <1>9, <1>10 DEF HeldInv

LEMMA HeldEnd ==
  ASSUME TypeOK, HeldInv, Next, RemoveBackup \/ WriteMetadata \/ Undo
  PROVE  HeldInv'
<1> SUFFICES ASSUME Mild' PROVE HeldInv'
  BY DEF HeldInv
<1> DEFINE f == task.file
<1>1. Mild /\ errors \in Nat /\ (Fails => errors = 0 /\ errors' = 1)
  BY MildLemma
<1>2. task \in Tasks /\ task.op = "write" /\ disk \in [Files -> Triple]
      /\ acked \in [Files -> Contents \cup {Absent}]
  BY DEF TypeOK, RemoveBackup, WriteMetadata, Undo
<1>3. f \in Files /\ task.value \in Contents /\ task.old \in Marks /\ task.value # Absent
  BY <1>2, WriteTask, FileStoreAssumption
<1>4. /\ Held(disk[f]) /\ Fresh /\ sweep = {} /\ sweep' = {}
      /\ task.stage # "metadata" => task.old = acked[f]
      /\ \A g \in Files : g # f => Kept(g)
  BY <1>1, <1>2 DEF HeldInv, RemoveBackup, WriteMetadata, Undo, Keep, Writing
<1>5. CASE RemoveBackup
  <2>1. disk[f].main = task.value /\ disk[f].bak = task.old
    BY <1>4, <1>5 DEF Held, RemoveBackup
  <2>2. CASE disk' = [disk EXCEPT ![f].bak = Absent] /\ Ack(f, task.value)
    <3>1. /\ disk'[f].main = task.value /\ disk'[f].bak = Absent /\ acked'[f] = task.value
          /\ \A g \in Files : g # f => disk'[g] = disk[g] /\ acked'[g] = acked[g]
      BY <1>2, <1>3, <2>1, <2>2 DEF Triple, Ack
    <3>2. \A g \in Files : Kept(g)'
      BY <1>4, <3>1 DEF Kept
    <3>3. CASE task' = Rest
      BY <1>4, <3>2, <3>3, RestLemma DEF HeldInv
    <3>4. CASE Goto("metadata")
      <4>1. task'.op = "write" /\ task'.file = f /\ task'.value = task.value
            /\ task'.stage = "metadata"
        BY <1>2, <3>4, GotoLemma DEF Stages
      <4>2. Held(disk[f])'
        BY <3>1, <4>1 DEF Held
      <4>3. Fresh'
        <5>1. ASSUME NEW m \in In("attachments"), BlobOf[m] = f PROVE disk'[m].main = Absent
          <6>1. disk'[m] = disk[m]
            BY <3>1, <5>1, AttachmentFiles
          <6> QED BY <1>4, <5>1, <6>1 DEF Fresh
        <5> QED BY <4>1, <5>1 DEF Fresh, In
      <4> QED BY <1>4, <3>2, <4>1, <4>2, <4>3 DEF HeldInv
    <3>5. task' = Rest \/ Goto("metadata")
      BY <1>3, <1>5, <2>2, <3>1, <2>1, <1>2 DEF RemoveBackup
    <3> QED BY <3>3, <3>4, <3>5
  <2>3. CASE disk[f].bak # Absent /\ Fails /\ Goto("undo") /\ UNCHANGED <<disk, acked>>
    <3>1. task'.op = "write" /\ task'.file = f /\ task'.old = task.old /\ task'.stage = "undo"
      BY <1>2, <2>3, GotoLemma DEF Stages
    <3>2. Held(disk[f])'
      BY <1>1, <2>1, <2>3, <3>1 DEF Held
    <3>3. Fresh' /\ task.old = acked[f]
      BY <1>4, <1>5, <2>3, <3>1 DEF Fresh, In, RemoveBackup
    <3> QED BY <1>4, <2>3, <3>1, <3>2, <3>3 DEF HeldInv, Kept, Writing
  <2> QED BY <1>5, <2>2, <2>3 DEF RemoveBackup
<1>6. CASE WriteMetadata
  <2>1. PICK m \in In("attachments") : BlobOf[m] = f /\ task' = Write(m, task.value, "temp")
    BY <1>6 DEF WriteMetadata
  <2>2. disk' = disk /\ acked' = acked /\ task.stage = "metadata"
    BY <1>6 DEF WriteMetadata, Keep
  <2>3. m \in Files /\ m # f /\ Dir[m] = "attachments"
    BY <2>1, AttachmentFiles
  <2>4. /\ task'.op = "write" /\ task'.file = m /\ task'.old = disk[m].main
        /\ task'.stage = "temp"
    BY <2>1 DEF Write
  <2>5. disk[m].main = Absent /\ Kept(m)
    BY <1>4, <2>1, <2>3 DEF Fresh
  <2>6. Held(disk[m])' /\ task'.old = acked[m]
    BY <2>2, <2>4, <2>5 DEF Held, Kept
  <2>7. Fresh'
    BY <2>3, <2>4, <2>5, AttachmentFiles DEF Fresh, In
  <2>8. Kept(f)
    BY <1>4, <2>2 DEF Held, Kept
  <2> QED BY <1>4, <2>2, <2>4, <2>6, <2>7, <2>8 DEF HeldInv, Kept, Writing
<1>7. CASE Undo
  <2>1. /\ task.stage = "undo" /\ task' = Rest /\ errors = 1
        /\ \/ disk[f].main = task.old /\ disk[f].bak = Absent
           \/ disk[f].bak = task.old /\ task.old # Absent
    BY <1>4, <1>7 DEF Held, Undo
  <2>2. ~Fails
    BY <1>1, <2>1
  <2>3. /\ disk' = Undone(f)
        /\ acked' = IF Dir[f] = "attachments" THEN [acked EXCEPT ![BlobOf[f]] = Absent] ELSE acked
    BY <1>7, <2>2 DEF Undo
  <2>4. acked[f] = task.old
    BY <1>4, <2>1
  <2>5. ASSUME NEW g \in Files PROVE Kept(g)'
    <3>1. CASE Dir[f] = "attachments"
      <4>1. Kept(f)
        BY <1>4, <2>1, <2>4, <3>1 DEF Fresh, Kept
      <4>2. BlobOf[f] \in Files /\ disk' = [disk EXCEPT ![BlobOf[f]].main = Absent]
            /\ acked' = [acked EXCEPT ![BlobOf[f]] = Absent]
        BY <1>3, <2>3, <3>1, FileStoreAssumption DEF Undone
      <4>3. Kept(g)
        BY <1>4, <4>1
      <4> QED BY <1>2, <4>2, <4>3 DEF Kept, Triple
    <3>2. CASE Dir[f] = "blobs"
      <4>1. Kept(f)
        BY <1>4, <2>1, <2>4, <3>2 DEF Fresh, Kept
      <4>2. disk' = disk /\ acked' = acked
        BY <2>3, <3>2 DEF Undone
      <4> QED BY <1>4, <4>1, <4>2 DEF Kept
    <3>3. CASE Dir[f] \notin {"attachments", "blobs"}
      <4>1. disk' = RestoreFromBackup(f) /\ acked' = acked
        BY <2>3, <3>3 DEF Undone
      <4>2. CASE disk[f].bak = Absent
        BY <1>4, <2>1, <2>4, <4>1, <4>2 DEF RestoreFromBackup, Kept
      <4>3. CASE disk[f].bak # Absent
        <5>1. disk' = [disk EXCEPT ![f].main = disk[f].bak, ![f].bak = Absent]
          BY <4>1, <4>3 DEF RestoreFromBackup
        <5>2. g # f => disk'[g] = disk[g]
          BY <1>2, <5>1
        <5>3. disk'[f].main = task.old /\ disk'[f].bak = Absent
          BY <1>2, <1>3, <2>1, <4>3, <5>1 DEF Triple
        <5> QED BY <1>4, <2>4, <4>1, <5>2, <5>3 DEF Kept
      <4> QED BY <4>2, <4>3
    <3> QED BY <3>1, <3>2, <3>3
  <2> QED BY <1>4, <2>1, <2>5, RestLemma DEF HeldInv
<1> QED BY <1>5, <1>6, <1>7

LEMMA HeldRemove ==
  ASSUME TypeOK, HeldInv, Next, (\E f \in Files : StartDelete(f)) \/ DeleteRecords \/ DeleteLast
  PROVE  HeldInv'
<1> SUFFICES ASSUME Mild' PROVE HeldInv'
  BY DEF HeldInv
<1>1. task \in Tasks /\ task.op # "write" /\ disk \in [Files -> Triple]
      /\ acked \in [Files -> Contents \cup {Absent}]
  BY RestLemma DEF TypeOK, StartDelete, DeleteRecords, DeleteLast
<1>2. task'.op # "write"
  <2>1. CASE \E f \in Files : StartDelete(f)
    BY <1>1, <2>1 DEF StartDelete, Removal
  <2>2. CASE DeleteRecords
    <3>1. task' = Rest \/ task' = task \/ task' = [task EXCEPT !.phase = @ + 1]
      BY <2>2 DEF DeleteRecords
    <3>2. [task EXCEPT !.phase = @ + 1].op = task.op
      BY <2>2, RemoveTask DEF DeleteRecords, TypeOK
    <3> QED BY <1>1, <3>1, <3>2, RestLemma
  <2>3. CASE DeleteLast
    BY <2>3, RestLemma DEF DeleteLast
  <2> QED BY <2>1, <2>2, <2>3
<1>3. /\ Mild /\ sweep = {} /\ sweep' = {} /\ \A g \in Files : Kept(g)
  BY <1>1, MildLemma DEF HeldInv, Writing, StartDelete, DeleteRecords, DeleteLast
<1>4. ASSUME NEW h \in Files, RemoveFile(h) PROVE \A g \in Files : Kept(g)'
  <2>1. \/ disk' = [disk EXCEPT ![h].main = Absent] /\ acked' = [acked EXCEPT ![h] = Absent]
        \/ UNCHANGED <<disk, acked>>
    BY <1>4 DEF RemoveFile, Ack
  <2> QED BY <1>1, <1>3, <2>1 DEF Kept, Triple
<1>5. ASSUME UNCHANGED <<disk, acked>> PROVE \A g \in Files : Kept(g)'
  BY <1>3, <1>5 DEF Kept
<1>6. \A g \in Files : Kept(g)'
  <2>1. CASE \E f \in Files : StartDelete(f)
    BY <1>5, <2>1 DEF StartDelete
  <2>2. CASE DeleteRecords
    BY <1>4, <1>5, <2>2 DEF DeleteRecords, Owned, In
  <2>3. CASE DeleteLast
    <3>1. task.file \in Files
      BY <1>1, <2>3, RemoveTask DEF DeleteLast
    <3> QED BY <1>4, <2>3, <3>1 DEF DeleteLast
  <2> QED BY <2>1, <2>2, <2>3
<1> QED BY <1>2, <1>3, <1>6 DEF HeldInv

LEMMA HeldSave ==
  ASSUME TypeOK, HeldInv, Next, NEW f \in Files, NEW v \in Contents, SaveRecord(f, v)
  PROVE  HeldInv'
<1> SUFFICES ASSUME Mild' PROVE HeldInv'
  BY DEF HeldInv
<1>1. /\ sweep = {} /\ sweep' = {} /\ task = Rest /\ disk' = disk /\ acked' = acked
      /\ Dir[f] # "blobs" /\ Admitted(f)
  BY DEF SaveRecord
<1>2. Mild /\ \A g \in Files : Kept(g)
  BY <1>1, MildLemma, RestLemma DEF HeldInv, Writing
<1> DEFINE h == IF Dir[f] = "attachments" THEN BlobOf[f] ELSE f
<1>3. h \in Files /\ task' = Write(h, v, "temp")
  BY FileStoreAssumption DEF SaveRecord
<1>4. Dir[f] = "attachments" => disk[f].main = Absent /\ disk[h].main = Absent
  BY <1>1 DEF Admitted, NotThere
<1>5. Dir[h] \in {"attachments", "blobs"} => Dir[f] = "attachments"
  BY <1>1
<1>6. \A m \in In("attachments") : BlobOf[m] = h => m = f /\ Dir[f] = "attachments"
  BY <1>1, AttachmentFiles, FileStoreAssumption
<1> HIDE DEF h
<1>7. /\ task'.op = "write" /\ task'.file = h /\ task'.old = disk[h].main /\ task'.stage = "temp"
  BY <1>3 DEF Write
<1>8. Held(disk[h])' /\ task'.old = acked[h]
  BY <1>1, <1>2, <1>3, <1>7 DEF Held, Kept
<1>9. Fresh'
  BY <1>1, <1>4, <1>5, <1>6, <1>7 DEF Fresh, In
<1> QED BY <1>1, <1>2, <1>7, <1>8, <1>9 DEF HeldInv, Kept

LEMMA HeldStep == TypeOK /\ HeldInv /\ [Next]_vars => HeldInv'
<1> SUFFICES ASSUME TypeOK, HeldInv, [Next]_vars PROVE HeldInv'
  OBVIOUS
<1>1. CASE Crash
  BY <1>1, MildLemma DEF HeldInv
<1>2. CASE Sweep
  <2>1. ASSUME Mild' PROVE FALSE
    BY <1>2, <2>1, MildLemma DEF HeldInv, Sweep
  <2> QED BY <2>1 DEF HeldInv
<1>3. CASE UNCHANGED vars
  BY <1>3 DEF vars, HeldInv, Mild, Held, Fresh, Kept, Writing, In
<1> QED BY <1>1, <1>2, <1>3, HeldWrite, HeldEnd, HeldRemove, HeldSave DEF Next

-----------------------------------------------------------------------------
(* The theorems.                                                            *)

IInv == TypeOK /\ StageInv /\ RemovalInv /\ SavedInv /\ AttachedInv /\ HeldInv

LEMMA Inductive == Spec => []IInv
<1>1. Init => IInv
  <2> SUFFICES ASSUME Init PROVE IInv
    OBVIOUS
  <2>1. TypeOK /\ HeldInv
    BY TypeInit, HeldInit
  <2>2. task = Rest /\ sweep = {} /\ disk = [f \in Files |-> NoFile]
    BY DEF Init
  <2>3. StageInv
    BY <2>2, RestLemma DEF StageInv, Clean, NoFile, SweptFiles
  <2>4. RemovalInv
    BY <2>2, RestLemma DEF RemovalInv
  <2>5. SavedInv
    BY <2>2, RestLemma DEF Init, SavedInv, Saved, Writing, Recovered, Reconciled, NoFile, SweptFiles
  <2>6. AttachedInv
    BY <2>2, RestLemma DEF AttachedInv, Matched, Writing, In
  <2> QED BY <2>1, <2>3, <2>4, <2>5, <2>6 DEF IInv
<1>2. IInv /\ [Next]_vars => IInv'
  BY TypeStep, StageStep, RemovalStep, SavedStep, AttachedStep, HeldStep DEF IInv
<1> QED BY <1>1, <1>2, PTL DEF Spec

\* Every state has the types the module gives its variables
\* (FileDocumentRepository).
THEOREM TypeCorrect == Spec => []TypeOK
  BY Inductive, PTL DEF IInv

\* However often the program dies, a record reads as the last save or delete that
\* succeeded left it, or as a later save that was cut off; and one call of the
\* file system that fails and is noticed changes no record
\* (WriteFileAtomically, RestoreFromBackup, ReconcileInterruptedWrite).
THEOREM SavedCorrect == Spec => []SavedSurvives
<1>1. IInv => SavedSurvives
  <2> SUFFICES ASSUME IInv, task = Rest, sweep = {} PROVE SavedSurvives
    BY DEF SavedSurvives, Settled
  <2>1. ASSUME errors = 0, NEW f \in SweptFiles
        PROVE  disk[f].main \in {acked[f]} \cup tried[f]
    <3>1. Recovered(f) = disk[f].main
      BY <2>1, RestLemma, SettledLemma DEF IInv, StageInv, Writing
    <3> QED BY <2>1, <3>1, RestLemma DEF IInv, SavedInv, Saved, Writing
  <2>2. ASSUME errors <= 1, crashes = 0, ~lost, NEW f \in Files
        PROVE  disk[f].main = acked[f]
    BY <2>2, RestLemma DEF IInv, HeldInv, Mild, Writing, Kept
  <2> QED BY <2>1, <2>2 DEF SavedSurvives
<1> QED BY <1>1, Inductive, PTL

\* An attachment whose metadata can be read has its bytes, whatever crash came
\* between the two files (SaveAttachment).
THEOREM AttachmentCorrect == Spec => []AttachmentIsComplete
<1>1. IInv => AttachmentIsComplete
  <2> SUFFICES ASSUME IInv, errors = 0, NEW m \in In("attachments"), Readable(m)
               PROVE  LoadAttachment(m)
    BY DEF AttachmentIsComplete
  <2>1. Matched(m) /\ disk[m].main \notin {Absent, Torn}
    BY DEF IInv, AttachedInv, Readable
  <2>2. disk[m] # NoFile
    BY <2>1 DEF NoFile
  <2>3. disk[m].main = disk[BlobOf[m]].main
    BY <2>1, <2>2 DEF Matched
  <2> QED BY <2>3 DEF LoadAttachment
<1> QED BY <1>1, Inductive, PTL

\* As long as the file system works, the files are a table of records whose saves
\* happen at one moment (FileDocumentRepository, LocalDocumentRepository).
THEOREM RepositoryCorrect == Spec => ImplementsRepository
<1>1. Init => R!RInit
  BY InitRefines
<1>2. IInv /\ IInv' /\ [Next]_vars => [errors' = 0 => [R!RNext]_(R!rvars)]_vars
  BY StepRefines DEF IInv
<1> QED BY <1>1, <1>2, Inductive, PTL DEF Spec, ImplementsRepository
=============================================================================
