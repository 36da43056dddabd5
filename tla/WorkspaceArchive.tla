-------------------------- MODULE WorkspaceArchive --------------------------
(***************************************************************************)
(* The backup of a workspace: one file with everything the repository has  *)
(* of it (src/src/storage/workspace_archive.cc), written and read by the   *)
(* page's Backup and Restore commands.                                     *)
(*                                                                         *)
(* Export and import run on the GUI thread from end to end and are one step*)
(* each; an error of the repository (counted in faults) ends them, or is   *)
(* only logged, where the code says so.  Between them the repository goes  *)
(* on changing, or is a new one.  Contents of records are left out but for *)
(* what ties a value to its definition; the references between them are    *)
(* not.  One workspace: every exported record passes the checks of scope.  *)
(***************************************************************************)
EXTENDS Naturals, FiniteSets

CONSTANTS
  Docs,         \* pages
  Attachments,  \* attachments
  Definitions,  \* property definitions
  Options,      \* what a definition may offer: one option at a time
  Types,        \* relation types
  MaxEdits,     \* bound on changes of the repository
  MaxFaults     \* bound on errors of the repository

ASSUME ArchiveAssumption == MaxEdits \in Nat /\ MaxFaults \in Nat

VARIABLES
  repo,     \* what the repository holds of the workspace
  archive,  \* the file, or NoArchive
  restored, \* how the last import ended
  edits, faults

vars == <<repo, archive, restored, edits, faults>>

Relation == {r \in Types \X Docs \X Docs : r[2] # r[3]}
NoArchive == [docs |-> {}, root |-> FALSE]

\* corrupted pages are there and do not load.
Empty == [root |-> FALSE, docs |-> {}, trashed |-> {}, corrupted |-> {}, conflicts |-> {},
          attachments |-> {}, definitions |-> {}, types |-> {}, values |-> {}, relations |-> {}]

Init ==
  /\ repo = [Empty EXCEPT !.root = TRUE, !.docs = Docs]
  /\ archive = NoArchive /\ restored = "none" /\ edits = 0 /\ faults = 0

-----------------------------------------------------------------------------
(* The repository changes.                                                  *)

Edit(r) == edits < MaxEdits /\ edits' = edits + 1 /\ repo' = r /\ r # repo
           /\ UNCHANGED <<archive, restored, faults>>

SaveDocument(d) == Edit([repo EXCEPT !.docs = @ \cup {d}, !.trashed = @ \ {d}])
TrashDocument(d) == d \in repo.docs /\ Edit([repo EXCEPT !.trashed = @ \cup {d}])
CorruptDocument(d) == d \in repo.docs /\ Edit([repo EXCEPT !.corrupted = @ \cup {d}])
SaveConflict(d) == d \in repo.docs /\ Edit([repo EXCEPT !.conflicts = @ \cup {d}])
SaveAttachment(a) == Edit([repo EXCEPT !.attachments = @ \cup {a}])
\* New, or with another option.  Its values stay as they are.
SavePropertyDefinition(p, o) == Edit([repo EXCEPT !.definitions = {x \in @ : x[1] # p} \cup {<<p, o>>}])
SaveRelationType(t) == Edit([repo EXCEPT !.types = @ \cup {t}])
SavePagePropertyValue(p, d, o) ==
  /\ <<p, o>> \in repo.definitions /\ d \in repo.docs
  /\ Edit([repo EXCEPT !.values = {v \in @ : <<v[1], v[2]>> # <<p, d>>} \cup {<<p, d, o>>}])
SavePageRelation(r) ==
  /\ r[1] \in repo.types /\ {r[2], r[3]} \subseteq repo.docs
  /\ Edit([repo EXCEPT !.relations = @ \cup {r}])

\* With what belongs to the page.
DeleteDocument(d) ==
  /\ d \in repo.docs \ repo.corrupted
  /\ Edit([repo EXCEPT !.docs = @ \ {d}, !.trashed = @ \ {d}, !.conflicts = @ \ {d},
                       !.values = {v \in @ : v[2] # d},
                       !.relations = {r \in @ : d \notin {r[2], r[3]}}])

\* Another installation, with nothing in it.
CleanInstall == Edit(Empty)

-----------------------------------------------------------------------------
(* ExportWorkspaceToFile.                                                   *)

\* Mutant: the pages in the trash are left out, what refers to them is not.
Exported_LiveOnly(r) == [r EXCEPT !.docs = @ \ (r.corrupted \cup r.trashed), !.trashed = {}, !.corrupted = {}]
\* Mutant: a page is written with trashed_at.
Exported_Trash(r) == [r EXCEPT !.docs = @ \ r.corrupted, !.corrupted = {}]

\* The records of the file have a field for everything but trashed_at.
Carried(r) == [r EXCEPT !.trashed = {}, !.corrupted = {}]

\* A page that does not load is left out; its own values go with it, as its
\* placeholder names no workspace, but a relation is found at its other end.
Exported(r) ==
  LET listed == r.docs \ r.corrupted IN
  [Carried(r) EXCEPT
            !.docs = listed,
            !.values = {v \in @ : v[2] \in listed},
            !.relations = {e \in @ : {e[2], e[3]} \cap listed # {}}]

\* An error of a listing or of the file ends the export; the old file may be cut.
Export ==
  /\ \/ archive' = Exported(repo) /\ UNCHANGED faults
     \/ faults < MaxFaults /\ faults' = faults + 1 /\ archive' = NoArchive
  /\ UNCHANGED <<repo, restored, edits>>

-----------------------------------------------------------------------------
(* ImportWorkspaceFromFile.                                                 *)

Ids(definitions) == {x[1] : x \in definitions}

\* Mutant: only values are looked at.
Closed_ValuesOnly(a) == \A v \in a.values : v[1] \in Ids(a.definitions) /\ v[2] \in a.docs

\* What is checked before anything is written.
Closed(a) ==
  /\ \A v \in a.values : v[1] \in Ids(a.definitions) /\ v[2] \in a.docs
  /\ \A e \in a.relations : e[1] \in a.types /\ {e[2], e[3]} \subseteq a.docs
Acceptable(a) == (a.root \/ a.docs # {}) /\ Closed(a)

Knowledge(r) == [d |-> r.definitions, t |-> r.types, v |-> r.values, e |-> r.relations]

\* The root, the pages and the conflicts; what cannot be saved is only logged.
WithPages(a, failed) ==
  [repo EXCEPT !.root = @ \/ a.root,
               !.docs = @ \cup (a.docs \ failed), !.trashed = @ \ (a.docs \ failed),
               !.corrupted = @ \ (a.docs \ failed),
               !.conflicts = @ \cup a.conflicts]

\* A record takes the place of the one with its id.
WithKnowledge(r, k) ==
  [r EXCEPT !.definitions = {x \in @ : x[1] \notin Ids(k.d)} \cup k.d,
            !.types = @ \cup k.t,
            !.values = {v \in @ : \A x \in k.v : <<v[1], v[2]>> # <<x[1], x[2]>>} \cup k.v,
            !.relations = @ \cup k.e]

\* Mutant: the knowledge records are written before the attachments.
WithAttachments_Late(r, a, S) ==
  [WithKnowledge(r, Knowledge(a)) EXCEPT !.attachments = @ \cup S]

WithAttachments(r, a, S) == [r EXCEPT !.attachments = @ \cup S]

\* Definitions, types, values, relations, in this order until one fails.
KnowledgePrefixes(a) ==
  {[d |-> D, t |-> T, v |-> V, e |-> E] :
     D \in SUBSET a.definitions, T \in SUBSET a.types, V \in SUBSET a.values,
     E \in SUBSET a.relations}
InOrder(k, a) ==
  /\ k.t # {} => k.d = a.definitions
  /\ k.v # {} => k.d = a.definitions /\ k.t = a.types
  /\ k.e # {} => k.d = a.definitions /\ k.t = a.types /\ k.v = a.values

\* Values that their definition, edited since, no longer offers: the repository
\* does not save them.
Broken(a) == {v \in a.values : <<v[1], v[3]>> \notin a.definitions}

\* Where the knowledge records end if no save fails: at the first broken value.
Endings(a) ==
  IF Broken(a) = {} THEN {Knowledge(a)}
  ELSE {k \in KnowledgePrefixes(a) : InOrder(k, a) /\ k.d = a.definitions /\ k.t = a.types
                                     /\ k.v \cap Broken(a) = {}}
Outcome(a) == IF Broken(a) = {} THEN "ok" ELSE "error"

Refused == restored' = "refused" /\ UNCHANGED <<repo, faults>>

\* An attachment the repository has already ends the import.
Aborted(a) ==
  /\ a.attachments \cap repo.attachments # {}
  /\ \E S \in SUBSET (a.attachments \ repo.attachments) :
       repo' = WithAttachments(WithPages(a, {}), a, S)
  /\ restored' = "error" /\ UNCHANGED faults

Completed(a) ==
  /\ a.attachments \cap repo.attachments = {}
  /\ \E k \in Endings(a) :
       repo' = WithKnowledge(WithAttachments(WithPages(a, {}), a, a.attachments), k)
  /\ restored' = Outcome(a) /\ UNCHANGED faults

\* One save fails: that of a page, which nobody reports, or another one.
Faulty(a) ==
  /\ faults < MaxFaults /\ faults' = faults + 1
  /\ a.attachments \cap repo.attachments = {}
  /\ \/ /\ \E d \in a.docs, k \in Endings(a) :
             repo' = WithKnowledge(WithAttachments(WithPages(a, {d}), a, a.attachments), k)
        /\ restored' = Outcome(a)
     \/ /\ \E S \in (SUBSET a.attachments) \ {a.attachments} :
             repo' = WithAttachments(WithPages(a, {}), a, S)
        /\ restored' = "error"
     \/ /\ \E k \in KnowledgePrefixes(a) \ {Knowledge(a)} :
             /\ InOrder(k, a) /\ k.v \cap Broken(a) = {}
             /\ repo' = WithKnowledge(WithAttachments(WithPages(a, {}), a, a.attachments), k)
        /\ restored' = "error"

Import ==
  /\ IF archive = NoArchive \/ ~Acceptable(archive) THEN Refused
     ELSE Aborted(archive) \/ Completed(archive) \/ Faulty(archive)
  /\ UNCHANGED <<archive, edits>>

Next ==
  \/ \E d \in Docs : \/ SaveDocument(d) \/ TrashDocument(d) \/ CorruptDocument(d)
                     \/ SaveConflict(d) \/ DeleteDocument(d)
                     \/ \E p \in Definitions, o \in Options : SavePagePropertyValue(p, d, o)
  \/ \E a \in Attachments : SaveAttachment(a)
  \/ \E p \in Definitions, o \in Options : SavePropertyDefinition(p, o)
  \/ \E t \in Types : SaveRelationType(t)
  \/ \E r \in Relation : SavePageRelation(r)
  \/ CleanInstall \/ Export \/ Import
Spec == Init /\ [][Next]_vars

-----------------------------------------------------------------------------
(* What must hold.                                                          *)

Held == [root : BOOLEAN, docs : SUBSET Docs, trashed : SUBSET Docs, corrupted : SUBSET Docs,
         conflicts : SUBSET Docs, attachments : SUBSET Attachments,
         definitions : SUBSET (Definitions \X Options), types : SUBSET Types,
         values : SUBSET (Definitions \X Docs \X Options), relations : SUBSET Relation]

\* Types; what is said of a page is said of one that is there.
TypeOK ==
  /\ repo \in Held /\ repo.trashed \cup repo.corrupted \subseteq repo.docs
  /\ archive # NoArchive => archive \in Held /\ archive.trashed \cup archive.corrupted = {}
  /\ restored \in {"none", "ok", "refused", "error"}
  /\ edits \in 0..MaxEdits /\ faults \in 0..MaxFaults

\* A workspace whose pages all load, and that has lost no save, has a backup
\* that is accepted; on a clean install the backup rebuilds what it holds, if
\* every value is one its definition still offers (ExportWorkspaceToFile,
\* ImportWorkspaceFromFile).
BackupRebuilds ==
  [][/\ Export /\ faults' = 0 /\ repo.corrupted = {} /\ (repo.root \/ repo.docs # {}) =>
          Acceptable(archive')
     /\ /\ Import /\ repo = Empty /\ faults' = faults
        /\ archive # NoArchive /\ Acceptable(archive) /\ Broken(archive) = {}
        => restored' = "ok" /\ repo' = archive]_vars

\* No value and no relation points to a page or a definition that is not there.
References(r) ==
  /\ \A v \in r.values : v[1] \in Ids(r.definitions) /\ v[2] \in r.docs
  /\ \A e \in r.relations : e[1] \in r.types /\ {e[2], e[3]} \subseteq r.docs

\* "A broken import never persists a partial knowledge graph": when the archive,
\* and not the disk, stops the import, no knowledge record has changed, if every
\* value is one its definition offers; and whatever is imported when, as long as
\* no save was lost no reference dangles.
NoPartialKnowledge ==
  [][/\ faults' = 0 => References(repo')
     /\ Import /\ faults' = faults /\ restored' # "ok"
        /\ (archive # NoArchive => Broken(archive) = {}) => Knowledge(repo') = Knowledge(repo)]_vars

\* "these saves are expected to succeed".  The code does not keep it: the check
\* before the import does not compare a value with the options of its definition.
AcceptedIsRestored ==
  [][Import /\ faults' = faults /\ restored' = "error" => archive.attachments \cap repo.attachments # {}]_vars
=============================================================================
