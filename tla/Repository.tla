----------------------------- MODULE Repository -----------------------------
(***************************************************************************)
(* What a local document repository promises its callers                   *)
(* (src/src/storage/local_document_repository.h): a table of records that  *)
(* one caller at a time changes.  A save takes effect at one moment or not *)
(* at all, and a crash cuts it off on either side of that moment; all it   *)
(* may leave behind is an unreadable record where there was none before.   *)
(* The records of a page are deleted one after the other, the page last.   *)
(* FileStore implements this module.                                       *)
(***************************************************************************)
CONSTANTS
  Files,     \* ids of records
  Pages,     \* those that are pages
  PagesOf,   \* record -> the pages it belongs to
  Contents,  \* what a record may say
  Absent,    \* no record
  Torn       \* a record nobody can read

VARIABLES
  store,   \* id -> content, Absent or Torn
  running  \* the operation that runs

rvars == <<store, running>>

Idle == [op |-> "none"]
Saving(f, old, new) == [op |-> "save", file |-> f, old |-> old, new |-> new]
Removing(S) == [op |-> "remove", files |-> S]

Owned(p) == {f \in Files : p \in PagesOf[f]}

RInit == store = [f \in Files |-> Absent] /\ running = Idle

Begin ==
  /\ running = Idle
  /\ \/ \E f \in Files, v \in Contents : running' = Saving(f, store[f], v)
     \/ \E f \in Files : running' = Removing({f})
     \/ \E p \in Pages : running' = Removing(Owned(p) \cup {p})
  /\ UNCHANGED store

\* The record is on one side of its moment or on the other.
Save ==
  /\ running.op = "save"
  /\ store' \in {[store EXCEPT ![running.file] = v] : v \in {running.old, running.new}}
  /\ running' \in {running, Idle}

Remove ==
  /\ running.op = "remove"
  /\ \E f \in running.files :
       /\ f \in Pages => \A g \in running.files \ {f} : store[g] \in {Absent, Torn}
       /\ store' = [store EXCEPT ![f] = Absent]
  /\ running' \in {running, Idle}

Finish == running.op = "remove" /\ running' = Idle /\ UNCHANGED store

Crash ==
  /\ running' = Idle
  /\ \/ UNCHANGED store
     \/ /\ running.op = "save" /\ store[running.file] = Absent
        /\ store' = [store EXCEPT ![running.file] = Torn]

RNext == Begin \/ Save \/ Remove \/ Finish \/ Crash
RSpec == RInit /\ [][RNext]_rvars
=============================================================================
