----------------------------- MODULE LockService -----------------------------
(***************************************************************************)
(* The backend's lock table (src/src/server/service/lock_service.cc) and   *)
(* the requests of src/src/server/handlers/lock_handler.cc.  A lock is a   *)
(* lease: it carries the time since its last heartbeat, and every request  *)
(* first prunes the locks whose lease has run out.                         *)
(***************************************************************************)
EXTENDS Naturals

CONSTANTS
  Docs,    \* document ids
  Owners,  \* user names that own locks
  Lease,   \* lock_lease_ in ticks; 0 means that locks never expire
  Free     \* no lock

VARIABLE locks  \* document -> Free, or the owner and the age of its last heartbeat

LockInfo == [owner : Owners, age : 0 .. Lease]

ASSUME LockServiceAssumption == Lease \in Nat /\ Free \notin LockInfo

NoLocks == [d \in Docs |-> Free]

\* Mutant: the test for an unlimited lease is inverted.
IsExpired_Inverted(lock) == Lease = 0 /\ lock.age >= Lease

IsExpired(lock) == Lease > 0 /\ lock.age >= Lease

\* PruneExpiredLocked.
Pruned == [d \in Docs |-> IF locks[d] # Free /\ IsExpired(locks[d]) THEN Free ELSE locks[d]]

IsOwnedBy(d, o) == Pruned[d] # Free /\ Pruned[d].owner = o

\* What each request answers.
CanAcquire(d, o) == Pruned[d] = Free \/ IsOwnedBy(d, o)
CanHeartbeat(d, o) == IsOwnedBy(d, o)
CanRelease(d, o) == IsOwnedBy(d, o)

\* What each request does to the table.
Refreshed(d, o) == [Pruned EXCEPT ![d] = [owner |-> o, age |-> 0]]
Acquire(d, o) == locks' = IF CanAcquire(d, o) THEN Refreshed(d, o) ELSE Pruned

\* Mutant: a heartbeat that does not move heartbeat_at.
Heartbeat_NoRefresh(d, o) == locks' = Pruned
Heartbeat(d, o) == locks' = IF CanHeartbeat(d, o) THEN Refreshed(d, o) ELSE Pruned
Release(d, o) == locks' = IF CanRelease(d, o) THEN [Pruned EXCEPT ![d] = Free] ELSE Pruned
ForceRelease(d) == locks' = [Pruned EXCEPT ![d] = Free]

\* Time passes; ages stop counting at the lease.
Aged(lock) == [lock EXCEPT !.age = IF @ < Lease THEN @ + 1 ELSE @]
Elapse == locks' = [d \in Docs |-> IF locks[d] = Free THEN Free ELSE Aged(locks[d])]

LocksTypeOK == locks \in [Docs -> LockInfo \cup {Free}]
=============================================================================
