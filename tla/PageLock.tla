------------------------------- MODULE PageLock -------------------------------
(***************************************************************************)
(* What pessimistic locking promises the users of one workspace            *)
(* (ADR-003-collaboration-strategy.adoc): a desktop takes the lock of a    *)
(* page while no other user has it, has one page at a time, and nobody     *)
(* else can take its lock away.  There are no leases, requests or answers  *)
(* here.  EditSession implements this module while the network is in order. *)
(***************************************************************************)
CONSTANTS
  Docs,     \* pages
  Clients,  \* desktops
  OwnerOf   \* the user of each

VARIABLE editors  \* page -> the desktops that have its lock

LInit == editors = [d \in Docs |-> {}]

Take(c, d) ==
  /\ \A e \in Docs : c \notin editors[e]
  /\ \A o \in editors[d] : OwnerOf[o] = OwnerOf[c]
  /\ editors' = [editors EXCEPT ![d] = @ \cup {c}]

GiveUp(c, d) ==
  /\ c \in editors[d]
  /\ editors' = [editors EXCEPT ![d] = @ \ {c}]

LNext == \E c \in Clients, d \in Docs : Take(c, d) \/ GiveUp(c, d)

LSpec == LInit /\ [][LNext]_editors

===============================================================================
