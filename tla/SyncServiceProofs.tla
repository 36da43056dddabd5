-------------------------- MODULE SyncServiceProofs --------------------------
(***************************************************************************)
(* The replicator of SyncService always belongs to the session that is     *)
(* signed in, what the service says of it is so, and the scope it works    *)
(* with is in the context file, for any sets of workspaces, scopes, users  *)
(* and tokens and under all faults.                                        *)
(*                                                                         *)
(* A step of the GUI thread passes through states in which the client has  *)
(* the new token and the service still the old one, so the invariant is    *)
(* split by object, and a lemma per function says which parts of it the    *)
(* function needs and which it establishes.                                *)
(*                                                                         *)
(* The second half goes on from Good: the service drives the repository    *)
(* only when the token or the channels have changed, so that the           *)
(* repository never keeps a replicator across a call of the service.       *)
(* After a failed promotion it does keep the old one, and this is why      *)
(* "ready" is not shown then.                                              *)
(***************************************************************************)
EXTENDS SyncService, TLAPS

\* The members of the client and of the service's inputs, which the repository's
\* functions leave alone.
SameInputs(j, k) ==
  /\ j.up = k.up /\ j.backend = k.backend /\ j.conn = k.conn
  /\ j.clientToken = k.clientToken /\ j.fetch = k.fetch /\ j.offered = k.offered
  /\ j.auth = k.auth /\ j.sync = k.sync /\ j.token = k.token
  /\ j.available = k.available /\ j.enabled = k.enabled /\ j.boot = k.boot

SameRepository(j, k) ==
  /\ j.repoToken = k.repoToken /\ j.repoBoot = k.repoBoot /\ j.dirty = k.dirty
  /\ j.status = k.status /\ j.replicator = k.replicator

-----------------------------------------------------------------------------
(* Saving and refreshing.                                                   *)

LEMMA SaveLemma ==
  ASSUME NEW k \in Desk
  PROVE  LET j == SavePersistedSyncContext(k)
         IN  j \in Desk /\ SameInputs(j, k) /\ SameRepository(j, k) /\ j.hydration = k.hydration
<1> DEFINE f == [boot |-> k.boot, hydration |-> k.hydration]
<1>1. CASE IsUsable(k.boot)
  <2>1. f \in [boot : Bootstraps, hydration : [Workspaces -> Hydration]]
    BY <1>1 DEF Desk, IsUsable, MaybeBootstrap
  <2> HIDE DEF f
  <2>2. [k EXCEPT !.file = f] \in Desk
    BY <2>1 DEF Desk
  <2>3. SavePersistedSyncContext(k) = [k EXCEPT !.file = f]
    BY <1>1 DEF SavePersistedSyncContext, f
  <2> QED BY <2>2, <2>3 DEF Desk, SameInputs, SameRepository
<1>2. CASE ~IsUsable(k.boot)
  BY <1>2 DEF SavePersistedSyncContext, SameInputs, SameRepository
<1> QED BY <1>1, <1>2

LEMMA RefreshLemma ==
  ASSUME NEW k \in Desk
  PROVE  LET j == RefreshSnapshot(k)
         IN  j \in Desk /\ SameInputs(j, k) /\ SameRepository(j, k)
<1> DEFINE hy == [w \in Workspaces |-> HydrationOf(k, w)]
           r == [k EXCEPT !.seen = k.status, !.hydration = hy]
<1>1. hy \in [Workspaces -> Hydration]
  BY DEF HydrationOf, Hydration
<1> HIDE DEF hy
<1>2. r \in Desk /\ SameInputs(r, k) /\ SameRepository(r, k)
  BY <1>1 DEF Desk, SameInputs, SameRepository
<1>3. RefreshSnapshot(k) \in {r, SavePersistedSyncContext(r)}
  BY DEF RefreshSnapshot, hy
<1> HIDE DEF r
<1> QED BY <1>2, <1>3, SaveLemma DEF SameInputs, SameRepository

LEMMA StatusLemma ==
  ASSUME NEW k \in Desk, NEW s \in {"disabled", "unavailable", "ready", "error"}
  PROVE  LET j == SetStatus(k, s)
         IN  j \in Desk /\ SameInputs(j, k) /\ SameRepository(j, k)
<1> DEFINE r == [k EXCEPT !.state = s]
<1>1. r \in Desk /\ SameInputs(r, k) /\ SameRepository(r, k)
  BY DEF Desk, SameInputs, SameRepository
<1> HIDE DEF r
<1>2. SetStatus(k, s) = RefreshSnapshot(r)
  BY DEF SetStatus, r
<1> QED BY <1>1, <1>2, RefreshLemma DEF SameInputs, SameRepository

-----------------------------------------------------------------------------
(* The repository.                                                          *)

\* A replicator has the token of the repository, and the user it stands for.
Repo(k) ==
  k.replicator # NoReplicator =>
    k.replicator.token = k.repoToken /\ k.replicator.user = UserOf[k.replicator.token]

\* The repository replicates for the service's session, or not at all.
Linked(k) == k.replicator # NoReplicator => SyncWanted(k) /\ k.repoToken = k.token

\* What the service needs before it drives the repository.
Ready(k) ==
  SyncWanted(k) =>
    k.boot # StatusOnly /\ k.token # NoToken /\ k.boot.user = UserOf[k.token]

LEMMA ResetLemma ==
  ASSUME NEW k \in Desk
  PROVE  LET j == ResetReplicator(k)
         IN  j \in Desk /\ SameInputs(j, k) /\ j.replicator = NoReplicator
             /\ j.repoToken = k.repoToken /\ j.repoBoot = k.repoBoot
  BY DEF ResetReplicator, Desk, SameInputs

LEMMA StopLemma ==
  ASSUME NEW k \in Desk
  PROVE  LET j == StopSync(k)
         IN  j \in Desk /\ SameInputs(j, k) /\ j.replicator = NoReplicator
<1> DEFINE r == ResetReplicator(k)
<1>1. r \in Desk /\ SameInputs(r, k) /\ r.replicator = NoReplicator
  BY ResetLemma
<1>2. StopSync(k) = [r EXCEPT !.status = Status("configured", "none")]
  BY DEF StopSync
<1>3. Status("configured", "none") \in SyncStatus
  BY DEF SyncStatus
<1> HIDE DEF r
<1> QED BY <1>1, <1>2, <1>3 DEF Desk, SameInputs

LEMMA TokenLemma ==
  ASSUME NEW k \in Desk, Repo(k)
  PROVE  LET j == SetSyncAccessToken(k)
         IN  j \in Desk /\ SameInputs(j, k) /\ Repo(j) /\ j.repoToken = k.token
<1>1. CASE k.repoToken = k.token
  BY <1>1 DEF SetSyncAccessToken, SameInputs
<1>2. CASE k.repoToken # k.token
  <2> DEFINE r == ResetReplicator(k)
             j == [r EXCEPT !.repoToken = k.token, !.dirty = TRUE]
  <2>1. r \in Desk /\ SameInputs(r, k) /\ r.replicator = NoReplicator
    BY ResetLemma
  <2>2. SetSyncAccessToken(k) = j
    BY <1>2 DEF SetSyncAccessToken
  <2>3. k.token \in MaybeToken
    BY DEF Desk
  <2> HIDE DEF r
  <2>4. j \in Desk
    BY <2>1, <2>3 DEF Desk
  <2>5. j.repoToken = k.token /\ j.replicator = NoReplicator /\ SameInputs(j, r)
    BY <2>1 DEF Desk, SameInputs
  <2> HIDE DEF j
  <2>6. SameInputs(j, k)
    BY <2>1, <2>5 DEF SameInputs
  <2> QED BY <2>2, <2>4, <2>5, <2>6 DEF Repo
<1> QED BY <1>1, <1>2

LEMMA BootstrapLemma ==
  ASSUME NEW k \in Desk, Repo(k), NEW j \in ApplySyncBootstrap(k)
  PROVE  j \in Desk /\ SameInputs(j, k) /\ Repo(j) /\ j.repoToken = k.repoToken
         /\ j.repoBoot = k.boot
<1> DEFINE With(st) == [k EXCEPT !.repoBoot = k.boot, !.status = st]
           applied == With(Status("configured", "none"))
           r == ResetReplicator(applied)
           d == [r EXCEPT !.dirty = TRUE]
           failed == With(Status("error", "none"))
<1>1. ASSUME NEW st \in SyncStatus
      PROVE  With(st) \in Desk /\ SameInputs(With(st), k) /\ Repo(With(st))
             /\ With(st).repoToken = k.repoToken /\ With(st).repoBoot = k.boot
  <2>1. k.boot \in MaybeBootstrap
    BY DEF Desk
  <2>2. With(st) \in Desk
    BY <2>1 DEF Desk
  <2>3. SameInputs(With(st), k) /\ With(st).repoToken = k.repoToken
        /\ With(st).repoBoot = k.boot /\ With(st).replicator = k.replicator
    BY DEF Desk, SameInputs
  <2> HIDE DEF With
  <2> QED BY <2>2, <2>3 DEF Repo
<1>2. Status("configured", "none") \in SyncStatus /\ Status("error", "none") \in SyncStatus
  BY DEF SyncStatus
<1>3. j \in {applied, d, failed}
  BY DEF ApplySyncBootstrap
<1>4. applied \in Desk /\ SameInputs(applied, k) /\ Repo(applied)
      /\ applied.repoToken = k.repoToken /\ applied.repoBoot = k.boot
  BY <1>1, <1>2
<1>5. failed \in Desk /\ SameInputs(failed, k) /\ Repo(failed)
      /\ failed.repoToken = k.repoToken /\ failed.repoBoot = k.boot
  BY <1>1, <1>2
<1> HIDE DEF applied, failed
<1>6. r \in Desk /\ SameInputs(r, applied) /\ r.replicator = NoReplicator
      /\ r.repoToken = applied.repoToken /\ r.repoBoot = applied.repoBoot
  BY <1>4, ResetLemma
<1> HIDE DEF r
<1>7. d \in Desk /\ SameInputs(d, r) /\ d.replicator = NoReplicator
      /\ d.repoToken = r.repoToken /\ d.repoBoot = r.repoBoot
  BY <1>6 DEF Desk, SameInputs
<1> HIDE DEF d
<1>8. SameInputs(d, k)
  BY <1>4, <1>6, <1>7 DEF SameInputs
<1> QED BY <1>3, <1>4, <1>5, <1>6, <1>7, <1>8 DEF Repo

\* A started replicator gets the token and the user the repository has.
LEMMA StartedLemma ==
  ASSUME NEW k \in Desk,
         k.repoBoot # StatusOnly, k.repoToken # NoToken, k.repoBoot.user = UserOf[k.repoToken],
         NEW j \in Started(k)
  PROVE  j \in Desk /\ SameInputs(j, k) /\ Repo(j) /\ j.repoToken = k.repoToken
<1> DEFINE Rep(e) == [token |-> k.repoToken, user |-> k.repoBoot.user, scope |-> k.repoBoot.scope,
                      activity |-> IF e THEN "failed" ELSE "active", told |-> e]
           q == [k EXCEPT !.dirty = FALSE]
           st == Status("running", "active")
           s == [q EXCEPT !.status = st]
<1>1. PICK e \in BOOLEAN :
        j = [k EXCEPT !.dirty = FALSE, !.status = Status("running", "active"), !.replicator = Rep(e)]
  BY Zenon DEF Started
<1>2. k.repoToken \in Tokens /\ k.repoBoot \in Bootstraps
  BY DEF Desk, MaybeToken, MaybeBootstrap
<1>3. Rep(e) \in Replicators
  BY <1>2 DEF Replicators, Bootstraps
<1>4. Rep(e).token = k.repoToken /\ Rep(e).user = k.repoBoot.user
  OBVIOUS
<1>5. st \in SyncStatus
  BY DEF SyncStatus
<1> HIDE DEF Rep
<1>6. j = [k EXCEPT !.dirty = FALSE, !.status = st, !.replicator = Rep(e)]
  BY <1>1
<1> HIDE DEF st
<1>7. j \in Desk
  BY <1>3, <1>5, <1>6 DEF Desk
<1>8. SameInputs(j, k) /\ j.repoToken = k.repoToken /\ j.replicator = Rep(e)
  BY <1>6 DEF Desk, SameInputs
<1> QED BY <1>4, <1>7, <1>8 DEF Repo

LEMMA StartLemma ==
  ASSUME NEW k \in Desk, Repo(k),
         k.repoBoot # StatusOnly, k.repoToken # NoToken, k.repoBoot.user = UserOf[k.repoToken],
         NEW j \in StartSync(k)
  PROVE  j \in Desk /\ SameInputs(j, k) /\ Repo(j) /\ j.repoToken = k.repoToken
<1>1. CASE KeepsReplicator(k)
  <2> DEFINE st == ActivityStatus(k.replicator.activity)
  <2>1. j = [k EXCEPT !.status = st]
    BY <1>1 DEF StartSync
  <2>2. k.replicator \in Replicators
    BY <1>1 DEF KeepsReplicator, Desk
  <2>3. k.replicator.activity \in {"active", "idle", "failed"}
    BY <2>2 DEF Replicators
  <2>4. st \in SyncStatus
    BY <2>3 DEF ActivityStatus, SyncStatus
  <2> HIDE DEF st
  <2>5. j \in Desk
    BY <2>1, <2>4 DEF Desk
  <2>6. SameInputs(j, k) /\ j.repoToken = k.repoToken /\ j.replicator = k.replicator
    BY <2>1 DEF Desk, SameInputs
  <2> QED BY <2>5, <2>6 DEF Repo
<1>2. CASE j \in Started(k)
  BY <1>2, StartedLemma
<1>3. CASE j = [ResetReplicator(k) EXCEPT !.status = Status("error", "none")]
  <2> DEFINE r == ResetReplicator(k)
             st == Status("error", "none")
  <2>1. r \in Desk /\ SameInputs(r, k) /\ r.replicator = NoReplicator /\ r.repoToken = k.repoToken
    BY ResetLemma
  <2>2. st \in SyncStatus
    BY DEF SyncStatus
  <2>3. j = [r EXCEPT !.status = st]
    BY <1>3
  <2> HIDE DEF r, st
  <2>4. j \in Desk
    BY <2>1, <2>2, <2>3 DEF Desk
  <2>5. SameInputs(j, r) /\ j.repoToken = r.repoToken /\ j.replicator = NoReplicator
    BY <2>1, <2>3 DEF Desk, SameInputs
  <2> QED BY <2>1, <2>4, <2>5 DEF Repo, SameInputs
<1> QED BY <1>1, <1>2, <1>3 DEF StartSync

-----------------------------------------------------------------------------
(* The service.                                                             *)

LEMMA LifecycleLemma ==
  ASSUME NEW k \in Desk, Repo(k), Ready(k), NEW j \in Lifecycle(k)
  PROVE  j \in Desk /\ SameInputs(j, k) /\ Repo(j) /\ Linked(j)
<1>1. CASE ~SyncWanted(k)
  BY <1>1, StopLemma DEF Lifecycle, Repo, Linked
<1>2. CASE SyncWanted(k)
  <2>1. k.boot # StatusOnly /\ k.token # NoToken /\ k.boot.user = UserOf[k.token]
    BY <1>2 DEF Ready
  <2> DEFINE t == SetSyncAccessToken(k)
  <2>2. t \in Desk /\ SameInputs(t, k) /\ Repo(t) /\ t.repoToken = k.token
    BY TokenLemma
  <2>3. j \in UNION {IF a.status.state = "error" THEN {a} ELSE StartSync(a)
                     : a \in ApplySyncBootstrap(t)}
    BY <1>2, <2>1 DEF Lifecycle, ApplyRepositorySyncLifecycle
  <2> HIDE DEF t
  <2>4. PICK a \in ApplySyncBootstrap(t) : j = a \/ j \in StartSync(a)
    BY <2>3
  <2>5. a \in Desk /\ SameInputs(a, t) /\ Repo(a) /\ a.repoToken = t.repoToken
        /\ a.repoBoot = t.boot
    BY <2>2, BootstrapLemma
  <2>6. a.repoBoot = k.boot /\ a.repoToken = k.token
    BY <2>2, <2>5 DEF SameInputs
  <2>7. j \in Desk /\ SameInputs(j, a) /\ Repo(j) /\ j.repoToken = a.repoToken
    <3>1. CASE j = a
      BY <2>5, <3>1 DEF SameInputs
    <3>2. CASE j \in StartSync(a)
      BY <2>1, <2>5, <2>6, <3>2, StartLemma
    <3> QED BY <2>4, <3>1, <3>2
  <2>8. SameInputs(j, k)
    BY <2>2, <2>5, <2>7 DEF SameInputs
  <2>9. SyncWanted(j) /\ j.repoToken = j.token
    BY <1>2, <2>6, <2>7, <2>8 DEF SameInputs, SyncWanted
  <2> QED BY <2>7, <2>8, <2>9 DEF Linked
<1> QED BY <1>1, <1>2

LEMMA RecomputeLemma ==
  ASSUME NEW k \in Desk, Repo(k), Ready(k), NEW j \in RecomputeStatus(k)
  PROVE  j \in Desk /\ SameInputs(j, k) /\ Repo(j) /\ Linked(j)
<1>1. PICK a \in Lifecycle(k) : j = SetStatus(a, StateOf(a))
  BY DEF RecomputeStatus
<1>2. a \in Desk /\ SameInputs(a, k) /\ Repo(a) /\ Linked(a)
  BY LifecycleLemma
<1>3. StateOf(a) \in {"disabled", "unavailable", "ready", "error"}
  BY DEF StateOf
<1>4. j \in Desk /\ SameInputs(j, a) /\ SameRepository(j, a)
  BY <1>1, <1>2, <1>3, StatusLemma
<1> QED BY <1>2, <1>4 DEF SameInputs, SameRepository, Repo, Linked, SyncWanted

-----------------------------------------------------------------------------
(* The client and its signals.                                              *)

\* The service works with the bootstrap the client holds, or with none.
Offer(k) == k.available => k.offered # StatusOnly /\ k.boot = k.offered

\* The client holds, and asks for, nothing but what belongs to its token.
Client(k) ==
  /\ k.fetch \in {NoToken, k.clientToken}
  /\ k.offered # StatusOnly => k.clientToken # NoToken /\ k.offered.user = UserOf[k.clientToken]

Sound(k) == k \in Desk /\ Repo(k) /\ Linked(k) /\ Offer(k) /\ Client(k)

\* What a change of the bootstrap leaves alone.
SameSession(j, k) ==
  j.up = k.up /\ j.clientToken = k.clientToken /\ j.fetch = k.fetch /\ j.token = k.token

LEMMA LostLemma ==
  ASSUME NEW k \in Desk, Repo(k), NEW j \in BootstrapLost(k)
  PROVE  j \in Desk /\ Repo(j) /\ Linked(j) /\ ~j.available
         /\ j.offered = k.offered /\ SameSession(j, k)
<1> DEFINE lost == [k EXCEPT !.available = FALSE, !.enabled = FALSE]
<1>1. lost \in Desk
  BY DEF Desk
<1>2. /\ lost.replicator = k.replicator /\ lost.repoToken = k.repoToken
      /\ ~lost.available /\ lost.offered = k.offered /\ SameSession(lost, k)
  BY DEF Desk, SameSession
<1>3. j \in RecomputeStatus(lost)
  BY DEF BootstrapLost
<1> HIDE DEF lost
<1>4. Repo(lost) /\ Ready(lost)
  BY <1>2 DEF Repo, Ready, SyncWanted
<1>5. j \in Desk /\ SameInputs(j, lost) /\ Repo(j) /\ Linked(j)
  BY <1>1, <1>3, <1>4, RecomputeLemma
<1> QED BY <1>2, <1>5 DEF SameInputs, SameSession

LEMMA DropLemma ==
  ASSUME NEW k \in Desk, Repo(k), Linked(k), Offer(k), NEW j \in SetSyncBootstrap(k, StatusOnly)
  PROVE  j \in Desk /\ Repo(j) /\ Linked(j) /\ ~j.available
         /\ j.offered = StatusOnly /\ SameSession(j, k)
<1>1. CASE k.offered = StatusOnly
  BY <1>1 DEF SetSyncBootstrap, Offer, SameSession, Desk
<1>2. CASE k.offered # StatusOnly
  <2> DEFINE o == [k EXCEPT !.offered = StatusOnly]
  <2>1. o \in Desk
    BY DEF Desk, MaybeBootstrap
  <2>2. /\ o.replicator = k.replicator /\ o.repoToken = k.repoToken
        /\ o.offered = StatusOnly /\ SameSession(o, k)
    BY DEF Desk, SameSession
  <2>3. j \in BootstrapLost(o)
    BY <1>2 DEF SetSyncBootstrap, SetBackendBootstrap
  <2> HIDE DEF o
  <2>4. Repo(o)
    BY <2>2 DEF Repo
  <2>5. j \in Desk /\ Repo(j) /\ Linked(j) /\ ~j.available
        /\ j.offered = o.offered /\ SameSession(j, o)
    BY <2>1, <2>3, <2>4, LostLemma
  <2> QED BY <2>2, <2>5 DEF SameSession
<1> QED BY <1>1, <1>2

LEMMA HydrationLemma ==
  ASSUME NEW k \in Desk
  PROVE  LET j == ResetWorkspaceHydration(k)
         IN  j \in Desk /\ SameInputs(j, k) /\ SameRepository(j, k)
<1>1. Unhydrated \in [Workspaces -> Hydration]
  BY DEF Unhydrated, Hydration
<1> QED BY <1>1 DEF ResetWorkspaceHydration, Desk, SameInputs, SameRepository

LEMMA WithBootstrapLemma ==
  ASSUME NEW k \in Desk, NEW b \in Bootstraps
  PROVE  LET j == WithBootstrap(k, b)
         IN  j \in Desk /\ SameRepository(j, k) /\ SameSession(j, k) /\ j.offered = k.offered
             /\ j.boot = b
<1> DEFINE h == IF k.boot = b THEN k ELSE ResetWorkspaceHydration(k)
<1>1. h \in Desk /\ SameRepository(h, k) /\ SameSession(h, k) /\ h.offered = k.offered
  BY HydrationLemma DEF SameInputs, SameRepository, SameSession
<1>2. WithBootstrap(k, b) = [h EXCEPT !.available = TRUE, !.enabled = b.enabled, !.boot = b]
  BY DEF WithBootstrap
<1> HIDE DEF h
<1> DEFINE w == [h EXCEPT !.available = TRUE, !.enabled = b.enabled, !.boot = b]
<1>3. w \in Desk
  BY <1>1 DEF Desk, Bootstraps, MaybeBootstrap
<1>4. w.boot = b /\ SameRepository(w, h) /\ SameSession(w, h) /\ w.offered = h.offered
  BY <1>1 DEF Desk, SameRepository, SameSession
<1> HIDE DEF w
<1> QED BY <1>1, <1>2, <1>3, <1>4 DEF SameRepository, SameSession, w

\* A bootstrap of the user who is signed in.
LEMMA OfferLemma ==
  ASSUME NEW k \in Desk, Repo(k), Linked(k), Offer(k), k.token # NoToken,
         NEW b \in Bootstraps, b # StatusOnly, b.user = UserOf[k.token],
         NEW j \in SetSyncBootstrap(k, b)
  PROVE  j \in Desk /\ Repo(j) /\ Linked(j) /\ Offer(j) /\ j.offered = b /\ SameSession(j, k)
<1>1. CASE k.offered = b
  BY <1>1 DEF SetSyncBootstrap, SameSession
<1>2. CASE k.offered # b
  <2> DEFINE o == [k EXCEPT !.offered = b]
             w == WithBootstrap(o, b)
             f == SavePersistedSyncContext(w)
  <2>1. o \in Desk
    BY DEF Desk, MaybeBootstrap
  <2>2. o.offered = b /\ SameSession(o, k) /\ SameRepository(o, k)
    BY DEF Desk, SameSession, SameRepository
  <2>3. j \in RecomputeStatus(f)
    BY <1>2 DEF SetSyncBootstrap, SetBackendBootstrap
  <2> HIDE DEF o
  <2>4. w \in Desk /\ SameRepository(w, o) /\ SameSession(w, o) /\ w.offered = o.offered
        /\ w.boot = b
    BY <2>1, WithBootstrapLemma
  <2> HIDE DEF w
  <2>5. f \in Desk /\ SameInputs(f, w) /\ SameRepository(f, w)
    BY <2>4, SaveLemma
  <2> HIDE DEF f
  <2>6. Repo(f)
    BY <2>2, <2>4, <2>5 DEF SameRepository, Repo
  <2>7. f.boot = b /\ f.offered = b /\ SameSession(f, k)
    BY <2>2, <2>4, <2>5 DEF SameInputs, SameSession
  <2>8. Ready(f)
    BY <2>7 DEF Ready, SameSession
  <2>9. j \in Desk /\ SameInputs(j, f) /\ Repo(j) /\ Linked(j)
    BY <2>3, <2>5, <2>6, <2>8, RecomputeLemma
  <2> QED BY <2>7, <2>9 DEF SameInputs, SameSession, Offer
<1> QED BY <1>1, <1>2

\* The client without a bootstrap, or with the one it has and a new request.
LEMMA FetchLemma ==
  ASSUME NEW k \in Desk, Repo(k), Linked(k), Offer(k),
         k.clientToken # NoToken => Client([k EXCEPT !.fetch = k.clientToken]),
         NEW j \in RefreshSyncBootstrap(k)
  PROVE  Sound(j) /\ j.up = k.up /\ j.clientToken = k.clientToken /\ j.token = k.token
<1> DEFINE n == [k EXCEPT !.fetch = NoToken]
           c == [k EXCEPT !.fetch = k.clientToken]
<1>1. CASE j \in SetSyncBootstrap(n, StatusOnly)
  <2>1. n \in Desk
    BY DEF Desk, MaybeToken
  <2>2. /\ n.fetch = NoToken /\ n.up = k.up /\ n.clientToken = k.clientToken
        /\ SameRepository(n, k) /\ n.token = k.token /\ n.available = k.available
        /\ n.boot = k.boot /\ n.offered = k.offered
        /\ n.auth = k.auth /\ n.sync = k.sync /\ n.enabled = k.enabled
    BY DEF Desk, SameRepository
  <2> HIDE DEF n
  <2>3. Repo(n) /\ Linked(n) /\ Offer(n)
    BY <2>2 DEF SameRepository, Repo, Linked, Offer, SyncWanted
  <2>4. j \in Desk /\ Repo(j) /\ Linked(j) /\ ~j.available
        /\ j.offered = StatusOnly /\ SameSession(j, n)
    BY <1>1, <2>1, <2>3, DropLemma
  <2> QED BY <2>2, <2>4 DEF Sound, Offer, Client, SameSession
<1>2. CASE j = c /\ k.clientToken # NoToken
  <2>1. c \in Desk
    BY DEF Desk
  <2>2. /\ c.up = k.up /\ c.clientToken = k.clientToken
        /\ SameRepository(c, k) /\ c.token = k.token /\ c.available = k.available
        /\ c.boot = k.boot /\ c.offered = k.offered
        /\ c.auth = k.auth /\ c.sync = k.sync /\ c.enabled = k.enabled
    BY DEF Desk, SameRepository
  <2>3. Client(c)
    BY <1>2
  <2> HIDE DEF c
  <2>4. Repo(c) /\ Linked(c) /\ Offer(c)
    BY <2>2 DEF SameRepository, Repo, Linked, Offer, SyncWanted
  <2> QED BY <1>2, <2>1, <2>2, <2>3, <2>4 DEF Sound
<1> QED BY <1>1, <1>2 DEF RefreshSyncBootstrap

\* The two slots of accessTokenChanged: between them the client has the new token
\* and the service the old one.  A token is replaced by one of the same user only.
LEMMA ClientTokenLemma ==
  ASSUME NEW k, Sound(k), NEW t \in MaybeToken,
         k.clientToken # NoToken /\ t # NoToken => UserOf[t] = UserOf[k.clientToken],
         NEW j \in SetClientToken(k, t)
  PROVE  Sound(j) /\ j.up = k.up /\ j.clientToken = t /\ j.token = k.token
<1>1. CASE k.clientToken = t
  BY <1>1 DEF SetClientToken
<1>2. CASE k.clientToken # t
  <2> DEFINE c == [k EXCEPT !.clientToken = t]
             f == [c EXCEPT !.fetch = c.clientToken]
  <2>1. c \in Desk
    BY DEF Sound, Desk
  <2>2. /\ c.up = k.up /\ c.clientToken = t
        /\ SameRepository(c, k) /\ c.token = k.token /\ c.available = k.available
        /\ c.boot = k.boot /\ c.offered = k.offered
        /\ c.auth = k.auth /\ c.sync = k.sync /\ c.enabled = k.enabled
    BY DEF Sound, Desk, SameRepository
  <2>3. j \in RefreshSyncBootstrap(c)
    BY <1>2 DEF SetClientToken
  <2> HIDE DEF c
  <2>4. Repo(c) /\ Linked(c) /\ Offer(c)
    BY <2>2 DEF Sound, SameRepository, Repo, Linked, Offer, SyncWanted
  <2>5. ASSUME c.clientToken # NoToken PROVE Client(f)
    <3>1. f.fetch = t /\ f.clientToken = t /\ f.offered = k.offered
      BY <2>1, <2>2 DEF Desk
    <3> HIDE DEF f
    <3>2. k.offered # StatusOnly => t # NoToken /\ k.offered.user = UserOf[t]
      BY <2>2, <2>5 DEF Sound, Client
    <3> QED BY <3>1, <3>2 DEF Client
  <2>6. Sound(j) /\ j.up = c.up /\ j.clientToken = c.clientToken /\ j.token = c.token
    BY <2>1, <2>3, <2>4, <2>5, FetchLemma
  <2> QED BY <2>2, <2>6
<1> QED BY <1>1, <1>2

LEMMA ServiceTokenLemma ==
  ASSUME NEW k, Sound(k), NEW j \in SetServiceToken(k, k.clientToken)
  PROVE  Sound(j) /\ j.up = k.up /\ j.clientToken = k.clientToken /\ j.token = k.clientToken
<1>1. CASE k.token = k.clientToken
  BY <1>1 DEF SetServiceToken
<1>2. CASE k.token # k.clientToken
  <2> DEFINE h == ResetWorkspaceHydration(k)
             s == [h EXCEPT !.token = k.clientToken]
  <2>1. h \in Desk /\ SameInputs(h, k) /\ SameRepository(h, k)
    BY HydrationLemma DEF Sound
  <2>2. j \in RecomputeStatus(s)
    BY <1>2 DEF SetServiceToken
  <2> HIDE DEF h
  <2>3. k.clientToken \in MaybeToken
    BY DEF Sound, Desk
  <2>4. s \in Desk
    BY <2>1, <2>3 DEF Desk
  <2>5. /\ s.token = k.clientToken /\ SameRepository(s, h)
        /\ s.up = h.up /\ s.clientToken = h.clientToken /\ s.fetch = h.fetch
        /\ s.offered = h.offered /\ s.available = h.available /\ s.boot = h.boot
    BY <2>1 DEF Desk, SameRepository
  <2> HIDE DEF s
  <2>6. Repo(s) /\ Offer(s) /\ Client(s)
    BY <2>1, <2>5 DEF Sound, SameInputs, SameRepository, Repo, Offer, Client
  <2>7. Ready(s)
    BY <2>1, <2>5, <2>6 DEF SameInputs, Ready, SyncWanted, Offer, Client
  <2>8. j \in Desk /\ SameInputs(j, s) /\ Repo(j) /\ Linked(j)
    BY <2>2, <2>4, <2>6, <2>7, RecomputeLemma
  <2>9. Offer(j) /\ Client(j)
    BY <2>6, <2>8 DEF SameInputs, Offer, Client
  <2> QED BY <2>1, <2>5, <2>8, <2>9 DEF SameInputs, Sound
<1> QED BY <1>1, <1>2

\* Client and service agree on the token, and nothing runs while the process does not.
Good(k) ==
  Sound(k) /\ k.token = k.clientToken /\ (~k.up => ~k.available /\ k.fetch = NoToken)

LEMMA TokenChangedLemma ==
  ASSUME NEW k, Sound(k), k.up, NEW t \in MaybeToken,
         k.clientToken # NoToken /\ t # NoToken => UserOf[t] = UserOf[k.clientToken],
         NEW j \in AccessTokenChanged(k, t)
  PROVE  Good(j) /\ j.up /\ j.clientToken = t
<1>1. PICK c \in SetClientToken(k, t) : j \in SetServiceToken(c, t)
  BY DEF AccessTokenChanged
<1>2. Sound(c) /\ c.up = k.up /\ c.clientToken = t
  BY ClientTokenLemma
<1>3. Sound(j) /\ j.up = c.up /\ j.clientToken = c.clientToken /\ j.token = c.clientToken
  BY <1>1, <1>2, ServiceTokenLemma
<1> QED BY <1>2, <1>3 DEF Good

\* What Good is about.  A step that leaves it alone keeps Good.
SameSync(j, k) ==
  /\ j.up = k.up /\ j.clientToken = k.clientToken /\ j.fetch = k.fetch /\ j.offered = k.offered
  /\ j.auth = k.auth /\ j.sync = k.sync /\ j.token = k.token
  /\ j.available = k.available /\ j.enabled = k.enabled /\ j.boot = k.boot
  /\ j.repoToken = k.repoToken /\ j.replicator = k.replicator

LEMMA FrameLemma ==
  ASSUME NEW k, Sound(k), NEW j \in Desk, SameSync(j, k)
  PROVE  Sound(j) /\ (Good(k) => Good(j))
<1>1. Repo(j) /\ Linked(j)
  BY DEF Sound, SameSync, Repo, Linked, SyncWanted
<1>2. Offer(j) /\ Client(j)
  BY DEF Sound, SameSync, Offer, Client
<1>3. Sound(j)
  BY <1>1, <1>2 DEF Sound
<1> QED BY <1>3 DEF Good, SameSync

LEMMA ClientSettingsLemma ==
  ASSUME NEW k, Sound(k), NEW settings \in Settings, NEW j \in ApplyClientSettings(k, settings)
  PROVE  /\ Sound(j) /\ j.up = k.up /\ j.clientToken = k.clientToken /\ j.token = k.token
         /\ ~k.available => ~j.available
<1>1. CASE settings.backend
  <2> DEFINE b == [k EXCEPT !.backend = TRUE]
             c == [b EXCEPT !.conn = "checking"]
  <2>1. j = c
    BY <1>1 DEF ApplyClientSettings, RefreshHealth
  <2>2. b \in Desk /\ SameSync(b, k)
    BY DEF Sound, Desk, SameSync
  <2> HIDE DEF b
  <2>3. c \in Desk /\ SameSync(c, b)
    BY <2>2 DEF Desk, SameSync
  <2> HIDE DEF c
  <2>4. SameSync(j, k)
    BY <2>1, <2>2, <2>3 DEF SameSync
  <2>5. Sound(j)
    BY <2>1, <2>3, <2>4, FrameLemma
  <2> QED BY <2>4, <2>5 DEF SameSync
<1>2. CASE ~settings.backend
  <2> DEFINE b == [k EXCEPT !.backend = FALSE, !.fetch = NoToken]
  <2>1. PICK off \in SetSyncBootstrap(b, StatusOnly) : j = [off EXCEPT !.conn = "local"]
    BY <1>2 DEF ApplyClientSettings
  <2>2. b \in Desk
    BY DEF Sound, Desk, MaybeToken
  <2>3. /\ b.fetch = NoToken /\ b.up = k.up /\ b.clientToken = k.clientToken
        /\ SameRepository(b, k) /\ b.token = k.token /\ b.available = k.available
        /\ b.boot = k.boot /\ b.offered = k.offered
        /\ b.auth = k.auth /\ b.sync = k.sync /\ b.enabled = k.enabled
    BY DEF Sound, Desk, SameRepository
  <2> HIDE DEF b
  <2>4. Repo(b) /\ Linked(b) /\ Offer(b)
    BY <2>3 DEF Sound, SameRepository, Repo, Linked, Offer, SyncWanted
  <2>5. off \in Desk /\ Repo(off) /\ Linked(off) /\ ~off.available
        /\ off.offered = StatusOnly /\ SameSession(off, b)
    BY <2>2, <2>4, DropLemma
  <2>6. Sound(off)
    BY <2>3, <2>5 DEF Sound, Offer, Client, SameSession
  <2>7. j \in Desk /\ SameSync(j, off)
    BY <2>1, <2>5 DEF Desk, SameSync
  <2>8. Sound(j)
    BY <2>6, <2>7, FrameLemma
  <2> QED BY <2>3, <2>5, <2>7, <2>8 DEF SameSync, SameSession
<1> QED BY <1>1, <1>2

\* New switches, with whatever bootstrap and hydration: the repository follows.
LEMMA SwitchesLemma ==
  ASSUME NEW k \in Desk, Repo(k), Ready(k), Offer(k), Client(k), k.up, k.token = k.clientToken,
         NEW j \in RecomputeStatus(k)
  PROVE  Good(j)
<1>1. j \in Desk /\ SameInputs(j, k) /\ Repo(j) /\ Linked(j)
  BY RecomputeLemma
<1>2. Offer(j) /\ Client(j)
  BY <1>1 DEF SameInputs, Offer, Client
<1> QED BY <1>1, <1>2 DEF Good, Sound, SameInputs

LEMMA ServiceSettingsLemma ==
  ASSUME NEW k, Good(k), k.up, NEW settings \in Settings, NEW j \in ApplyServiceSettings(k, settings)
  PROVE  Good(j)
<1> DEFINE h == IF k.auth = settings.auth /\ k.sync = settings.sync THEN k
                ELSE ResetWorkspaceHydration(k)
           s == [h EXCEPT !.auth = settings.auth, !.sync = settings.sync]
<1>1. h \in Desk /\ SameInputs(h, k) /\ SameRepository(h, k)
  BY HydrationLemma DEF Good, Sound, SameInputs, SameRepository
<1>2. j \in RecomputeStatus(s)
  BY DEF ApplyServiceSettings
<1> HIDE DEF h
<1>3. settings.auth \in BOOLEAN /\ settings.sync \in BOOLEAN
  BY SyncServiceAssumption
<1>4. s \in Desk
  BY <1>1, <1>3 DEF Desk
<1>5. /\ s.token = h.token /\ SameRepository(s, h)
      /\ s.up = h.up /\ s.clientToken = h.clientToken /\ s.fetch = h.fetch
      /\ s.offered = h.offered /\ s.available = h.available /\ s.boot = h.boot
  BY <1>1 DEF Desk, SameRepository
<1> HIDE DEF s
<1>6. Repo(s) /\ Offer(s) /\ Client(s)
  BY <1>1, <1>5 DEF Good, Sound, SameInputs, SameRepository, Repo, Offer, Client
<1>7. s.up /\ s.token = s.clientToken
  BY <1>1, <1>5 DEF Good, SameInputs
<1>8. Ready(s)
  BY <1>6, <1>7 DEF Ready, SyncWanted, Offer, Client
<1> QED BY <1>2, <1>4, <1>6, <1>7, <1>8, SwitchesLemma

-----------------------------------------------------------------------------
(* The actions.                                                             *)

LEMMA InitLemma == ASSUME NEW stored \in SUBSET Workspaces,
                          NEW file, file \in [boot : Bootstraps,
                                              hydration : [Workspaces -> Hydration]] \cup {NoFile}
                   PROVE  Good(Constructed(stored, file))
<1> DEFINE k == Constructed(stored, file)
<1>1. Unhydrated \in [Workspaces -> Hydration]
  BY DEF Unhydrated, Hydration
<1>2. k \in Desk
  BY <1>1 DEF Constructed, Desk, MaybeToken, MaybeBootstrap, SyncStatus
<1>3. /\ k.up = FALSE /\ k.available = FALSE /\ k.fetch = NoToken /\ k.offered = StatusOnly
      /\ k.token = NoToken /\ k.clientToken = NoToken /\ k.replicator = NoReplicator
  BY DEF Constructed
<1> HIDE DEF k
<1>4. Repo(k) /\ Linked(k) /\ Offer(k) /\ Client(k)
  BY <1>3 DEF Repo, Linked, Offer, Client
<1> QED BY <1>2, <1>3, <1>4 DEF Good, Sound, k

LEMMA LaunchLemma == Good(desk) /\ Launch => Good(desk')
<1> SUFFICES ASSUME Good(desk), Launch PROVE Good(desk')
  OBVIOUS
<1> DEFINE k == [desk EXCEPT !.up = TRUE]
<1>1. PICK settings \in Settings : \E client \in ApplyClientSettings(k, settings) :
        desk' \in SetRepository([LoadPersistedSyncContext(client)
                                  EXCEPT !.auth = settings.auth, !.sync = settings.sync])
  BY DEF Launch
<1>2. PICK client \in ApplyClientSettings(k, settings) :
        desk' \in SetRepository([LoadPersistedSyncContext(client)
                                  EXCEPT !.auth = settings.auth, !.sync = settings.sync])
  BY <1>1
<1>3. k \in Desk
  BY DEF Good, Sound, Desk
<1>4. /\ k.up = TRUE /\ k.clientToken = desk.clientToken /\ k.fetch = desk.fetch
      /\ k.offered = desk.offered /\ k.auth = desk.auth /\ k.sync = desk.sync
      /\ k.token = desk.token /\ k.available = desk.available /\ k.enabled = desk.enabled
      /\ k.boot = desk.boot /\ k.repoToken = desk.repoToken /\ k.replicator = desk.replicator
  BY DEF Good, Sound, Desk
<1> HIDE DEF k
<1>5. Sound(k)
  BY <1>3, <1>4 DEF Good, Sound, Repo, Linked, Offer, Client, SyncWanted
<1>6. /\ Sound(client) /\ client.up = TRUE /\ client.clientToken = client.token
      /\ ~client.available
  BY <1>4, <1>5, ClientSettingsLemma DEF Good, Launch
<1> DEFINE l == LoadPersistedSyncContext(client)
           s == [l EXCEPT !.auth = settings.auth, !.sync = settings.sync]
           h == ResetWorkspaceHydration(s)
<1>7. l \in Desk
  <2>1. CASE client.file = NoFile
    BY <1>6, <2>1 DEF LoadPersistedSyncContext, Sound
  <2>2. CASE client.file # NoFile
    <3>1. client.file.boot \in Bootstraps /\ client.file.hydration \in [Workspaces -> Hydration]
      BY <1>6, <2>2 DEF Sound, Desk
    <3> QED BY <1>6, <2>2, <3>1 DEF LoadPersistedSyncContext, Sound, Desk, MaybeBootstrap
  <2> QED BY <2>1, <2>2
<1>8. /\ l.up = client.up /\ l.clientToken = client.clientToken /\ l.fetch = client.fetch
      /\ l.offered = client.offered /\ l.token = client.token
      /\ l.available = client.available /\ SameRepository(l, client)
  BY <1>6 DEF LoadPersistedSyncContext, Sound, Desk, SameRepository
<1>9. desk' \in SetRepository(s)
  BY <1>2
<1> HIDE DEF l
<1>10. settings.auth \in BOOLEAN /\ settings.sync \in BOOLEAN
  BY SyncServiceAssumption
<1>11. s \in Desk
  BY <1>7, <1>10 DEF Desk
<1>12. /\ s.up = l.up /\ s.clientToken = l.clientToken /\ s.fetch = l.fetch
       /\ s.offered = l.offered /\ s.token = l.token
       /\ s.available = l.available /\ SameRepository(s, l)
  BY <1>7 DEF Desk, SameRepository
<1> HIDE DEF s
<1>13. h \in Desk /\ SameInputs(h, s) /\ SameRepository(h, s)
  BY <1>11, HydrationLemma
<1>14. desk' \in RecomputeStatus(h)
  BY <1>9 DEF SetRepository
<1> HIDE DEF h
<1>15. h.up /\ h.token = h.clientToken /\ ~h.available
  BY <1>6, <1>8, <1>12, <1>13 DEF SameInputs
<1>16. Repo(h) /\ Client(h)
  BY <1>6, <1>8, <1>12, <1>13 DEF Sound, SameInputs, SameRepository, Repo, Client
<1>17. Ready(h) /\ Offer(h)
  BY <1>15 DEF Ready, Offer, SyncWanted
<1> QED BY <1>13, <1>14, <1>15, <1>16, <1>17, SwitchesLemma

LEMMA SettingsLemma == Good(desk) /\ SettingsChanged => Good(desk')
<1> SUFFICES ASSUME Good(desk), SettingsChanged PROVE Good(desk')
  OBVIOUS
<1>1. PICK settings \in Settings : \E client \in ApplyClientSettings(desk, settings) :
        \E signedOut \in AccessTokenChanged(client, NoToken) :
          desk' \in ApplyServiceSettings(signedOut, settings)
  BY DEF SettingsChanged
<1>2. PICK client \in ApplyClientSettings(desk, settings) :
        \E signedOut \in AccessTokenChanged(client, NoToken) :
          desk' \in ApplyServiceSettings(signedOut, settings)
  BY <1>1
<1>3. Sound(client) /\ client.up
  BY ClientSettingsLemma DEF Good, SettingsChanged
<1>4. NoToken \in MaybeToken
  BY DEF MaybeToken
<1>5. PICK signedOut \in AccessTokenChanged(client, NoToken) :
        desk' \in ApplyServiceSettings(signedOut, settings)
  BY <1>2
<1>6. Good(signedOut) /\ signedOut.up
  BY <1>3, <1>4, TokenChangedLemma
<1> QED BY <1>5, <1>6, ServiceSettingsLemma

LEMMA SessionLemma == Good(desk) /\ (SignedIn \/ SignedOut) => Good(desk')
<1> SUFFICES ASSUME Good(desk), SignedIn \/ SignedOut PROVE Good(desk')
  OBVIOUS
<1>1. CASE SignedIn
  BY <1>1, TokenChangedLemma DEF SignedIn, Good, MaybeToken
<1>2. CASE SignedOut
  BY <1>2, TokenChangedLemma DEF SignedOut, Good, MaybeToken
<1> QED BY <1>1, <1>2

LEMMA HealthLemma == Good(desk) /\ (HealthTimer \/ HealthAnswered) => Good(desk')
<1> SUFFICES ASSUME Good(desk), HealthTimer \/ HealthAnswered PROVE Good(desk')
  OBVIOUS
<1>1. CASE HealthTimer
  <2>1. desk' \in Desk /\ SameSync(desk', desk)
    BY <1>1 DEF HealthTimer, RefreshHealth, Good, Sound, Desk, SameSync
  <2> QED BY <2>1, FrameLemma DEF Good
<1>2. CASE HealthFailed
  <2>1. desk.up
    BY <1>2 DEF HealthFailed
  <2>2. PICK lost \in SetSyncBootstrap(desk, StatusOnly) :
          desk' = [lost EXCEPT !.conn = "unavailable"]
    BY <1>2 DEF HealthFailed
  <2>3. lost \in Desk /\ Repo(lost) /\ Linked(lost) /\ ~lost.available
        /\ lost.offered = StatusOnly /\ SameSession(lost, desk)
    BY DropLemma DEF Good, Sound
  <2>4. Good(lost)
    BY <2>1, <2>3 DEF Good, Sound, Offer, Client, SameSession
  <2>5. desk' \in Desk /\ SameSync(desk', lost)
    BY <2>2, <2>3 DEF Desk, SameSync
  <2> QED BY <2>4, <2>5, FrameLemma DEF Good
<1>3. CASE HealthOk
  <2> DEFINE k == [desk EXCEPT !.conn = "reachable"]
             f == [k EXCEPT !.fetch = k.clientToken]
  <2>1. desk.up /\ desk' \in RefreshSyncBootstrap(k)
    BY <1>3 DEF HealthOk
  <2>2. k \in Desk /\ SameSync(k, desk)
    BY DEF Good, Sound, Desk, SameSync
  <2> HIDE DEF k
  <2>3. Sound(k)
    BY <2>2, FrameLemma DEF Good
  <2>4. f.fetch = k.clientToken /\ f.clientToken = k.clientToken /\ f.offered = k.offered
    BY <2>2 DEF Desk
  <2> HIDE DEF f
  <2>5. Client(f)
    BY <2>3, <2>4 DEF Sound, Client
  <2>6. Sound(desk') /\ desk'.up = k.up /\ desk'.clientToken = k.clientToken
        /\ desk'.token = k.token
    BY <2>1, <2>3, <2>5, FetchLemma DEF Sound, f
  <2> QED BY <2>1, <2>2, <2>6 DEF Good, SameSync
<1> QED BY <1>1, <1>2, <1>3 DEF HealthAnswered

\* A request in flight was sent with the token the client has now.
LEMMA AnswerLemma == Good(desk) /\ BootstrapAnswered => Good(desk')
<1> SUFFICES ASSUME Good(desk), BootstrapAnswered PROVE Good(desk')
  OBVIOUS
<1> DEFINE k == [desk EXCEPT !.fetch = NoToken]
<1>1. desk.fetch # NoToken
  BY DEF BootstrapAnswered, BootstrapOffered, BootstrapRefused
<1>2. desk.up /\ desk.fetch = desk.clientToken /\ desk.token = desk.clientToken
  BY <1>1 DEF Good, Sound, Client
<1>3. desk.fetch \in Tokens
  BY <1>1 DEF Good, Sound, Desk, MaybeToken
<1>4. PICK b \in Offers(desk.fetch) \cup Refusals(desk.fetch) : desk' \in SetSyncBootstrap(k, b)
  BY DEF BootstrapAnswered, BootstrapOffered, BootstrapRefused, AnswerOf
<1>5. b = StatusOnly \/ (b \in Bootstraps /\ b.user = UserOf[desk.fetch])
  BY <1>3, SyncServiceAssumption DEF Offers, Refusals, Bootstraps
<1>6. k \in Desk
  BY DEF Good, Sound, Desk, MaybeToken
<1>7. /\ k.fetch = NoToken /\ k.up = desk.up /\ k.clientToken = desk.clientToken
      /\ SameRepository(k, desk) /\ k.token = desk.token /\ k.available = desk.available
      /\ k.boot = desk.boot /\ k.offered = desk.offered
      /\ k.auth = desk.auth /\ k.sync = desk.sync /\ k.enabled = desk.enabled
  BY DEF Good, Sound, Desk, SameRepository
<1> HIDE DEF k
<1>8. Repo(k) /\ Linked(k) /\ Offer(k)
  BY <1>7 DEF Good, Sound, SameRepository, Repo, Linked, Offer, SyncWanted
<1>9. CASE b = StatusOnly
  <2>1. desk' \in Desk /\ Repo(desk') /\ Linked(desk') /\ ~desk'.available
        /\ desk'.offered = StatusOnly /\ SameSession(desk', k)
    BY <1>4, <1>6, <1>8, <1>9, DropLemma
  <2> QED BY <1>2, <1>7, <2>1 DEF Good, Sound, Offer, Client, SameSession
<1>10. CASE b # StatusOnly
  <2>1. b \in Bootstraps /\ b.user = UserOf[k.token] /\ k.token # NoToken
    BY <1>1, <1>2, <1>5, <1>7, <1>10
  <2>2. desk' \in Desk /\ Repo(desk') /\ Linked(desk') /\ Offer(desk') /\ desk'.offered = b
        /\ SameSession(desk', k)
    BY <1>4, <1>6, <1>8, <1>10, <2>1, OfferLemma
  <2> QED BY <1>2, <1>7, <2>1, <2>2 DEF Good, Sound, Client, SameSession
<1> QED BY <1>9, <1>10

LEMMA StoreLemma ==
  Good(desk) /\ (RefreshTimer \/ Wipe \/ \E w \in Workspaces : CreateDocument(w) \/ PullDocument(w))
    => Good(desk')
<1> SUFFICES ASSUME Good(desk),
                    RefreshTimer \/ Wipe
                      \/ \E w \in Workspaces : CreateDocument(w) \/ PullDocument(w)
             PROVE  desk' \in Desk /\ SameSync(desk', desk)
  BY FrameLemma DEF Good
<1>1. CASE RefreshTimer
  <2> DEFINE e == [desk EXCEPT !.state = "error"]
  <2>1. e \in Desk /\ SameSync(e, desk)
    BY DEF Good, Sound, Desk, SameSync
  <2>2. desk' \in {RefreshSnapshot(e), RefreshSnapshot(desk)}
    BY <1>1 DEF RefreshTimer, RefreshStatus
  <2> HIDE DEF e
  <2> QED BY <2>1, <2>2, RefreshLemma DEF Good, Sound, SameInputs, SameRepository, SameSync
<1>2. CASE Wipe
  BY <1>2 DEF Wipe, Good, Sound, Desk, SameSync
<1>3. ASSUME NEW w \in Workspaces, CreateDocument(w) \/ PullDocument(w)
      PROVE  desk' \in Desk /\ SameSync(desk', desk)
  <2>1. desk' = [desk EXCEPT !.stored = desk.stored \cup {w}]
    BY <1>3 DEF CreateDocument, PullDocument
  <2> QED BY <2>1 DEF Good, Sound, Desk, SameSync
<1> QED BY <1>1, <1>2, <1>3

\* Whatever the replicator does, it keeps its token and its user.
LEMMA ReplicatorLemma == Good(desk) /\ (ActivityChanges \/ Notify) => Good(desk')
<1> SUFFICES ASSUME Good(desk), ActivityChanges \/ Notify PROVE Good(desk')
  OBVIOUS
<1>1. PICK a \in {"active", "idle", "failed"}, told \in BOOLEAN, st \in SyncStatus :
        desk' = [desk EXCEPT !.status = st,
                             !.replicator = [desk.replicator EXCEPT !.activity = a, !.told = told]]
  <2>0. desk \in Desk /\ desk.replicator \in Replicators /\ desk.status \in SyncStatus
    BY DEF ActivityChanges, Notify, Good, Sound, Desk
  <2>1. CASE ActivityChanges
    <3>1. PICK a \in {"active", "idle", "failed"} :
            desk' = [desk EXCEPT !.replicator.activity = a, !.replicator.told = FALSE]
      BY <2>1 DEF ActivityChanges
    <3>2. desk' = [desk EXCEPT !.status = desk.status,
                     !.replicator = [desk.replicator EXCEPT !.activity = a, !.told = FALSE]]
      BY <2>0, <3>1 DEF Desk
    <3> QED BY <2>0, <3>2
  <2>2. CASE Notify
    <3> DEFINE st == ActivityStatus(desk.replicator.activity)
    <3>1. st \in SyncStatus
      BY <2>0 DEF Replicators, ActivityStatus, SyncStatus
    <3>2. desk' = [desk EXCEPT !.status = st, !.replicator.told = TRUE]
      BY <2>2 DEF Notify
    <3> HIDE DEF st
    <3>3. desk' = [desk EXCEPT !.status = st,
                     !.replicator = [desk.replicator EXCEPT
                                       !.activity = desk.replicator.activity, !.told = TRUE]]
      BY <2>0, <3>2 DEF Desk, Replicators
    <3>4. desk.replicator.activity \in {"active", "idle", "failed"}
      BY <2>0 DEF Replicators
    <3> QED BY <3>1, <3>3, <3>4
  <2> QED BY <2>1, <2>2
<1> DEFINE q == [desk.replicator EXCEPT !.activity = a, !.told = told]
<1>2. desk.replicator # NoReplicator /\ desk.replicator \in Replicators
  BY DEF ActivityChanges, Notify, Good, Sound, Desk
<1>3. q \in Replicators /\ q.token = desk.replicator.token /\ q.user = desk.replicator.user
  BY <1>2 DEF Replicators
<1>4. desk' = [desk EXCEPT !.status = st, !.replicator = q]
  BY <1>1
<1> HIDE DEF q
<1>5. desk' \in Desk
  BY <1>3, <1>4 DEF Good, Sound, Desk
<1>6. /\ desk'.replicator = q /\ SameInputs(desk', desk) /\ desk'.repoToken = desk.repoToken
  BY <1>4 DEF Good, Sound, Desk, SameInputs
<1>7. Repo(desk') /\ Linked(desk')
  BY <1>2, <1>3, <1>6 DEF Good, Sound, Repo, Linked, SameInputs, SyncWanted
<1> QED BY <1>5, <1>6, <1>7 DEF Good, Sound, Offer, Client, SameInputs

LEMMA CrashLemma == Good(desk) /\ Crash => Good(desk')
<1> SUFFICES ASSUME Good(desk), Crash PROVE Good(desk')
  OBVIOUS
<1>1. PICK file \in {desk.file, NoFile} : desk' = Constructed(desk.stored, file)
  BY DEF Crash
<1>2. desk.stored \in SUBSET Workspaces
      /\ file \in [boot : Bootstraps, hydration : [Workspaces -> Hydration]] \cup {NoFile}
  BY <1>1 DEF Good, Sound, Desk
<1> QED BY <1>1, <1>2, InitLemma

-----------------------------------------------------------------------------
(* The theorems.                                                            *)

IInv == Good(desk)

LEMMA GoodStep == Good(desk) /\ [Next]_vars => Good(desk')
<1> SUFFICES ASSUME Good(desk), [Next]_vars PROVE Good(desk')
  OBVIOUS
<1>1. CASE Launch
  BY <1>1, LaunchLemma
<1>2. CASE SettingsChanged
  BY <1>2, SettingsLemma
<1>3. CASE SignedIn \/ SignedOut
  BY <1>3, SessionLemma
<1>4. CASE HealthTimer \/ HealthAnswered
  BY <1>4, HealthLemma
<1>5. CASE BootstrapAnswered
  BY <1>5, AnswerLemma
<1>6. CASE RefreshTimer \/ Wipe \/ \E w \in Workspaces : CreateDocument(w) \/ PullDocument(w)
  BY <1>6, StoreLemma
<1>7. CASE ActivityChanges \/ Notify
  BY <1>7, ReplicatorLemma
<1>8. CASE Crash
  BY <1>8, CrashLemma
<1>9. CASE UNCHANGED vars
  BY <1>9 DEF vars
<1> QED BY <1>1, <1>2, <1>3, <1>4, <1>5, <1>6, <1>7, <1>8, <1>9 DEF Next

\* Good holds in every reachable state, whatever the constants: the invariant
\* the two theorems below follow from.
THEOREM Inductive == Spec => []IInv
<1>1. Init => IInv
  BY InitLemma DEF Init, IInv
<1>2. IInv /\ [Next]_vars => IInv'
  BY GoodStep DEF IInv
<1> QED BY <1>1, <1>2, PTL DEF Spec

\* The members of the three objects, the context file and the replicator have the
\* values their types and the code allow; a replicator always has a token
\* (document_sync_service.cc, cblite_document_repository.cc).
THEOREM TypeCorrect == Spec => []TypeOK
<1>1. IInv => TypeOK
  BY DEF IInv, Good, Sound, TypeOK
<1> QED BY <1>1, Inductive, PTL

\* Whatever replicates does so for the session that is signed in now, as the user
\* its token stands for (StopSync, SetSyncAccessToken, ApplySyncBootstrap), after
\* any order of tokens, answers, settings and failures.
THEOREM SessionCorrect == Spec => []ReplicatesAsSignedIn
<1>1. IInv => ReplicatesAsSignedIn
  <2> SUFFICES ASSUME Good(desk), desk.replicator # NoReplicator
               PROVE  /\ SyncWanted(desk) /\ desk.boot # StatusOnly
                      /\ desk.replicator.token = desk.token /\ desk.token = desk.clientToken
                      /\ desk.replicator.user = UserOf[desk.token]
                      /\ desk.replicator.user = desk.boot.user
    BY DEF IInv, ReplicatesAsSignedIn
  <2>1. SyncWanted(desk) /\ desk.repoToken = desk.token
    BY DEF Good, Sound, Linked
  <2>2. desk.boot = desk.offered /\ desk.offered # StatusOnly
    BY <2>1 DEF Good, Sound, Offer, SyncWanted
  <2>3. desk.replicator.token = desk.token /\ desk.replicator.user = UserOf[desk.token]
    BY <2>1 DEF Good, Sound, Repo
  <2>4. desk.token = desk.clientToken /\ desk.boot.user = UserOf[desk.token]
    BY <2>2 DEF Good, Sound, Client
  <2> QED BY <2>1, <2>2, <2>3, <2>4
<1> QED BY <1>1, Inductive, PTL

-----------------------------------------------------------------------------
(* What the service says of the replication, and the scope in its file.     *)

\* The file has the bootstrap in use; before the start there is none.
Remembered(k) ==
  /\ k.up /\ IsUsable(k.boot) => k.file # NoFile /\ k.file.boot = k.boot
  /\ ~k.up => k.boot = StatusOnly

\* The repository replicates with the bootstrap of the service, although not
\* always with its scope.
Applied(k) == k.replicator # NoReplicator => k.repoBoot = k.boot

Honest(k) ==
  k.state = "ready" =>
    k.replicator # NoReplicator /\ k.boot # StatusOnly /\ k.replicator.scope = k.boot.scope

Switched(k) == k.available => k.enabled = k.boot.enabled

Shown(k) == Remembered(k) /\ Applied(k) /\ Honest(k) /\ Switched(k)

\* What Shown is about.  A step that leaves it alone keeps Shown.
SameShown(j, k) ==
  /\ j.up = k.up /\ j.boot = k.boot /\ j.file = k.file /\ j.state = k.state
  /\ j.available = k.available /\ j.enabled = k.enabled
  /\ j.repoBoot = k.repoBoot /\ j.replicator = k.replicator

LEMMA SameLemma ==
  ASSUME NEW k, Shown(k), NEW j, SameShown(j, k)
  PROVE  Shown(j)
  BY DEF Shown, SameShown, Remembered, Applied, Honest, Switched

\* The file is left alone, or written with the bootstrap in use.
FileKept(j, k) == j.file = k.file \/ (j.file # NoFile /\ j.file.boot = j.boot)

LEMMA KeptLemma ==
  ASSUME NEW k, Remembered(k), NEW j, FileKept(j, k), j.up = k.up, j.boot = k.boot
  PROVE  Remembered(j)
  BY DEF Remembered, FileKept

-----------------------------------------------------------------------------
(* Saving and refreshing.                                                   *)

LEMMA SaveShown ==
  ASSUME NEW k \in Desk
  PROVE  LET j == SavePersistedSyncContext(k)
         IN  /\ j.state = k.state /\ FileKept(j, k)
             /\ IsUsable(k.boot) => j.file # NoFile /\ j.file.boot = k.boot
<1> DEFINE f == [boot |-> k.boot, hydration |-> k.hydration]
<1>1. CASE IsUsable(k.boot)
  <2>1. f \in [boot : Bootstraps, hydration : [Workspaces -> Hydration]]
    BY <1>1 DEF Desk, IsUsable, MaybeBootstrap
  <2>2. f # NoFile /\ f.boot = k.boot
    BY <2>1, NoneAssumption
  <2>3. SavePersistedSyncContext(k) = [k EXCEPT !.file = f]
    BY <1>1 DEF SavePersistedSyncContext
  <2> HIDE DEF f
  <2> QED BY <2>2, <2>3 DEF Desk, FileKept
<1>2. CASE ~IsUsable(k.boot)
  BY <1>2 DEF SavePersistedSyncContext, FileKept
<1> QED BY <1>1, <1>2

LEMMA RefreshShown ==
  ASSUME NEW k \in Desk
  PROVE  LET j == RefreshSnapshot(k) IN j.state = k.state /\ FileKept(j, k)
<1> DEFINE hy == [w \in Workspaces |-> HydrationOf(k, w)]
           r == [k EXCEPT !.seen = k.status, !.hydration = hy]
<1>1. hy \in [Workspaces -> Hydration]
  BY DEF HydrationOf, Hydration
<1> HIDE DEF hy
<1>2. r \in Desk /\ r.state = k.state /\ r.file = k.file
  BY <1>1 DEF Desk
<1>3. RefreshSnapshot(k) \in {r, SavePersistedSyncContext(r)}
  BY DEF RefreshSnapshot, hy
<1> HIDE DEF r
<1> QED BY <1>2, <1>3, SaveShown DEF FileKept

LEMMA StatusShown ==
  ASSUME NEW k \in Desk, NEW s \in {"disabled", "unavailable", "ready", "error"}
  PROVE  LET j == SetStatus(k, s) IN j.state = s /\ FileKept(j, k)
<1> DEFINE r == [k EXCEPT !.state = s]
<1>1. r \in Desk /\ r.state = s /\ r.file = k.file
  BY DEF Desk
<1> HIDE DEF r
<1>2. SetStatus(k, s) = RefreshSnapshot(r)
  BY DEF SetStatus, r
<1> QED BY <1>1, <1>2, RefreshShown DEF FileKept

-----------------------------------------------------------------------------
(* The repository.                                                          *)

LEMMA ChannelsLemma ==
  ASSUME NEW b \in Bootstraps, NEW c \in Bootstraps, Channels(b) = Channels(c),
         b # StatusOnly, c # StatusOnly
  PROVE  b.scope = c.scope
<1>1. \A w : w \in b.scope <=> <<"workspace", w>> \in Channels(b)
  BY DEF Channels
<1>2. \A w : w \in c.scope <=> <<"workspace", w>> \in Channels(c)
  BY DEF Channels
<1>3. b.scope \subseteq Workspaces /\ c.scope \subseteq Workspaces
  BY DEF Bootstraps
<1> QED BY <1>1, <1>2, <1>3

LEMMA StopShown ==
  ASSUME NEW k \in Desk
  PROVE  StopSync(k).file = k.file /\ ResetReplicator(k).file = k.file
  BY DEF StopSync, ResetReplicator, Desk

LEMMA TokenShown ==
  ASSUME NEW k \in Desk
  PROVE  LET j == SetSyncAccessToken(k)
         IN  /\ j.file = k.file /\ j.repoBoot = k.repoBoot
             /\ j.replicator # NoReplicator => j = k /\ k.repoToken = k.token
  BY DEF SetSyncAccessToken, ResetReplicator, Desk

\* A replicator that is left after a change of the channels goes with an error.
LEMMA BootstrapShown ==
  ASSUME NEW k \in Desk, NEW j \in ApplySyncBootstrap(k),
         k.replicator # NoReplicator => Channels(k.repoBoot) # Channels(k.boot)
  PROVE  /\ j.file = k.file
         /\ j.replicator # NoReplicator => j.status.state = "error"
<1> DEFINE With(st) == [k EXCEPT !.repoBoot = k.boot, !.status = st]
           applied == With(Status("configured", "none"))
           d == [ResetReplicator(applied) EXCEPT !.dirty = TRUE]
           failed == With(Status("error", "none"))
<1>1. \/ j = applied /\ Channels(k.repoBoot) = Channels(k.boot)
      \/ j = d \/ j = failed
  BY DEF ApplySyncBootstrap
<1>2. applied.file = k.file /\ applied.replicator = k.replicator
  BY DEF Desk
<1>3. failed.file = k.file /\ failed.status.state = "error"
  BY DEF Desk, Status
<1>4. d.file = k.file /\ d.replicator = NoReplicator
  BY DEF Desk, ResetReplicator
<1> HIDE DEF applied, failed, d
<1> QED BY <1>1, <1>2, <1>3, <1>4

LEMMA StartShown ==
  ASSUME NEW k \in Desk, k.replicator = NoReplicator,
         k.repoBoot # StatusOnly, k.repoToken # NoToken, NEW j \in StartSync(k)
  PROVE  /\ j.file = k.file /\ j.repoBoot = k.repoBoot
         /\ j.status.state # "error" =>
              j.replicator # NoReplicator /\ j.replicator.scope = k.repoBoot.scope
<1>1. ~KeepsReplicator(k)
  BY DEF KeepsReplicator
<1>2. CASE j \in Started(k)
  <2> DEFINE Rep(e) == [token |-> k.repoToken, user |-> k.repoBoot.user,
                        scope |-> k.repoBoot.scope,
                        activity |-> IF e THEN "failed" ELSE "active", told |-> e]
             st == Status("running", "active")
  <2>1. PICK e \in BOOLEAN :
          j = [k EXCEPT !.dirty = FALSE, !.status = Status("running", "active"),
                        !.replicator = Rep(e)]
    BY <1>2, Zenon DEF Started
  <2>2. k.repoToken \in Tokens /\ k.repoBoot \in Bootstraps
    BY DEF Desk, MaybeToken, MaybeBootstrap
  <2>3. Rep(e) \in Replicators /\ Rep(e).scope = k.repoBoot.scope
    BY <2>2 DEF Replicators, Bootstraps
  <2> HIDE DEF Rep
  <2>4. j.file = k.file /\ j.repoBoot = k.repoBoot /\ j.replicator = Rep(e)
    BY <2>1 DEF Desk
  <2> QED BY <2>3, <2>4, NoneAssumption
<1>3. CASE j = [ResetReplicator(k) EXCEPT !.status = Status("error", "none")]
  BY <1>3 DEF ResetReplicator, Desk, Status
<1> QED BY <1>1, <1>2, <1>3 DEF StartSync

-----------------------------------------------------------------------------
(* The service.                                                             *)

\* The service drives the repository only when something has changed.
Changed(k) ==
  SyncWanted(k) /\ k.replicator # NoReplicator =>
    k.repoToken # k.token \/ Channels(k.repoBoot) # Channels(k.boot)

LEMMA LifecycleShown ==
  ASSUME NEW k \in Desk, Repo(k), Ready(k), Changed(k), NEW j \in Lifecycle(k)
  PROVE  /\ j.file = k.file /\ Applied(j)
         /\ SyncWanted(j) /\ j.status.state # "error" =>
              j.replicator # NoReplicator /\ j.replicator.scope = j.boot.scope
<1>1. CASE ~SyncWanted(k)
  <2>1. j = StopSync(k)
    BY <1>1 DEF Lifecycle
  <2> QED BY <1>1, <2>1, StopLemma, StopShown DEF Applied, SameInputs, SyncWanted
<1>2. CASE SyncWanted(k)
  <2>1. k.boot # StatusOnly /\ k.token # NoToken /\ k.boot.user = UserOf[k.token]
    BY <1>2 DEF Ready
  <2> DEFINE t == SetSyncAccessToken(k)
  <2>2. t \in Desk /\ SameInputs(t, k) /\ Repo(t) /\ t.repoToken = k.token
    BY TokenLemma
  <2>3. /\ t.file = k.file /\ t.repoBoot = k.repoBoot
        /\ t.replicator # NoReplicator => t = k /\ k.repoToken = k.token
    BY TokenShown
  <2>4. j \in UNION {IF a.status.state = "error" THEN {a} ELSE StartSync(a)
                     : a \in ApplySyncBootstrap(t)}
    BY <1>2, <2>1 DEF Lifecycle, ApplyRepositorySyncLifecycle
  <2> HIDE DEF t
  <2>5. PICK a \in ApplySyncBootstrap(t) :
          IF a.status.state = "error" THEN j = a ELSE j \in StartSync(a)
    BY <2>4
  <2>6. t.replicator # NoReplicator => Channels(t.repoBoot) # Channels(t.boot)
    BY <1>2, <2>3 DEF Changed
  <2>7. a \in Desk /\ SameInputs(a, t) /\ Repo(a) /\ a.repoToken = t.repoToken
        /\ a.repoBoot = t.boot
    BY <2>2, BootstrapLemma
  <2>8. a.file = k.file /\ (a.replicator # NoReplicator => a.status.state = "error")
    BY <2>2, <2>3, <2>6, BootstrapShown
  <2>9. a.boot = k.boot /\ a.repoBoot = k.boot /\ a.repoToken = k.token
    BY <2>2, <2>7 DEF SameInputs
  <2>10. CASE a.status.state = "error"
    BY <2>5, <2>8, <2>9, <2>10 DEF Applied
  <2>11. CASE a.status.state # "error"
    <3>1. a.replicator = NoReplicator /\ j \in StartSync(a)
      BY <2>5, <2>8, <2>11
    <3>2. j \in Desk /\ SameInputs(j, a)
      BY <2>1, <2>7, <2>9, <3>1, StartLemma
    <3>3. /\ j.file = a.file /\ j.repoBoot = a.repoBoot
          /\ j.status.state # "error" =>
               j.replicator # NoReplicator /\ j.replicator.scope = a.repoBoot.scope
      BY <2>1, <2>7, <2>9, <3>1, StartShown
    <3> QED BY <2>8, <2>9, <3>2, <3>3 DEF Applied, SameInputs
  <2> QED BY <2>10, <2>11
<1> QED BY <1>1, <1>2

LEMMA RecomputeShown ==
  ASSUME NEW k \in Desk, Repo(k), Ready(k), Changed(k), NEW j \in RecomputeStatus(k)
  PROVE  /\ Applied(j) /\ Honest(j)
         /\ Remembered(k) => Remembered(j)
         /\ Switched(k) => Switched(j)
<1>1. PICK a \in Lifecycle(k) : j = SetStatus(a, StateOf(a))
  BY DEF RecomputeStatus
<1>2. a \in Desk /\ SameInputs(a, k)
  BY LifecycleLemma
<1>3. /\ a.file = k.file /\ Applied(a)
      /\ SyncWanted(a) /\ a.status.state # "error" =>
           a.replicator # NoReplicator /\ a.replicator.scope = a.boot.scope
  BY LifecycleShown
<1>4. StateOf(a) \in {"disabled", "unavailable", "ready", "error"}
      /\ (StateOf(a) = "ready" => SyncWanted(a) /\ a.boot # StatusOnly /\ a.status.state # "error")
  BY DEF StateOf
<1>5. SameInputs(j, a) /\ SameRepository(j, a)
  BY <1>1, <1>2, <1>4, StatusLemma
<1>6. j.state = StateOf(a) /\ FileKept(j, a)
  BY <1>1, <1>2, <1>4, StatusShown
<1>7. Applied(j) /\ Honest(j)
  BY <1>3, <1>4, <1>5, <1>6 DEF Applied, Honest, SameInputs, SameRepository
<1>8. Remembered(k) => Remembered(j)
  <2>1. FileKept(j, k) /\ j.up = k.up /\ j.boot = k.boot
    BY <1>2, <1>3, <1>5, <1>6 DEF FileKept, SameInputs
  <2> QED BY <2>1, KeptLemma
<1>9. Switched(k) => Switched(j)
  BY <1>2, <1>5 DEF Switched, SameInputs
<1> QED BY <1>7, <1>8, <1>9

-----------------------------------------------------------------------------
(* The client and its signals.                                              *)

LEMMA DropShown ==
  ASSUME NEW k \in Desk, Repo(k), Shown(k), NEW j \in SetSyncBootstrap(k, StatusOnly)
  PROVE  Shown(j)
<1>1. CASE k.offered = StatusOnly
  BY <1>1 DEF SetSyncBootstrap
<1>2. CASE k.offered # StatusOnly
  <2> DEFINE o == [k EXCEPT !.offered = StatusOnly]
             lost == [o EXCEPT !.available = FALSE, !.enabled = FALSE]
  <2>1. o \in Desk
    BY DEF Desk, MaybeBootstrap
  <2>2. /\ o.replicator = k.replicator /\ o.repoToken = k.repoToken
        /\ o.up = k.up /\ o.boot = k.boot /\ o.file = k.file
    BY DEF Desk
  <2>3. j \in RecomputeStatus(lost)
    BY <1>2 DEF SetSyncBootstrap, SetBackendBootstrap, BootstrapLost
  <2> HIDE DEF o
  <2>4. lost \in Desk
    BY <2>1 DEF Desk
  <2>5. /\ lost.replicator = o.replicator /\ lost.repoToken = o.repoToken /\ ~lost.available
        /\ lost.up = o.up /\ lost.boot = o.boot /\ lost.file = o.file
    BY <2>1 DEF Desk
  <2> HIDE DEF lost
  <2>6. Repo(lost) /\ Ready(lost) /\ Changed(lost) /\ Switched(lost)
    BY <2>2, <2>5 DEF Repo, Ready, Changed, Switched, SyncWanted
  <2>7. Remembered(lost)
    BY <2>2, <2>5 DEF Shown, Remembered
  <2> QED BY <2>3, <2>4, <2>6, <2>7, RecomputeShown DEF Shown
<1> QED BY <1>1, <1>2

\* A bootstrap that is not the one the client has, if both are enabled, differs
\* in its scope.
LEMMA OfferShown ==
  ASSUME NEW k, Sound(k), Shown(k), k.up, k.token = k.clientToken, k.token # NoToken,
         NEW b \in Bootstraps, b # StatusOnly, b.user = UserOf[k.token],
         NEW j \in SetSyncBootstrap(k, b)
  PROVE  Shown(j)
<1>1. CASE k.offered = b
  BY <1>1 DEF SetSyncBootstrap
<1>2. CASE k.offered # b
  <2> DEFINE o == [k EXCEPT !.offered = b]
             w == WithBootstrap(o, b)
             f == SavePersistedSyncContext(w)
  <2>1. o \in Desk
    BY DEF Sound, Desk, MaybeBootstrap
  <2>2. /\ SameSession(o, k) /\ SameRepository(o, k) /\ o.offered = b
        /\ o.auth = k.auth /\ o.sync = k.sync
    BY DEF Sound, Desk, SameSession, SameRepository
  <2>3. j \in RecomputeStatus(f)
    BY <1>2 DEF SetSyncBootstrap, SetBackendBootstrap
  <2> HIDE DEF o
  <2>4. w \in Desk /\ SameRepository(w, o) /\ SameSession(w, o) /\ w.boot = b
    BY <2>1, WithBootstrapLemma
  <2>5. w.available /\ w.enabled = b.enabled /\ w.auth = o.auth /\ w.sync = o.sync
    <3> DEFINE h == IF o.boot = b THEN o ELSE ResetWorkspaceHydration(o)
    <3>1. h \in Desk /\ h.auth = o.auth /\ h.sync = o.sync
      BY <2>1, HydrationLemma DEF SameInputs
    <3>2. w = [h EXCEPT !.available = TRUE, !.enabled = b.enabled, !.boot = b]
      BY DEF WithBootstrap
    <3> HIDE DEF h, w
    <3> QED BY <3>1, <3>2 DEF Desk
  <2> HIDE DEF w
  <2>6. f \in Desk /\ SameInputs(f, w) /\ SameRepository(f, w)
    BY <2>4, SaveLemma
  <2>7. IsUsable(b) => f.file # NoFile /\ f.file.boot = b
    BY <2>4, SaveShown
  <2> HIDE DEF f
  <2>8. /\ f.boot = b /\ f.up /\ f.token = k.token /\ f.available /\ f.enabled = b.enabled
        /\ f.auth = k.auth /\ f.sync = k.sync /\ f.replicator = k.replicator
        /\ f.repoBoot = k.repoBoot /\ f.repoToken = k.repoToken
    BY <2>2, <2>4, <2>5, <2>6 DEF SameInputs, SameSession, SameRepository
  <2>9. Repo(f) /\ Ready(f) /\ Switched(f)
    BY <2>8 DEF Sound, Repo, Ready, Switched
  <2>10. Remembered(f)
    BY <2>7, <2>8 DEF Remembered
  <2>11. Changed(f)
    <3> SUFFICES ASSUME SyncWanted(f), k.replicator # NoReplicator,
                        Channels(k.repoBoot) = Channels(b)
                 PROVE  FALSE
      BY <2>8 DEF Changed
    <3>1. SyncWanted(k) /\ k.boot = k.offered /\ k.offered # StatusOnly
      BY DEF Sound, Linked, Offer, SyncWanted
    <3>2. k.repoBoot = k.boot /\ k.boot.enabled /\ b.enabled
      BY <2>8, <3>1 DEF Shown, Applied, Switched, SyncWanted
    <3>3. k.boot \in Bootstraps /\ k.boot.user = b.user
      BY <3>1 DEF Sound, Client, Desk, MaybeBootstrap
    <3>4. k.boot.scope = b.scope
      BY <3>1, <3>2, <3>3, ChannelsLemma
    <3>5. k.boot = b
      BY <3>2, <3>3, <3>4 DEF Bootstraps
    <3> QED BY <1>2, <3>1, <3>5
  <2> QED BY <2>3, <2>6, <2>9, <2>10, <2>11, RecomputeShown DEF Shown
<1> QED BY <1>1, <1>2

LEMMA FetchShown ==
  ASSUME NEW k \in Desk, Repo(k), Shown(k), NEW j \in RefreshSyncBootstrap(k)
  PROVE  Shown(j)
<1> DEFINE n == [k EXCEPT !.fetch = NoToken]
           c == [k EXCEPT !.fetch = k.clientToken]
<1>1. CASE j \in SetSyncBootstrap(n, StatusOnly)
  <2>1. n \in Desk
    BY DEF Desk, MaybeToken
  <2>2. SameShown(n, k) /\ n.repoToken = k.repoToken
    BY DEF Desk, SameShown
  <2> HIDE DEF n
  <2>3. Repo(n) /\ Shown(n)
    BY <2>2, SameLemma DEF Repo, SameShown
  <2> QED BY <1>1, <2>1, <2>3, DropShown
<1>2. CASE j = c
  <2>1. SameShown(c, k)
    BY DEF Desk, SameShown
  <2> HIDE DEF c
  <2> QED BY <1>2, <2>1, SameLemma
<1> QED BY <1>1, <1>2 DEF RefreshSyncBootstrap

LEMMA ClientTokenShown ==
  ASSUME NEW k, Sound(k), Shown(k), NEW t \in MaybeToken, NEW j \in SetClientToken(k, t)
  PROVE  Shown(j)
<1>1. CASE k.clientToken = t
  BY <1>1 DEF SetClientToken
<1>2. CASE k.clientToken # t
  <2> DEFINE c == [k EXCEPT !.clientToken = t]
  <2>1. c \in Desk
    BY DEF Sound, Desk
  <2>2. SameShown(c, k) /\ c.repoToken = k.repoToken
    BY DEF Sound, Desk, SameShown
  <2>3. j \in RefreshSyncBootstrap(c)
    BY <1>2 DEF SetClientToken
  <2> HIDE DEF c
  <2>4. Repo(c) /\ Shown(c)
    BY <2>2, SameLemma DEF Sound, Repo, SameShown
  <2> QED BY <2>1, <2>3, <2>4, FetchShown
<1> QED BY <1>1, <1>2

\* The repository has the token the service had: the new one is a change.
LEMMA ServiceTokenShown ==
  ASSUME NEW k, Sound(k), Shown(k), NEW j \in SetServiceToken(k, k.clientToken)
  PROVE  Shown(j)
<1>1. CASE k.token = k.clientToken
  BY <1>1 DEF SetServiceToken
<1>2. CASE k.token # k.clientToken
  <2> DEFINE h == ResetWorkspaceHydration(k)
             s == [h EXCEPT !.token = k.clientToken]
  <2>1. h \in Desk /\ SameInputs(h, k) /\ SameRepository(h, k)
    BY HydrationLemma DEF Sound
  <2>2. h.file = k.file /\ h.state = k.state
    BY DEF ResetWorkspaceHydration, Sound, Desk
  <2>3. j \in RecomputeStatus(s)
    BY <1>2 DEF SetServiceToken
  <2>4. SameShown(h, k)
    BY <2>1, <2>2 DEF SameShown, SameInputs, SameRepository
  <2> HIDE DEF h
  <2>5. k.clientToken \in MaybeToken
    BY DEF Sound, Desk
  <2>6. s \in Desk
    BY <2>1, <2>5 DEF Desk
  <2>7. /\ s.token = k.clientToken /\ SameRepository(s, h) /\ SameShown(s, h)
        /\ s.clientToken = h.clientToken /\ s.offered = h.offered
        /\ s.auth = h.auth /\ s.sync = h.sync
    BY <2>1 DEF Desk, SameRepository, SameShown
  <2> HIDE DEF s
  <2>8. Shown(s)
    BY <2>4, <2>7, SameLemma
  <2>9. Repo(s)
    BY <2>1, <2>7 DEF Sound, SameRepository, Repo
  <2>10. Ready(s)
    BY <2>1, <2>4, <2>7 DEF Sound, SameInputs, SameShown, Ready, SyncWanted, Offer, Client
  <2>11. Changed(s)
    BY <1>2, <2>1, <2>7 DEF Sound, SameRepository, Changed, Linked
  <2> QED BY <2>3, <2>6, <2>8, <2>9, <2>10, <2>11, RecomputeShown DEF Shown
<1> QED BY <1>1, <1>2

LEMMA TokenChangedShown ==
  ASSUME NEW k, Sound(k), Shown(k), NEW t \in MaybeToken,
         k.clientToken # NoToken /\ t # NoToken => UserOf[t] = UserOf[k.clientToken],
         NEW j \in AccessTokenChanged(k, t)
  PROVE  Shown(j)
<1>1. PICK c \in SetClientToken(k, t) : j \in SetServiceToken(c, t)
  BY DEF AccessTokenChanged
<1>2. Sound(c) /\ c.clientToken = t
  BY ClientTokenLemma
<1>3. Shown(c)
  BY ClientTokenShown
<1> QED BY <1>1, <1>2, <1>3, ServiceTokenShown

LEMMA ClientSettingsShown ==
  ASSUME NEW k, Sound(k), Shown(k), NEW settings \in Settings, NEW j \in ApplyClientSettings(k, settings)
  PROVE  Shown(j)
<1>1. CASE settings.backend
  <2> DEFINE b == [k EXCEPT !.backend = TRUE]
             c == [b EXCEPT !.conn = "checking"]
  <2>1. j = c
    BY <1>1 DEF ApplyClientSettings, RefreshHealth
  <2>2. b \in Desk /\ SameShown(b, k)
    BY DEF Sound, Desk, SameShown
  <2> HIDE DEF b
  <2>3. SameShown(c, b)
    BY <2>2 DEF Desk, SameShown
  <2> HIDE DEF c
  <2> QED BY <2>1, <2>2, <2>3, SameLemma
<1>2. CASE ~settings.backend
  <2> DEFINE b == [k EXCEPT !.backend = FALSE, !.fetch = NoToken]
  <2>1. PICK off \in SetSyncBootstrap(b, StatusOnly) : j = [off EXCEPT !.conn = "local"]
    BY <1>2 DEF ApplyClientSettings
  <2>2. b \in Desk
    BY DEF Sound, Desk, MaybeToken
  <2>3. /\ SameShown(b, k) /\ SameRepository(b, k)
        /\ b.token = k.token /\ b.offered = k.offered /\ b.auth = k.auth /\ b.sync = k.sync
    BY DEF Sound, Desk, SameShown, SameRepository
  <2> HIDE DEF b
  <2>4. Repo(b) /\ Linked(b) /\ Offer(b)
    BY <2>3 DEF Sound, SameShown, SameRepository, Repo, Linked, Offer, SyncWanted
  <2>5. off \in Desk
    BY <2>2, <2>4, DropLemma
  <2>6. Shown(off)
    BY <2>2, <2>3, <2>4, SameLemma, DropShown
  <2>7. SameShown(j, off)
    BY <2>1, <2>5 DEF Desk, SameShown
  <2> QED BY <2>6, <2>7, SameLemma
<1> QED BY <1>1, <1>2

-----------------------------------------------------------------------------
(* The actions.                                                             *)

\* New switches without a bootstrap: nothing replicates.
LEMMA SettingsOff ==
  ASSUME NEW k \in Desk, Repo(k), ~k.available, Remembered(k), NEW j \in RecomputeStatus(k)
  PROVE  Shown(j)
<1>1. Ready(k) /\ Changed(k) /\ Switched(k)
  BY DEF Ready, Changed, Switched, SyncWanted
<1> QED BY <1>1, RecomputeShown DEF Shown

LEMMA ConstructedShown ==
  ASSUME NEW stored, NEW file
  PROVE  Shown(Constructed(stored, file))
<1> DEFINE k == Constructed(stored, file)
<1>1. /\ k.up = FALSE /\ k.available = FALSE /\ k.boot = StatusOnly
      /\ k.state = "disabled" /\ k.replicator = NoReplicator
  BY DEF Constructed
<1> HIDE DEF k
<1>2. Shown(k)
  BY <1>1 DEF Shown, Remembered, Applied, Honest, Switched
<1> QED BY <1>2 DEF k

LEMMA LaunchShown == Good(desk) /\ Shown(desk) /\ Launch => Shown(desk')
<1> SUFFICES ASSUME Good(desk), Shown(desk), Launch PROVE Shown(desk')
  OBVIOUS
<1> DEFINE k == [desk EXCEPT !.up = TRUE]
<1>1. PICK settings \in Settings : \E client \in ApplyClientSettings(k, settings) :
        desk' \in SetRepository([LoadPersistedSyncContext(client)
                                  EXCEPT !.auth = settings.auth, !.sync = settings.sync])
  BY DEF Launch
<1>2. PICK client \in ApplyClientSettings(k, settings) :
        desk' \in SetRepository([LoadPersistedSyncContext(client)
                                  EXCEPT !.auth = settings.auth, !.sync = settings.sync])
  BY <1>1
<1>3. k \in Desk
  BY DEF Good, Sound, Desk
<1>4. /\ k.up = TRUE /\ k.clientToken = desk.clientToken /\ k.fetch = desk.fetch
      /\ k.offered = desk.offered /\ k.auth = desk.auth /\ k.sync = desk.sync
      /\ k.token = desk.token /\ k.available = desk.available /\ k.enabled = desk.enabled
      /\ k.boot = desk.boot /\ k.repoToken = desk.repoToken /\ k.replicator = desk.replicator
      /\ k.repoBoot = desk.repoBoot /\ k.state = desk.state /\ k.file = desk.file
  BY DEF Good, Sound, Desk
<1> HIDE DEF k
<1>5. Sound(k)
  BY <1>3, <1>4 DEF Good, Sound, Repo, Linked, Offer, Client, SyncWanted
<1>6. Shown(k)
  BY <1>4 DEF Launch, Shown, Remembered, IsUsable, Applied, Honest, Switched
<1>7. Sound(client) /\ client.up = TRUE /\ ~client.available
  BY <1>4, <1>5, ClientSettingsLemma DEF Good, Launch
<1>8. Shown(client)
  BY <1>5, <1>6, ClientSettingsShown
<1> DEFINE l == LoadPersistedSyncContext(client)
           s == [l EXCEPT !.auth = settings.auth, !.sync = settings.sync]
           h == ResetWorkspaceHydration(s)
<1>9. /\ l \in Desk /\ l.up = client.up /\ l.available = client.available
      /\ SameRepository(l, client) /\ Remembered(l)
  <2>1. CASE client.file = NoFile
    BY <1>7, <1>8, <2>1 DEF LoadPersistedSyncContext, Sound, SameRepository, Shown
  <2>2. CASE client.file # NoFile
    <3>1. client.file.boot \in Bootstraps /\ client.file.hydration \in [Workspaces -> Hydration]
      BY <1>7, <2>2 DEF Sound, Desk
    <3>2. l = [client EXCEPT !.boot = client.file.boot, !.hydration = client.file.hydration]
      BY <2>2 DEF LoadPersistedSyncContext
    <3> HIDE DEF l
    <3>3. l \in Desk
      BY <1>7, <3>1, <3>2 DEF Sound, Desk, MaybeBootstrap
    <3>4. /\ l.up = client.up /\ l.available = client.available /\ SameRepository(l, client)
          /\ l.boot = client.file.boot /\ l.file = client.file
      BY <1>7, <3>2 DEF Sound, Desk, SameRepository
    <3> QED BY <1>7, <2>2, <3>3, <3>4 DEF Remembered
  <2> QED BY <2>1, <2>2
<1>10. desk' \in SetRepository(s)
  BY <1>2
<1> HIDE DEF l
<1>11. settings.auth \in BOOLEAN /\ settings.sync \in BOOLEAN
  BY SyncServiceAssumption
<1>12. /\ s \in Desk /\ s.up = l.up /\ s.available = l.available /\ SameRepository(s, l)
       /\ s.boot = l.boot /\ s.file = l.file
  BY <1>9, <1>11 DEF Desk, SameRepository
<1> HIDE DEF s
<1>13. h \in Desk /\ SameInputs(h, s) /\ SameRepository(h, s) /\ h.file = s.file
  BY <1>12, HydrationLemma DEF ResetWorkspaceHydration, Desk
<1>14. desk' \in RecomputeStatus(h)
  BY <1>10 DEF SetRepository
<1> HIDE DEF h
<1>15. ~h.available
  BY <1>7, <1>9, <1>12, <1>13 DEF SameInputs
<1>16. Repo(h)
  BY <1>7, <1>9, <1>12, <1>13 DEF Sound, SameRepository, Repo
<1>17. Remembered(h)
  BY <1>9, <1>12, <1>13 DEF SameInputs, Remembered
<1> QED BY <1>13, <1>14, <1>15, <1>16, <1>17, SettingsOff

LEMMA SettingsShown == Good(desk) /\ Shown(desk) /\ SettingsChanged => Shown(desk')
<1> SUFFICES ASSUME Good(desk), Shown(desk), SettingsChanged PROVE Shown(desk')
  OBVIOUS
<1>1. PICK settings \in Settings : \E client \in ApplyClientSettings(desk, settings) :
        \E signedOut \in AccessTokenChanged(client, NoToken) :
          desk' \in ApplyServiceSettings(signedOut, settings)
  BY DEF SettingsChanged
<1>2. PICK client \in ApplyClientSettings(desk, settings) :
        \E signedOut \in AccessTokenChanged(client, NoToken) :
          desk' \in ApplyServiceSettings(signedOut, settings)
  BY <1>1
<1>3. Sound(client) /\ client.up
  BY ClientSettingsLemma DEF Good, SettingsChanged
<1>4. Shown(client)
  BY ClientSettingsShown DEF Good
<1>5. NoToken \in MaybeToken
  BY DEF MaybeToken
<1>6. PICK k \in AccessTokenChanged(client, NoToken) : desk' \in ApplyServiceSettings(k, settings)
  BY <1>2
<1>7. Good(k) /\ k.clientToken = NoToken
  BY <1>3, <1>5, <1>6, TokenChangedLemma
<1>8. Shown(k)
  BY <1>3, <1>4, <1>5, <1>6, TokenChangedShown
<1>9. ~k.available
  BY <1>7 DEF Good, Sound, Offer, Client
<1> DEFINE h == IF k.auth = settings.auth /\ k.sync = settings.sync THEN k
                ELSE ResetWorkspaceHydration(k)
           s == [h EXCEPT !.auth = settings.auth, !.sync = settings.sync]
<1>10. h \in Desk /\ SameInputs(h, k) /\ SameRepository(h, k) /\ h.file = k.file
  <2>1. k \in Desk
    BY <1>7 DEF Good, Sound
  <2>2. ResetWorkspaceHydration(k).file = k.file
    BY <2>1 DEF ResetWorkspaceHydration, Desk
  <2> QED BY <2>1, <2>2, HydrationLemma DEF SameInputs, SameRepository
<1>11. desk' \in RecomputeStatus(s)
  BY <1>6 DEF ApplyServiceSettings
<1> HIDE DEF h
<1>12. settings.auth \in BOOLEAN /\ settings.sync \in BOOLEAN
  BY SyncServiceAssumption
<1>13. /\ s \in Desk /\ s.up = h.up /\ s.available = h.available /\ SameRepository(s, h)
       /\ s.boot = h.boot /\ s.file = h.file
  BY <1>10, <1>12 DEF Desk, SameRepository
<1> HIDE DEF s
<1>14. Repo(s)
  BY <1>7, <1>10, <1>13 DEF Good, Sound, SameRepository, Repo
<1>15. Remembered(s) /\ ~s.available
  BY <1>8, <1>9, <1>10, <1>13 DEF Shown, SameInputs, Remembered
<1> QED BY <1>11, <1>13, <1>14, <1>15, SettingsOff

LEMMA HealthShown == Good(desk) /\ Shown(desk) /\ (HealthTimer \/ HealthAnswered) => Shown(desk')
<1> SUFFICES ASSUME Good(desk), Shown(desk), HealthTimer \/ HealthAnswered PROVE Shown(desk')
  OBVIOUS
<1>0. desk \in Desk /\ Repo(desk) /\ Linked(desk) /\ Offer(desk)
  BY DEF Good, Sound
<1>1. CASE HealthTimer
  <2>1. SameShown(desk', desk)
    BY <1>0, <1>1 DEF HealthTimer, RefreshHealth, Desk, SameShown
  <2> QED BY <2>1, SameLemma
<1>2. CASE HealthFailed
  <2>1. PICK lost \in SetSyncBootstrap(desk, StatusOnly) :
          desk' = [lost EXCEPT !.conn = "unavailable"]
    BY <1>2 DEF HealthFailed
  <2>2. lost \in Desk /\ Shown(lost)
    BY <1>0, DropLemma, DropShown
  <2>3. SameShown(desk', lost)
    BY <2>1, <2>2 DEF Desk, SameShown
  <2> QED BY <2>2, <2>3, SameLemma
<1>3. CASE HealthOk
  <2> DEFINE k == [desk EXCEPT !.conn = "reachable"]
  <2>1. desk' \in RefreshSyncBootstrap(k)
    BY <1>3 DEF HealthOk
  <2>2. k \in Desk /\ SameShown(k, desk) /\ k.repoToken = desk.repoToken
    BY <1>0 DEF Desk, SameShown
  <2> HIDE DEF k
  <2>3. Repo(k) /\ Shown(k)
    BY <1>0, <2>2, SameLemma DEF Repo, SameShown
  <2> QED BY <2>1, <2>2, <2>3, FetchShown
<1> QED BY <1>1, <1>2, <1>3 DEF HealthAnswered

LEMMA AnswerShown == Good(desk) /\ Shown(desk) /\ BootstrapAnswered => Shown(desk')
<1> SUFFICES ASSUME Good(desk), Shown(desk), BootstrapAnswered PROVE Shown(desk')
  OBVIOUS
<1> DEFINE k == [desk EXCEPT !.fetch = NoToken]
<1>1. desk.fetch # NoToken
  BY DEF BootstrapAnswered, BootstrapOffered, BootstrapRefused
<1>2. desk.up /\ desk.fetch = desk.clientToken /\ desk.token = desk.clientToken
  BY <1>1 DEF Good, Sound, Client
<1>3. desk.fetch \in Tokens
  BY <1>1 DEF Good, Sound, Desk, MaybeToken
<1>4. PICK b \in Offers(desk.fetch) \cup Refusals(desk.fetch) : desk' \in SetSyncBootstrap(k, b)
  BY DEF BootstrapAnswered, BootstrapOffered, BootstrapRefused, AnswerOf
<1>5. b = StatusOnly \/ (b \in Bootstraps /\ b.user = UserOf[desk.fetch])
  BY <1>3, SyncServiceAssumption DEF Offers, Refusals, Bootstraps
<1>6. k \in Desk
  BY DEF Good, Sound, Desk, MaybeToken
<1>7. /\ k.fetch = NoToken /\ k.clientToken = desk.clientToken /\ SameShown(k, desk)
      /\ SameRepository(k, desk) /\ k.token = desk.token /\ k.offered = desk.offered
      /\ k.auth = desk.auth /\ k.sync = desk.sync
  BY DEF Good, Sound, Desk, SameShown, SameRepository
<1> HIDE DEF k
<1>8. Sound(k)
  <2>1. Repo(k) /\ Linked(k)
    BY <1>7 DEF Good, Sound, SameShown, SameRepository, Repo, Linked, SyncWanted
  <2>2. Offer(k) /\ Client(k)
    BY <1>7 DEF Good, Sound, SameShown, Offer, Client
  <2> QED BY <1>6, <2>1, <2>2 DEF Sound
<1>9. Shown(k)
  BY <1>7, SameLemma
<1>10. CASE b = StatusOnly
  BY <1>4, <1>6, <1>8, <1>9, <1>10, DropShown DEF Sound
<1>11. CASE b # StatusOnly
  <2>1. /\ b \in Bootstraps /\ b.user = UserOf[k.token] /\ k.token # NoToken
        /\ k.up /\ k.token = k.clientToken
    BY <1>1, <1>2, <1>5, <1>7, <1>11 DEF SameShown
  <2> QED BY <1>4, <1>8, <1>9, <1>11, <2>1, OfferShown
<1> QED BY <1>10, <1>11

LEMMA StoreShown ==
  Good(desk) /\ Shown(desk)
    /\ (RefreshTimer \/ Wipe \/ \E w \in Workspaces : CreateDocument(w) \/ PullDocument(w))
    => Shown(desk')
<1> SUFFICES ASSUME Good(desk), Shown(desk),
                    RefreshTimer \/ Wipe
                      \/ \E w \in Workspaces : CreateDocument(w) \/ PullDocument(w)
             PROVE  Shown(desk')
  OBVIOUS
<1>0. desk \in Desk
  BY DEF Good, Sound
<1>1. CASE RefreshTimer
  <2> DEFINE e == [desk EXCEPT !.state = "error"]
  <2>1. e \in Desk /\ e.state = "error" /\ SameRepository(e, desk) /\ e.up = desk.up
        /\ e.boot = desk.boot /\ e.file = desk.file /\ e.available = desk.available
        /\ e.enabled = desk.enabled
    BY <1>0 DEF Desk, SameRepository
  <2>2. desk' \in {RefreshSnapshot(e), RefreshSnapshot(desk)}
    BY <1>1 DEF RefreshTimer, RefreshStatus
  <2> HIDE DEF e
  <2>3. Shown(e)
    BY <2>1 DEF SameRepository, Shown, Remembered, Applied, Honest, Switched
  <2>4. ASSUME NEW k \in Desk, Shown(k)
        PROVE  Shown(RefreshSnapshot(k))
    <3> DEFINE j == RefreshSnapshot(k)
    <3>1. SameInputs(j, k) /\ SameRepository(j, k) /\ j.state = k.state /\ FileKept(j, k)
      BY <2>4, RefreshLemma, RefreshShown
    <3> HIDE DEF j
    <3>2. Remembered(j)
      BY <2>4, <3>1, KeptLemma DEF Shown, SameInputs
    <3>3. Applied(j) /\ Honest(j) /\ Switched(j)
      BY <2>4, <3>1 DEF Shown, SameInputs, SameRepository, Applied, Honest, Switched
    <3> QED BY <3>2, <3>3 DEF Shown, j
  <2> QED BY <1>0, <2>1, <2>2, <2>3, <2>4
<1>2. CASE Wipe
  <2>1. SameShown(desk', desk)
    BY <1>0, <1>2 DEF Wipe, Desk, SameShown
  <2> QED BY <2>1, SameLemma
<1>3. ASSUME NEW w \in Workspaces, CreateDocument(w) \/ PullDocument(w)
      PROVE  Shown(desk')
  <2>1. desk' = [desk EXCEPT !.stored = desk.stored \cup {w}]
    BY <1>3 DEF CreateDocument, PullDocument
  <2>2. SameShown(desk', desk)
    BY <1>0, <2>1 DEF Desk, SameShown
  <2> QED BY <2>2, SameLemma
<1> QED BY <1>1, <1>2, <1>3

\* Whatever the replicator does, it keeps its scope.
LEMMA ReplicatorShown == Good(desk) /\ Shown(desk) /\ (ActivityChanges \/ Notify) => Shown(desk')
<1> SUFFICES ASSUME Good(desk), Shown(desk), ActivityChanges \/ Notify PROVE Shown(desk')
  OBVIOUS
<1>0. desk \in Desk /\ desk.replicator \in Replicators /\ desk.replicator # NoReplicator
  BY DEF ActivityChanges, Notify, Good, Sound, Desk
<1>1. /\ desk'.up = desk.up /\ desk'.boot = desk.boot /\ desk'.file = desk.file
      /\ desk'.state = desk.state /\ desk'.available = desk.available
      /\ desk'.enabled = desk.enabled /\ desk'.repoBoot = desk.repoBoot
  <2>1. CASE ActivityChanges
    BY <1>0, <2>1 DEF ActivityChanges, Desk
  <2>2. CASE Notify
    BY <1>0, <2>2 DEF Notify, Desk
  <2> QED BY <2>1, <2>2
<1>2. desk'.replicator \in Replicators /\ desk'.replicator.scope = desk.replicator.scope
  <2>1. CASE ActivityChanges
    <3>1. PICK a \in {"active", "idle", "failed"} :
            desk' = [desk EXCEPT !.replicator.activity = a, !.replicator.told = FALSE]
      BY <2>1 DEF ActivityChanges
    <3>2. desk'.replicator = [desk.replicator EXCEPT !.activity = a, !.told = FALSE]
      BY <1>0, <3>1 DEF Desk
    <3> QED BY <1>0, <3>2 DEF Replicators
  <2>2. CASE Notify
    <3>1. desk'.replicator = [desk.replicator EXCEPT !.told = TRUE]
      BY <1>0, <2>2 DEF Notify, Desk
    <3> QED BY <1>0, <3>1 DEF Replicators
  <2> QED BY <2>1, <2>2
<1>3. desk'.replicator # NoReplicator
  BY <1>2, NoneAssumption
<1> QED BY <1>0, <1>1, <1>2, <1>3 DEF Shown, Remembered, Applied, Honest, Switched

-----------------------------------------------------------------------------
(* The theorems.                                                            *)

SInv == Good(desk) /\ Shown(desk)

LEMMA ShownStep == Good(desk) /\ Shown(desk) /\ [Next]_vars => Shown(desk')
<1> SUFFICES ASSUME Good(desk), Shown(desk), [Next]_vars PROVE Shown(desk')
  OBVIOUS
<1>1. CASE Launch
  BY <1>1, LaunchShown
<1>2. CASE SettingsChanged
  BY <1>2, SettingsShown
<1>3. CASE SignedIn
  BY <1>3, TokenChangedShown DEF SignedIn, Good, MaybeToken
<1>4. CASE SignedOut
  BY <1>4, TokenChangedShown DEF SignedOut, Good, MaybeToken
<1>5. CASE HealthTimer \/ HealthAnswered
  BY <1>5, HealthShown
<1>6. CASE BootstrapAnswered
  BY <1>6, AnswerShown
<1>7. CASE RefreshTimer \/ Wipe \/ \E w \in Workspaces : CreateDocument(w) \/ PullDocument(w)
  BY <1>7, StoreShown
<1>8. CASE ActivityChanges \/ Notify
  BY <1>8, ReplicatorShown
<1>9. CASE Crash
  BY <1>9, ConstructedShown DEF Crash
<1>10. CASE UNCHANGED vars
  BY <1>10 DEF vars
<1> QED BY <1>1, <1>2, <1>3, <1>4, <1>5, <1>6, <1>7, <1>8, <1>9, <1>10 DEF Next

LEMMA Strengthened == Spec => []SInv
<1>1. Init => Shown(desk)
  BY ConstructedShown DEF Init
<1>2. Init => Good(desk)
  BY InitLemma DEF Init
<1>3. Good(desk) /\ [Next]_vars => Good(desk')
  BY GoodStep
<1>4. Init => SInv
  BY <1>1, <1>2 DEF SInv
<1>5. SInv /\ [Next]_vars => SInv'
  BY <1>3, ShownStep DEF SInv
<1> QED BY <1>4, <1>5, PTL DEF Spec

\* "Sync: ready" is shown only with a replicator that has the channels assigned
\* now, whatever fails on the way: starting it, promoting local pages
\* (RecomputeStatus, ApplySyncBootstrap, StartSync).
THEOREM ReadyCorrect == Spec => []ReadyIsHonest
<1>1. SInv => ReadyIsHonest
  BY DEF SInv, Shown, Honest, ReadyIsHonest
<1> QED BY <1>1, Strengthened, PTL

\* The file has the bootstrap the service works with, after any order of
\* bootstraps, crashes and restarts (SavePersistedSyncContext).
THEOREM ScopeCorrect == Spec => []ScopeIsRemembered
<1>1. SInv => ScopeIsRemembered
  BY DEF SInv, Shown, Remembered, ScopeIsRemembered
<1> QED BY <1>1, Strengthened, PTL

-----------------------------------------------------------------------------
(* What counts as materialized.                                             *)

\* From k to j nothing is stored, and what j takes for materialized was
\* materialized for k, or is stored.
Facts(j, k) ==
  /\ DOMAIN j = DOMAIN k /\ j.stored = k.stored
  /\ \A w \in Workspaces :
       j.hydration[w] = "materialized" => k.hydration[w] = "materialized" \/ w \in k.stored

HasFields(k) == DOMAIN k = DOMAIN Constructed({}, NoFile)

LEMMA FieldsLemma ==
  /\ \A k \in Desk : HasFields(k)
  /\ \A k : HasFields(k) =>
       {"stored", "hydration", "up", "file", "backend", "conn", "clientToken", "fetch", "offered",
        "auth", "sync", "token", "available", "enabled", "boot", "state", "seen", "repoToken",
        "repoBoot", "dirty", "status", "replicator"} = DOMAIN k
  BY DEF HasFields, Constructed, Desk

LEMMA FactsLemma ==
  /\ \A k : Facts(k, k)
  /\ \A i, j, k : Facts(i, j) /\ Facts(j, k) => Facts(i, k)
  /\ \A j, k : Facts(j, k) /\ HasFields(k) => HasFields(j)
  BY DEF Facts, HasFields

\* A change of other members.
LEMMA OtherFacts ==
  ASSUME NEW j, NEW k, DOMAIN j = DOMAIN k, j.stored = k.stored, j.hydration = k.hydration
  PROVE  Facts(j, k)
  BY DEF Facts

LEMMA SaveFacts == ASSUME NEW k, HasFields(k) PROVE Facts(SavePersistedSyncContext(k), k)
  BY FieldsLemma DEF Facts, SavePersistedSyncContext

LEMMA ResetFacts == ASSUME NEW k, HasFields(k) PROVE Facts(ResetWorkspaceHydration(k), k)
  BY FieldsLemma DEF Facts, ResetWorkspaceHydration, Unhydrated

\* The one place where a workspace becomes materialized.
LEMMA RefreshFacts == ASSUME NEW k, HasFields(k) PROVE Facts(RefreshSnapshot(k), k)
<1> DEFINE hydration == [w \in Workspaces |-> HydrationOf(k, w)]
           refreshed == [k EXCEPT !.seen = k.status, !.hydration = hydration]
<1>1. \A w \in Workspaces :
        hydration[w] = "materialized" => k.hydration[w] = "materialized" \/ w \in k.stored
  BY DEF HydrationOf
<1> HIDE DEF hydration
<1>2. /\ DOMAIN refreshed = DOMAIN k /\ refreshed.stored = k.stored
      /\ refreshed.hydration = hydration
  BY FieldsLemma
<1> HIDE DEF refreshed
<1>3. Facts(refreshed, k)
  BY <1>1, <1>2 DEF Facts
<1>4. HasFields(refreshed)
  BY <1>3, FactsLemma
<1>5. Facts(SavePersistedSyncContext(refreshed), k)
  BY <1>3, <1>4, SaveFacts, FactsLemma
<1>6. RefreshSnapshot(k) \in {refreshed, SavePersistedSyncContext(refreshed)}
  BY DEF RefreshSnapshot, refreshed, hydration
<1> QED BY <1>3, <1>5, <1>6

LEMMA StatusFacts ==
  ASSUME NEW k, HasFields(k)
  PROVE  Facts(RefreshStatus(k), k) /\ \A state : Facts(SetStatus(k, state), k)
<1>1. ASSUME NEW state PROVE Facts(SetStatus(k, state), k)
  <2> DEFINE shown == [k EXCEPT !.state = state]
  <2>1. Facts(shown, k)
    BY FieldsLemma DEF Facts
  <2> HIDE DEF shown
  <2>2. Facts(RefreshSnapshot(shown), k)
    BY <2>1, RefreshFacts, FactsLemma
  <2> QED BY <2>2 DEF SetStatus, shown
<1>2. RefreshStatus(k) \in {RefreshSnapshot(k), SetStatus(k, "error")}
  BY DEF RefreshStatus, SetStatus
<1> QED BY <1>1, <1>2, RefreshFacts

LEMMA LifecycleFacts ==
  ASSUME NEW k, HasFields(k), NEW j \in Lifecycle(k)
  PROVE  Facts(j, k)
<1>1. \A i : HasFields(i) => Facts(ResetReplicator(i), i) /\ Facts(StopSync(i), i)
  BY FieldsLemma DEF Facts, ResetReplicator, StopSync
<1>2. Facts(SetSyncAccessToken(k), k)
  BY FieldsLemma DEF Facts, SetSyncAccessToken, ResetReplicator
<1>3. ASSUME NEW i, HasFields(i), NEW applied \in ApplySyncBootstrap(i) PROVE Facts(applied, i)
  BY <1>3, FieldsLemma DEF Facts, ApplySyncBootstrap, ResetReplicator
<1>4. ASSUME NEW i, HasFields(i), NEW started \in StartSync(i) PROVE Facts(started, i)
  BY <1>4, FieldsLemma DEF Facts, StartSync, Started, ResetReplicator
<1>5. CASE j = StopSync(k)
  BY <1>1, <1>5
<1>6. CASE j = k
  BY <1>6, FactsLemma
<1>7. ASSUME j \in ApplyRepositorySyncLifecycle(k) PROVE Facts(j, k)
  <2>1. PICK applied \in ApplySyncBootstrap(SetSyncAccessToken(k)) :
          j = applied \/ j \in StartSync(applied)
    BY <1>7 DEF ApplyRepositorySyncLifecycle
  <2>2. Facts(applied, k) /\ HasFields(applied)
    BY <1>2, <1>3, FactsLemma
  <2> QED BY <1>4, <2>1, <2>2, FactsLemma
<1> QED BY <1>5, <1>6, <1>7 DEF Lifecycle

LEMMA RecomputeFacts ==
  ASSUME NEW k, HasFields(k), NEW j \in RecomputeStatus(k)
  PROVE  Facts(j, k)
<1>1. PICK applied \in Lifecycle(k) : j = SetStatus(applied, StateOf(applied))
  BY DEF RecomputeStatus
<1>2. Facts(applied, k) /\ HasFields(applied)
  BY LifecycleFacts, FactsLemma
<1> QED BY <1>1, <1>2, StatusFacts, FactsLemma

LEMMA OfferFacts ==
  ASSUME NEW k, HasFields(k), NEW b, NEW j \in SetSyncBootstrap(k, b)
  PROVE  Facts(j, k)
<1> DEFINE offered == [k EXCEPT !.offered = b]
           lost == [offered EXCEPT !.available = FALSE, !.enabled = FALSE]
<1>1. Facts(offered, k) /\ HasFields(offered)
  BY FieldsLemma DEF Facts, HasFields
<1>2. Facts(lost, k) /\ HasFields(lost)
  BY <1>1, FieldsLemma DEF Facts, HasFields
<1> HIDE DEF offered
<1>3. Facts(WithBootstrap(offered, b), k)
  <2> DEFINE reset == IF offered.boot = b THEN offered ELSE ResetWorkspaceHydration(offered)
  <2>1. Facts(reset, k) /\ HasFields(reset)
    BY <1>1, ResetFacts, FactsLemma
  <2> HIDE DEF reset
  <2>2. Facts([reset EXCEPT !.available = TRUE, !.enabled = b.enabled, !.boot = b], reset)
    BY <2>1, FieldsLemma DEF Facts
  <2> QED BY <2>1, <2>2, FactsLemma DEF WithBootstrap, reset
<1>4. Facts(SavePersistedSyncContext(WithBootstrap(offered, b)), k)
  BY <1>3, SaveFacts, FactsLemma
<1> HIDE DEF lost
<1>5. \/ j = k \/ j \in RecomputeStatus(lost)
      \/ j \in RecomputeStatus(SavePersistedSyncContext(WithBootstrap(offered, b)))
  BY DEF SetSyncBootstrap, SetBackendBootstrap, BootstrapLost, lost, offered
<1>6. HasFields(SavePersistedSyncContext(WithBootstrap(offered, b)))
  BY <1>4, FactsLemma
<1> QED BY <1>2, <1>4, <1>5, <1>6, RecomputeFacts, FactsLemma

LEMMA FetchFacts ==
  ASSUME NEW k, HasFields(k), NEW j \in RefreshSyncBootstrap(k)
  PROVE  Facts(j, k)
<1> DEFINE none == [k EXCEPT !.fetch = NoToken]
           sent == [k EXCEPT !.fetch = k.clientToken]
<1>1. Facts(none, k) /\ HasFields(none) /\ Facts(sent, k)
  BY FieldsLemma DEF Facts, HasFields
<1> HIDE DEF none, sent
<1>2. j \in SetSyncBootstrap(none, StatusOnly) \/ j = sent
  BY DEF RefreshSyncBootstrap, none, sent
<1> QED BY <1>1, <1>2, OfferFacts, FactsLemma

LEMMA TokenFacts ==
  ASSUME NEW k, HasFields(k), NEW t, NEW j \in AccessTokenChanged(k, t)
  PROVE  Facts(j, k)
<1>1. PICK client \in SetClientToken(k, t) : j \in SetServiceToken(client, t)
  BY DEF AccessTokenChanged
<1>2. Facts(client, k) /\ HasFields(client)
  <2> DEFINE told == [k EXCEPT !.clientToken = t]
  <2>1. Facts(told, k) /\ HasFields(told)
    BY FieldsLemma DEF Facts, HasFields
  <2> HIDE DEF told
  <2>2. client = k \/ client \in RefreshSyncBootstrap(told)
    BY DEF SetClientToken, told
  <2> QED BY <2>1, <2>2, FetchFacts, FactsLemma
<1>3. Facts(j, client)
  <2> DEFINE reset == ResetWorkspaceHydration(client)
             told == [reset EXCEPT !.token = t]
  <2>1. Facts(reset, client) /\ HasFields(reset)
    BY <1>2, ResetFacts, FactsLemma
  <2> HIDE DEF reset
  <2>2. Facts(told, reset)
    BY <2>1, FieldsLemma DEF Facts
  <2>3. Facts(told, client) /\ HasFields(told)
    BY <1>2, <2>1, <2>2, FactsLemma
  <2> HIDE DEF told
  <2>4. j = client \/ j \in RecomputeStatus(told)
    BY <1>1 DEF SetServiceToken, told, reset
  <2> QED BY <2>3, <2>4, RecomputeFacts, FactsLemma
<1> QED BY <1>2, <1>3, FactsLemma

LEMMA SettingsFacts ==
  ASSUME NEW k, HasFields(k), NEW settings
  PROVE  /\ \A j \in ApplyClientSettings(k, settings) : Facts(j, k)
         /\ \A j \in ApplyServiceSettings(k, settings) : Facts(j, k)
<1>1. ASSUME NEW j \in ApplyClientSettings(k, settings) PROVE Facts(j, k)
  <2> DEFINE off == [k EXCEPT !.backend = FALSE, !.fetch = NoToken]
             on == [k EXCEPT !.backend = TRUE]
  <2>1. Facts(off, k) /\ HasFields(off) /\ Facts(on, k) /\ HasFields(on)
    BY FieldsLemma DEF Facts, HasFields
  <2> HIDE DEF off, on
  <2>2. Facts(RefreshHealth(on), k)
    BY <2>1, FieldsLemma DEF Facts, RefreshHealth
  <2>3. j = RefreshHealth(on) \/ \E i \in SetSyncBootstrap(off, StatusOnly) : j = [i EXCEPT !.conn = "local"]
    BY DEF ApplyClientSettings, on, off
  <2>4. ASSUME NEW i \in SetSyncBootstrap(off, StatusOnly), j = [i EXCEPT !.conn = "local"]
        PROVE  Facts(j, k)
    <3>1. Facts(i, k) /\ HasFields(i)
      BY <2>1, OfferFacts, FactsLemma
    <3>2. Facts(j, i)
      BY <2>4, <3>1, FieldsLemma DEF Facts
    <3> QED BY <3>1, <3>2, FactsLemma
  <2> QED BY <2>2, <2>3, <2>4
<1>2. ASSUME NEW j \in ApplyServiceSettings(k, settings) PROVE Facts(j, k)
  <2> DEFINE kept == IF k.auth = settings.auth /\ k.sync = settings.sync THEN k
                     ELSE ResetWorkspaceHydration(k)
             new == [kept EXCEPT !.auth = settings.auth, !.sync = settings.sync]
  <2>1. Facts(kept, k) /\ HasFields(kept)
    BY ResetFacts, FactsLemma
  <2> HIDE DEF kept
  <2>2. Facts(new, kept)
    BY <2>1, FieldsLemma DEF Facts
  <2>3. Facts(new, k) /\ HasFields(new)
    BY <2>1, <2>2, FactsLemma
  <2> HIDE DEF new
  <2>4. j \in RecomputeStatus(new)
    BY DEF ApplyServiceSettings, new, kept
  <2> QED BY <2>3, <2>4, RecomputeFacts, FactsLemma
<1> QED BY <1>1, <1>2

\* No workspace counts as materialized without a document or a root record, in
\* particular after a cold start with the file of an earlier database: the step
\* that reads the file resets what it says (LoadPersistedSyncContext,
\* SetRepository, UpdateWorkspaceHydration).
THEOREM MaterializedCorrect == Spec => MaterializedFromFacts
<1> DEFINE Honestly ==
      \A w \in Workspaces :
        desk'.hydration[w] = "materialized" /\ desk.hydration[w] # "materialized"
          => w \in desk'.stored
<1>1. ASSUME TypeOK, Next PROVE Honestly
  <2>1. HasFields(desk)
    BY <1>1, FieldsLemma DEF TypeOK
  <2>2. ASSUME Facts(desk', desk) PROVE Honestly
    BY <2>2 DEF Facts
  <2>3. ASSUME desk'.hydration = desk.hydration PROVE Honestly
    BY <2>3
  <2>4. CASE Launch
    <3> DEFINE up == [desk EXCEPT !.up = TRUE]
    <3>0. PICK settings \in Settings : \E client \in ApplyClientSettings(up, settings) :
            desk' \in SetRepository([LoadPersistedSyncContext(client)
                                       EXCEPT !.auth = settings.auth, !.sync = settings.sync])
      BY <2>4 DEF Launch
    <3>1. PICK client \in ApplyClientSettings(up, settings) :
            desk' \in SetRepository([LoadPersistedSyncContext(client)
                                       EXCEPT !.auth = settings.auth, !.sync = settings.sync])
      BY <3>0
    <3>2. HasFields(up) /\ up.stored = desk.stored
      BY <2>1, FieldsLemma DEF HasFields
    <3> HIDE DEF up
    <3>3. HasFields(client) /\ client.stored = desk.stored
      BY <3>2, SettingsFacts, FactsLemma DEF Facts
    <3> DEFINE loaded == LoadPersistedSyncContext(client)
               switched == [loaded EXCEPT !.auth = settings.auth, !.sync = settings.sync]
               reset == ResetWorkspaceHydration(switched)
    <3>4. HasFields(loaded) /\ loaded.stored = desk.stored
      BY <3>3, FieldsLemma DEF LoadPersistedSyncContext, HasFields
    <3> HIDE DEF loaded
    <3>5. HasFields(switched) /\ switched.stored = desk.stored
      BY <3>4, FieldsLemma DEF HasFields
    <3> HIDE DEF switched
    <3>6. HasFields(reset) /\ reset.stored = desk.stored /\ reset.hydration = Unhydrated
      BY <3>5, FieldsLemma DEF HasFields, ResetWorkspaceHydration
    <3> HIDE DEF reset
    <3>7. desk' \in RecomputeStatus(reset)
      BY <3>1 DEF SetRepository, reset, switched, loaded
    <3>8. Facts(desk', reset)
      BY <3>6, <3>7, RecomputeFacts
    <3> QED BY <3>6, <3>8 DEF Facts, Unhydrated
  <2>5. CASE SettingsChanged
    <3>1. PICK settings \in Settings :
            \E client \in ApplyClientSettings(desk, settings) :
              \E signedOut \in AccessTokenChanged(client, NoToken) :
                desk' \in ApplyServiceSettings(signedOut, settings)
      BY <2>5 DEF SettingsChanged
    <3>2. PICK client \in ApplyClientSettings(desk, settings) :
            \E signedOut \in AccessTokenChanged(client, NoToken) :
              desk' \in ApplyServiceSettings(signedOut, settings)
      BY <3>1
    <3>3. PICK signedOut \in AccessTokenChanged(client, NoToken) :
            desk' \in ApplyServiceSettings(signedOut, settings)
      BY <3>2
    <3>4. Facts(client, desk) /\ HasFields(client)
      BY <2>1, SettingsFacts, FactsLemma
    <3>5. Facts(signedOut, desk) /\ HasFields(signedOut)
      BY <3>4, TokenFacts, FactsLemma
    <3>6. Facts(desk', signedOut)
      BY <3>3, <3>5, SettingsFacts
    <3> QED BY <2>2, <3>5, <3>6, FactsLemma
  <2>6. CASE SignedIn \/ SignedOut
    <3>1. PICK t : desk' \in AccessTokenChanged(desk, t)
      BY <2>6 DEF SignedIn, SignedOut
    <3> QED BY <2>1, <2>2, <3>1, TokenFacts
  <2>7. CASE HealthTimer
    BY <2>1, <2>3, <2>7, FieldsLemma DEF HealthTimer, RefreshHealth
  <2>8. CASE HealthAnswered
    <3>1. CASE HealthOk
      <4> DEFINE ok == [desk EXCEPT !.conn = "reachable"]
      <4>1. Facts(ok, desk) /\ HasFields(ok)
        BY <2>1, FieldsLemma DEF Facts, HasFields
      <4>2. desk' \in RefreshSyncBootstrap(ok)
        BY <3>1 DEF HealthOk
      <4> HIDE DEF ok
      <4> QED BY <2>2, <4>1, <4>2, FetchFacts, FactsLemma
    <3>2. CASE HealthFailed
      <4>1. PICK lost \in SetSyncBootstrap(desk, StatusOnly) :
              desk' = [lost EXCEPT !.conn = "unavailable"]
        BY <3>2 DEF HealthFailed
      <4>2. Facts(lost, desk) /\ HasFields(lost)
        BY <2>1, OfferFacts, FactsLemma
      <4>3. Facts(desk', lost)
        BY <4>1, <4>2, FieldsLemma DEF Facts
      <4> QED BY <2>2, <4>2, <4>3, FactsLemma
    <3> QED BY <2>8, <3>1, <3>2 DEF HealthAnswered
  <2>9. CASE BootstrapAnswered
    <3> DEFINE answered == [desk EXCEPT !.fetch = NoToken]
    <3>1. Facts(answered, desk) /\ HasFields(answered)
      BY <2>1, FieldsLemma DEF Facts, HasFields
    <3>2. PICK b : desk' \in SetSyncBootstrap(answered, b)
      BY <2>9 DEF BootstrapAnswered, BootstrapOffered, BootstrapRefused, AnswerOf
    <3> HIDE DEF answered
    <3> QED BY <2>2, <3>1, <3>2, OfferFacts, FactsLemma
  <2>10. CASE RefreshTimer
    BY <2>1, <2>2, <2>10, StatusFacts DEF RefreshTimer
  <2>11. ASSUME NEW w \in Workspaces, CreateDocument(w) \/ PullDocument(w) PROVE Honestly
    BY <2>1, <2>3, <2>11, FieldsLemma DEF CreateDocument, PullDocument
  <2>12. CASE ActivityChanges \/ Notify
    BY <2>1, <2>3, <2>12, FieldsLemma DEF ActivityChanges, Notify
  <2>13. CASE Crash
    BY <2>13 DEF Crash, Constructed, Unhydrated
  <2>14. CASE Wipe
    BY <2>1, <2>3, <2>14, FieldsLemma DEF Wipe
  <2> QED BY <1>1, <2>4, <2>5, <2>6, <2>7, <2>8, <2>9, <2>10, <2>11, <2>12, <2>13, <2>14 DEF Next
<1>2. TypeOK /\ [Next]_vars => [Honestly]_vars
  BY <1>1
<1> QED BY <1>2, TypeCorrect, PTL DEF Spec, MaterializedFromFacts
=============================================================================
