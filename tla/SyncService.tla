----------------------------- MODULE SyncService -----------------------------
(***************************************************************************)
(* How a desktop comes to replicate, and what it says about it: the sync   *)
(* service (src/src/sync/document_sync_service.cc), the bootstrap half of  *)
(* BackendClient (src/src/backend/backend_client.cc) that feeds it, the    *)
(* sync lifecycle of the repository                                        *)
(* (src/src/storage/cblite_document_repository.cc) that it drives, and the *)
(* signals that connect them (src/src/app/application.cc).                 *)
(*                                                                         *)
(* A slot called by a signal runs to its end before the next event, with   *)
(* everything it calls, so that a step of the GUI thread is composed of    *)
(* functions of the desktop's state k: to the next state, or, when storage *)
(* or the replicator may fail on the way, to the set of the possible ones. *)
(* Only the replicator runs on a thread of its own: its listener is a step.*)
(***************************************************************************)
EXTENDS Naturals, FiniteSets

CONSTANTS
  Workspaces,  \* workspace ids
  Scopes,      \* the sets of workspaces the backend may assign
  Remote,      \* the workspaces with a document or a root record at the gateway
  Users,
  Tokens,      \* access tokens
  UserOf,      \* the user a token stands for
  NoToken,     \* the empty token
  Settings,    \* what the user may set: [auth, sync, backend : BOOLEAN]
  StatusOnly,  \* a bootstrap that carries a status text and nothing else
  NoFile, NoReplicator,
  Faults       \* what may go wrong, a subset of FaultKinds

FaultKinds == {"start", "replicator", "crash", "wipe", "promote", "early"}

ASSUME SyncServiceAssumption ==
  /\ Scopes \subseteq SUBSET Workspaces /\ Remote \subseteq Workspaces
  /\ Settings \subseteq [auth : BOOLEAN, sync : BOOLEAN, backend : BOOLEAN]
  /\ UserOf \in [Tokens -> Users] /\ NoToken \notin Tokens
  /\ Faults \subseteq FaultKinds

VARIABLE
  desk  \* the desktop: its process and its disk

vars == desk

\* SyncBootstrap of an authenticated answer (available is true).  The channels
\* are "user:<subject>" and one per workspace, hence never empty.
Bootstraps == [user : Users, scope : SUBSET Workspaces, enabled : BOOLEAN]
MaybeBootstrap == Bootstraps \cup {StatusOnly}
MaybeToken == Tokens \cup {NoToken}

Hydration == {"absent", "not_started", "in_progress", "materialized", "failed"}
Status(state, pull) == [state |-> state, pull |-> pull]
\* The statuses the repository reports: only a running replicator pulls.
SyncStatus == {Status("disabled", "none"), Status("configured", "none"), Status("error", "none"),
               Status("running", "active"), Status("running", "completed")}

\* cbl::Replicator: what it was created with, its activity (every activity but
\* idle and stopped-with-error is a pull under way), and whether the change
\* listener has run for it.
Replicators == [token : Tokens, user : Users, scope : SUBSET Workspaces,
                activity : {"active", "idle", "failed"}, told : BOOLEAN]

Desk ==
  [up : BOOLEAN,
   \* on disk
   stored : SUBSET Workspaces,       \* workspaces with a document or a root record
   file : [boot : Bootstraps, hydration : [Workspaces -> Hydration]] \cup {NoFile},
                                     \* sync-context.json
   \* BackendClient
   backend : BOOLEAN,                \* enabled_
   conn : {"local", "checking", "reachable", "unavailable"},  \* state_
   clientToken : MaybeToken,         \* access_token_
   fetch : MaybeToken,               \* sync_bootstrap_reply_: the token it was sent with
   offered : MaybeBootstrap,         \* sync_bootstrap_
   \* DocumentSyncService
   auth : BOOLEAN, sync : BOOLEAN,   \* auth_enabled_, sync_enabled_
   token : MaybeToken,               \* access_token_
   available : BOOLEAN,              \* backend_bootstrap_available_
   enabled : BOOLEAN,                \* backend_sync_enabled_
   boot : MaybeBootstrap,            \* bootstrap_
   hydration : [Workspaces -> Hydration],  \* workspace_hydration_
   state : {"disabled", "unavailable", "ready", "error"},     \* snapshot_.state
   seen : SyncStatus,                \* snapshot_.repository_status
   \* CbliteDocumentRepository
   repoToken : MaybeToken,           \* access_token_
   repoBoot : MaybeBootstrap,        \* bootstrap_
   dirty : BOOLEAN,                  \* replicator_dirty_
   status : SyncStatus,              \* sync_status_
   replicator : Replicators \cup {NoReplicator}]

\* What stands for "none" is none of what it stands for.
ASSUME NoneAssumption ==
  /\ StatusOnly \notin Bootstraps /\ NoReplicator \notin Replicators
  /\ NoFile \notin [boot : Bootstraps, hydration : [Workspaces -> Hydration]]

Unhydrated == [w \in Workspaces |-> "absent"]

\* The members of the three objects when they have been constructed.
Constructed(stored, file) ==
  [up |-> FALSE, stored |-> stored, file |-> file,
   backend |-> FALSE, conn |-> "local", clientToken |-> NoToken, fetch |-> NoToken,
   offered |-> StatusOnly,
   auth |-> FALSE, sync |-> FALSE, token |-> NoToken, available |-> FALSE, enabled |-> FALSE,
   boot |-> StatusOnly, hydration |-> Unhydrated, state |-> "disabled",
   seen |-> Status("disabled", "none"),
   repoToken |-> NoToken, repoBoot |-> StatusOnly, dirty |-> TRUE,
   status |-> Status("disabled", "none"), replicator |-> NoReplicator]

Scope(b) == IF b = StatusOnly THEN {} ELSE b.scope
Channels(b) == IF b = StatusOnly THEN {} ELSE {<<"user", b.user>>} \cup {<<"workspace", w>> : w \in b.scope}
IsUsable(b) == b # StatusOnly /\ b.enabled /\ b.scope # {}

-----------------------------------------------------------------------------
(* The repository's sync lifecycle.                                         *)

ResetReplicator(k) == [k EXCEPT !.replicator = NoReplicator]

\* Mutant: the status goes on to report the pull that was stopped.
StopSync_PullKept(k) == [ResetReplicator(k) EXCEPT !.status.state = "configured"]

StopSync(k) == [ResetReplicator(k) EXCEPT !.status = Status("configured", "none")]

SetSyncAccessToken(k) ==
  IF k.repoToken = k.token THEN k
  ELSE [ResetReplicator(k) EXCEPT !.repoToken = k.token, !.dirty = TRUE]

\* The status of a replicator, as the listener and StartSync report it.
ActivityStatus(activity) ==
  CASE activity = "failed" -> Status("error", "none")
    [] activity = "idle" -> Status("running", "completed")
    [] activity = "active" -> Status("running", "active")

\* A failed promotion returns before the change of the bootstrap is acted on.
ApplySyncBootstrap(k) ==
  LET applied == [k EXCEPT !.repoBoot = k.boot, !.status = Status("configured", "none")]
  IN  {IF Channels(k.repoBoot) = Channels(k.boot) THEN applied
       ELSE [ResetReplicator(applied) EXCEPT !.dirty = TRUE]}
      \cup (IF "promote" \in Faults
            THEN {[k EXCEPT !.repoBoot = k.boot, !.status = Status("error", "none")]} ELSE {})

KeepsReplicator(k) ==
  k.replicator # NoReplicator /\ ~k.dirty /\ k.replicator.activity # "failed"

\* A report of the new replicator that comes before StartSync writes its own
\* status is lost ("early").
Started(k) ==
  {[k EXCEPT !.dirty = FALSE, !.status = Status("running", "active"),
     !.replicator = [token |-> k.repoToken, user |-> k.repoBoot.user, scope |-> k.repoBoot.scope,
                     activity |-> IF early THEN "failed" ELSE "active", told |-> early]]
   : early \in {e \in BOOLEAN : e => "early" \in Faults}}

\* Mutant: the replicator could not be created, and nobody is told.
StartSync_ErrorNotReported(k) ==
  IF KeepsReplicator(k) THEN {[k EXCEPT !.status = ActivityStatus(k.replicator.activity)]}
  ELSE Started(k) \cup IF "start" \in Faults THEN {ResetReplicator(k)} ELSE {}

StartSync(k) ==
  IF KeepsReplicator(k) THEN {[k EXCEPT !.status = ActivityStatus(k.replicator.activity)]}
  ELSE Started(k) \cup
       IF "start" \in Faults
       THEN {[ResetReplicator(k) EXCEPT !.status = Status("error", "none")]} ELSE {}

-----------------------------------------------------------------------------
(* DocumentSyncService.                                                     *)

SavePersistedSyncContext(k) ==
  IF IsUsable(k.boot) THEN [k EXCEPT !.file = [boot |-> k.boot, hydration |-> k.hydration]] ELSE k

\* Mutant: what the last run believed survives the opening of a repository.
ResetWorkspaceHydration_Missing(k) == k

ResetWorkspaceHydration(k) == [k EXCEPT !.hydration = Unhydrated]

\* One round of UpdateWorkspaceHydration's loop, with the status just read.
HydrationOf(k, w) ==
  IF w \notin Scope(k.boot) THEN "absent"
  ELSE IF w \in k.stored \/ k.hydration[w] = "materialized" THEN "materialized"
  ELSE IF k.hydration[w] = "failed" \/ k.status.state = "error" THEN "failed"
  ELSE IF k.status.pull = "active" THEN "in_progress" ELSE "not_started"

\* RefreshSnapshot and the UpdateWorkspaceHydration in it.
RefreshSnapshot(k) ==
  LET hydration == [w \in Workspaces |-> HydrationOf(k, w)]
      newly == \E w \in Workspaces :
                 hydration[w] = "materialized" /\ k.hydration[w] # "materialized"
      refreshed == [k EXCEPT !.seen = k.status, !.hydration = hydration]
  IN  IF newly \/ k.status.pull = "completed" THEN SavePersistedSyncContext(refreshed)
      ELSE refreshed

SetStatus(k, state) == RefreshSnapshot([k EXCEPT !.state = state])

\* Mutant: the failure stays in the repository's status.
RefreshStatus_NotRaised(k) == RefreshSnapshot(k)

RefreshStatus(k) ==
  RefreshSnapshot(IF k.status.state = "error" THEN [k EXCEPT !.state = "error"] ELSE k)

ApplyRepositorySyncLifecycle(k) ==
  UNION {IF applied.status.state = "error" THEN {applied} ELSE StartSync(applied)
         : applied \in ApplySyncBootstrap(SetSyncAccessToken(k))}

SyncWanted(k) == k.auth /\ k.sync /\ k.available /\ k.enabled

\* What RecomputeStatus does to the repository, and the state it then shows.
Lifecycle(k) ==
  IF ~SyncWanted(k) THEN {StopSync(k)}
  ELSE IF k.boot = StatusOnly \/ k.token = NoToken THEN {k}
  ELSE ApplyRepositorySyncLifecycle(k)

StateOf(k) ==
  IF ~k.auth \/ ~k.sync THEN "disabled"
  ELSE IF ~SyncWanted(k) \/ k.boot = StatusOnly \/ k.token = NoToken THEN "unavailable"
  ELSE IF k.status.state = "error" THEN "error" ELSE "ready"

RecomputeStatus(k) == {SetStatus(applied, StateOf(applied)) : applied \in Lifecycle(k)}

BootstrapLost(k) == RecomputeStatus([k EXCEPT !.available = FALSE, !.enabled = FALSE])

WithBootstrap(k, b) ==
  [IF k.boot = b THEN k ELSE ResetWorkspaceHydration(k)
     EXCEPT !.available = TRUE, !.enabled = b.enabled, !.boot = b]

\* Mutant: the file is left to the next change of a workspace's hydration.
SetBackendBootstrap_NotSaved(k, b) ==
  IF b = StatusOnly THEN BootstrapLost(k) ELSE RecomputeStatus(WithBootstrap(k, b))

SetBackendBootstrap(k, b) ==
  IF b = StatusOnly THEN BootstrapLost(k)
  ELSE RecomputeStatus(SavePersistedSyncContext(WithBootstrap(k, b)))

SetServiceToken(k, t) ==
  IF k.token = t THEN {k} ELSE RecomputeStatus([ResetWorkspaceHydration(k) EXCEPT !.token = t])

ApplyServiceSettings(k, settings) ==
  LET kept == IF k.auth = settings.auth /\ k.sync = settings.sync THEN k
              ELSE ResetWorkspaceHydration(k)
  IN  RecomputeStatus([kept EXCEPT !.auth = settings.auth, !.sync = settings.sync])

LoadPersistedSyncContext(k) ==
  IF k.file = NoFile THEN k ELSE [k EXCEPT !.boot = k.file.boot, !.hydration = k.file.hydration]

SetRepository(k) == RecomputeStatus(ResetWorkspaceHydration(k))

-----------------------------------------------------------------------------
(* The bootstrap of BackendClient.                                          *)

\* Emits syncBootstrapChanged, which application.cc passes to the service.
SetSyncBootstrap(k, b) ==
  IF k.offered = b THEN {k} ELSE SetBackendBootstrap([k EXCEPT !.offered = b], b)

\* Mutant: a session that has ended keeps its bootstrap.
RefreshSyncBootstrap_TokenIgnored(k) ==
  IF ~k.backend \/ k.conn # "reachable"
  THEN SetSyncBootstrap([k EXCEPT !.fetch = NoToken], StatusOnly)
  ELSE {[k EXCEPT !.fetch = k.clientToken]}

RefreshSyncBootstrap(k) ==
  IF ~k.backend \/ k.conn # "reachable" \/ k.clientToken = NoToken
  THEN SetSyncBootstrap([k EXCEPT !.fetch = NoToken], StatusOnly)
  ELSE {[k EXCEPT !.fetch = k.clientToken]}

SetClientToken(k, t) ==
  IF k.clientToken = t THEN {k} ELSE RefreshSyncBootstrap([k EXCEPT !.clientToken = t])

RefreshHealth(k) == [k EXCEPT !.conn = "checking"]

ApplyClientSettings(k, settings) ==
  IF settings.backend THEN {RefreshHealth([k EXCEPT !.backend = TRUE])}
  ELSE {[off EXCEPT !.conn = "local"]
        : off \in SetSyncBootstrap([k EXCEPT !.backend = FALSE, !.fetch = NoToken], StatusOnly)}

\* accessTokenChanged, in the order in which application.cc connects it.
AccessTokenChanged(k, t) == UNION {SetServiceToken(client, t) : client \in SetClientToken(k, t)}

-----------------------------------------------------------------------------
(* The GUI thread.                                                          *)

Init == desk = Constructed({}, NoFile)

\* The constructor of Application, up to the first event.
Launch ==
  /\ ~desk.up
  /\ \E settings \in Settings :
       \E client \in ApplyClientSettings([desk EXCEPT !.up = TRUE], settings) :
         desk' \in SetRepository([LoadPersistedSyncContext(client)
                                   EXCEPT !.auth = settings.auth, !.sync = settings.sync])

\* The settings dialog.  AuthSessionManager drops its token in between.
SettingsChanged ==
  /\ desk.up
  /\ \E settings \in Settings :
       \E client \in ApplyClientSettings(desk, settings) :
         \E signedOut \in AccessTokenChanged(client, NoToken) :
           desk' \in ApplyServiceSettings(signedOut, settings)

\* A stored or granted token, and the refresh of one.
SignedIn ==
  /\ desk.up /\ desk.auth
  /\ \E t \in Tokens :
       /\ desk.clientToken # NoToken => UserOf[t] = UserOf[desk.clientToken]
       /\ desk' \in AccessTokenChanged(desk, t)

\* Signing out, or a refresh that failed.
SignedOut ==
  /\ desk.up
  /\ desk' \in AccessTokenChanged(desk, NoToken)

HealthTimer ==
  /\ desk.up /\ desk.backend
  /\ desk' = RefreshHealth(desk)

HealthFailed ==
  /\ desk.up /\ desk.conn = "checking"
  /\ \E lost \in SetSyncBootstrap(desk, StatusOnly) : desk' = [lost EXCEPT !.conn = "unavailable"]

\* Mutant: the bootstrap is fetched only when the token changes.
HealthOk_NoFetch ==
  /\ desk.up /\ desk.conn = "checking"
  /\ desk' = [desk EXCEPT !.conn = "reachable"]

HealthOk ==
  /\ desk.up /\ desk.conn = "checking"
  /\ desk' \in RefreshSyncBootstrap([desk EXCEPT !.conn = "reachable"])

HealthAnswered == HealthOk \/ HealthFailed

\* What the backend may answer to a request with token t: the channels of the
\* user, offered only while the gateway answers its probe, or an error.
Offers(t) == [user : {UserOf[t]}, scope : Scopes, enabled : {TRUE}]
Refusals(t) == [user : {UserOf[t]}, scope : Scopes, enabled : {FALSE}] \cup {StatusOnly}

AnswerOf(b) == desk' \in SetSyncBootstrap([desk EXCEPT !.fetch = NoToken], b)

BootstrapOffered == desk.fetch # NoToken /\ \E b \in Offers(desk.fetch) : AnswerOf(b)

BootstrapRefused == desk.fetch # NoToken /\ \E b \in Refusals(desk.fetch) : AnswerOf(b)

BootstrapAnswered == BootstrapOffered \/ BootstrapRefused

RefreshTimer ==
  /\ desk.up
  /\ desk' = RefreshStatus(desk)

\* A page is saved or an archive imported: the GUI thread stores it.
CreateDocument(w) ==
  /\ desk.up
  /\ desk' = [desk EXCEPT !.stored = @ \cup {w}]

-----------------------------------------------------------------------------
(* The replicator's thread.                                                 *)

Replicating(activity) == desk.replicator # NoReplicator /\ desk.replicator.activity = activity

PullDocument(w) ==
  /\ Replicating("active") /\ w \in Remote \cap desk.replicator.scope
  /\ desk' = [desk EXCEPT !.stored = @ \cup {w}]

\* The listener is called after each change of the activity.  The replicator is
\* idle when it has pulled all there is, and stops when it is refused.
ActivityChanges ==
  /\ desk.replicator # NoReplicator /\ desk.replicator.told
  /\ \/ Replicating("active") /\ Remote \cap desk.replicator.scope \subseteq desk.stored
        /\ desk' = [desk EXCEPT !.replicator.activity = "idle", !.replicator.told = FALSE]
     \/ Replicating("idle")
        /\ desk' = [desk EXCEPT !.replicator.activity = "active", !.replicator.told = FALSE]
     \/ ~Replicating("failed") /\ "replicator" \in Faults
        /\ desk' = [desk EXCEPT !.replicator.activity = "failed", !.replicator.told = FALSE]

\* The change listener.
Notify ==
  /\ desk.replicator # NoReplicator /\ ~desk.replicator.told
  /\ desk' = [desk EXCEPT !.status = ActivityStatus(desk.replicator.activity),
                          !.replicator.told = TRUE]

-----------------------------------------------------------------------------
(* The environment.                                                         *)

\* The process ends.  A save of the context truncates the file first, so that an
\* end in the middle of one leaves nothing to load.
Crash ==
  /\ "crash" \in Faults /\ desk.up
  /\ \E file \in {desk.file} \cup (IF IsUsable(desk.boot) THEN {NoFile} ELSE {}) :
       desk' = Constructed(desk.stored, file)

\* The local database is deleted, the context file is not.
Wipe ==
  /\ "wipe" \in Faults /\ ~desk.up
  /\ desk' = [desk EXCEPT !.stored = {}]

Next ==
  \/ Launch \/ SettingsChanged \/ SignedIn \/ SignedOut
  \/ HealthTimer \/ HealthAnswered \/ BootstrapAnswered \/ RefreshTimer
  \/ \E w \in Workspaces : CreateDocument(w) \/ PullDocument(w)
  \/ ActivityChanges \/ Notify
  \/ Crash \/ Wipe

\* Timers fire, requests are answered or time out, and the listener is called.
\* A bootstrap request, sent again by each health check, is answered within the
\* three seconds of its timeout, long before the next check or token.
Fairness ==
  /\ WF_vars(HealthTimer) /\ WF_vars(HealthAnswered) /\ WF_vars(RefreshTimer)
  /\ WF_vars(Notify) /\ SF_vars(BootstrapAnswered)

Spec == Init /\ [][Next]_vars

FairSpec == Spec /\ Fairness

-----------------------------------------------------------------------------
(* Properties.                                                              *)

\* The members of the three objects, the file and the replicator: in particular
\* a replicator always has a token, and only a running one is said to pull
\* (SyncStatus in cblite_document_repository.cc).
TypeOK == desk \in Desk

\* Whatever replicates does so for the session that is signed in now, as the user
\* its token stands for: after a sign-out, a change of user or of token, a lost
\* backend or a change of settings nothing goes on with what was true before
\* (StopSync, SetSyncAccessToken, ApplySyncBootstrap).
ReplicatesAsSignedIn ==
  desk.replicator # NoReplicator =>
    /\ SyncWanted(desk) /\ desk.boot # StatusOnly
    /\ desk.replicator.token = desk.token /\ desk.token = desk.clientToken
    /\ desk.replicator.user = UserOf[desk.token] /\ desk.replicator.user = desk.boot.user

\* "Sync: ready" is shown only with a replicator, and one that has the channels
\* assigned now: after a failed start or a failed promotion the state is another
\* one (RecomputeStatus, ApplySyncBootstrap, StartSync).
ReadyIsHonest ==
  desk.state = "ready" =>
    /\ desk.replicator # NoReplicator /\ desk.boot # StatusOnly
    /\ desk.replicator.scope = desk.boot.scope

\* A bootstrap the service works with is the one the file has, so that the next
\* cold start knows the scope without the backend (SavePersistedSyncContext).
ScopeIsRemembered ==
  desk.up /\ IsUsable(desk.boot) => desk.file # NoFile /\ desk.file.boot = desk.boot

\* No step takes a workspace for materialized that has neither a document nor a
\* root record here, even if an earlier run has written so into the file and the
\* database is new (UpdateWorkspaceHydration, SetRepository).
MaterializedFromFacts ==
  [][\A w \in Workspaces :
       desk'.hydration[w] = "materialized" /\ desk.hydration[w] # "materialized"
         => w \in desk'.stored]_vars

Wanted == desk.up /\ desk.backend /\ desk.auth /\ desk.sync /\ desk.clientToken # NoToken

\* A health check, or a bootstrap request, that was not answered as hoped.
Failed == desk.conn = "checking" /\ desk'.conn = "unavailable"
Refused == desk.fetch # NoToken /\ desk'.fetch = NoToken /\ BootstrapRefused

\* If the backend and the gateway are up from some time on, a session that wants
\* to replicate does, or says that it cannot, whatever order of tokens, settings
\* and health checks came before (RefreshHealth, RefreshSyncBootstrap,
\* RecomputeStatus).
SyncResumes ==
  <>[][~Failed /\ ~Refused]_vars =>
    (Wanted ~> desk.replicator # NoReplicator \/ desk.state = "error" \/ ~Wanted)

\* "Sync: ready" does not outlive the replicator: the status the listener writes
\* on another thread reaches the snapshot (RefreshStatus).
FailureIsVisible ==
  desk.state = "ready" /\ Replicating("failed")
    ~> ~(desk.state = "ready" /\ Replicating("failed"))

\* `materialized` means that a pull has completed, in this run of the program or in
\* one that has left it in the file (Sync_Document_Model_and_Conflict_Contract.adoc,
\* Phase 3; UpdateWorkspaceHydration).
MaterializedAfterPull ==
  [][\A w \in Workspaces :
       desk'.hydration[w] = "materialized" /\ desk.hydration[w] # "materialized"
         => \/ desk'.seen.pull = "completed"
            \/ desk.file # NoFile /\ desk.file.hydration[w] = "materialized"]_vars
=============================================================================
