----------------------------- MODULE EditSession -----------------------------
(***************************************************************************)
(* The edit sessions of several desktops on one backend: the shell page    *)
(* (src/src/gui/page.cc), its BackendClient                                *)
(* (src/src/backend/backend_client.cc), the wire between them and the lock *)
(* service.  A desktop is single-threaded, so a handler is one step; the   *)
(* backend handles each request some time after it was sent and the answer *)
(* is handled some time after that.                                        *)
(*                                                                         *)
(* One tick is five seconds: the heartbeat timer has Beat ticks, the       *)
(* health timer Health ticks, and a request is answered or fails before    *)
(* the next tick (its timeout is three seconds, the health check's two).   *)
(***************************************************************************)
EXTENDS LockService, Sequences

CONSTANTS
  Clients,   \* desktops
  OwnerOf,   \* the user signed in on each
  Beat,      \* kLockHeartbeatIntervalMs in ticks
  Health,    \* kHealthRefreshIntervalMs in ticks
  Faults,    \* what the environment may do, a subset of FaultKinds
  MaxWire,   \* bound on the requests one desktop has on the wire
  NoDoc

FaultKinds == {"partition", "reorder", "crash", "server_restart", "force_release", "check_now"}

ASSUME EditSessionAssumption ==
  /\ OwnerOf \in [Clients -> Owners]
  /\ Beat \in Nat \ {0} /\ Health \in Nat \ {0}
  /\ Faults \subseteq FaultKinds
  /\ MaxWire \in Nat \ {0}
  /\ NoDoc \notin Docs

VARIABLES
  up,    \* desktop -> the backend can be reached from it (environment)
  desk   \* desktop -> the state of its BackendClient and Page

vars == <<locks, up, desk>>

Stopped == Beat + 1   \* heartbeat_timer_ is not running
NoRequest == [op |-> "none", doc |-> NoDoc, fresh |-> FALSE, then |-> "nothing", target |-> NoDoc,
              reply |-> "waiting"]
NoHeartbeat == [doc |-> NoDoc, reply |-> "none"]

MaybeDoc == Docs \cup {NoDoc}

\* session_reply_: the request, whether session_request_id_ is still the one
\* it was made under, and for a release the continuation and its document.
SessionRequest ==
  [op : {"none", "acquire", "release"}, doc : MaybeDoc, fresh : BOOLEAN,
   then : {"nothing", "view", "acquire"}, target : MaybeDoc,
   reply : {"waiting", "granted", "denied", "released", "failed"}]

\* A request on the wire, and who awaits its answer.
Message ==
  [op : {"acquire", "release"}, doc : Docs, to : {"session", "nobody"}]
    \cup [op : {"heartbeat"}, doc : Docs, to : {"beat", "nobody"}]

Desk ==
  [state : {"checking", "reachable", "unavailable", "crashed"},  \* state_
   healthIn : 0 .. Health,          \* until refresh_timer_ fires
   active : MaybeDoc,               \* active_document_id_
   beatIn : 0 .. Stopped,           \* until heartbeat_timer_ fires
   session : SessionRequest,        \* session_reply_
   beat : [doc : MaybeDoc, reply : {"none", "waiting", "ok", "lost", "failed"}],
                                    \* heartbeat_reply_
   wire : Seq(Message),
   selected : MaybeDoc,             \* selected_page_id_
   access : {"view", "edit", "local"}]
                                    \* current_document_editable_, _local_only_

Init ==
  /\ locks = NoLocks
  /\ up = [c \in Clients |-> TRUE]
  /\ desk = [c \in Clients |->
       [state |-> "checking", healthIn |-> Health, active |-> NoDoc, beatIn |-> Stopped,
        session |-> NoRequest, beat |-> NoHeartbeat, wire |-> <<>>, selected |-> NoDoc,
        access |-> "view"]]

-----------------------------------------------------------------------------
(* The pieces BackendClient is made of, as functions of its state k.        *)

\* disconnect + abort: the request may have left already; nobody awaits it.
Unattached(k, slot) ==
  [k EXCEPT !.wire = [i \in DOMAIN @ |-> IF @[i].to = slot THEN [@[i] EXCEPT !.to = "nobody"] ELSE @[i]]]
AbortSessionRequest(k) == [Unattached(k, "session") EXCEPT !.session = NoRequest]
AbortHeartbeatRequest(k) == [Unattached(k, "beat") EXCEPT !.beat = NoHeartbeat]

StartHeartbeat(k) == IF k.beatIn = Stopped THEN [k EXCEPT !.beatIn = Beat] ELSE k
StopHeartbeat(k) == [k EXCEPT !.beatIn = Stopped]

\* Mutant: a new session does not outdate the requests of the last one.
NextRequestId_Missing(k) == k

\* ++session_request_id_
NextRequestId(k) == [k EXCEPT !.session.fresh = FALSE]

SendSessionRequest(k, request) ==
  [AbortSessionRequest(k) EXCEPT
     !.session = request,
     !.wire = Append(@, [op |-> request.op, doc |-> request.doc, to |-> "session"])]

AcquireDocumentLock(k, d, fresh) ==
  SendSessionRequest(k, [op |-> "acquire", doc |-> d, fresh |-> fresh, then |-> "nothing",
                         target |-> NoDoc, reply |-> "waiting"])

\* What runs once a release has been answered, or at once if it is not sent.
Continue(k, fresh, then, target) ==
  CASE then = "view" -> IF fresh THEN [k EXCEPT !.access = "view"] ELSE k
    [] then = "acquire" -> AcquireDocumentLock(k, target, fresh)
    [] then = "nothing" -> k

ReleaseDocumentLock(k, d, then, target) ==
  IF k.state # "reachable" THEN Continue(AbortSessionRequest(k), TRUE, then, target)
  ELSE SendSessionRequest(k, [op |-> "release", doc |-> d, fresh |-> TRUE, then |-> then,
                              target |-> target, reply |-> "waiting"])

\* Mutant: the page is given up without the claim on it.
CloseDocumentSession_ClaimKept(k) ==
  AbortHeartbeatRequest(AbortSessionRequest(StopHeartbeat(NextRequestId(k))))

CloseDocumentSession(k) ==
  LET idle == AbortHeartbeatRequest(AbortSessionRequest(StopHeartbeat(NextRequestId(k))))
  IN  IF k.active = NoDoc THEN idle
      ELSE ReleaseDocumentLock([idle EXCEPT !.active = NoDoc], k.active, "nothing", NoDoc)

\* Mutants: the page is not told; the desktop keeps its claim.
LockLost_PageNotTold(k, d) == [StopHeartbeat(k) EXCEPT !.active = NoDoc]
LockLost_ClaimKept(k, d) == [k EXCEPT !.access = IF k.selected = d THEN "view" ELSE @]

\* The failed heartbeat of SendHeartbeat, and Page's documentAccessInvalidated.
LockLost(k, d) ==
  [StopHeartbeat(k) EXCEPT !.active = NoDoc, !.access = IF k.selected = d THEN "view" ELSE @]

LocalEditing(k) == [CloseDocumentSession(k) EXCEPT !.access = "local"]

OpenDocumentViewSession(k) ==
  IF k.state # "reachable" THEN LocalEditing(k)
  ELSE IF k.active # NoDoc
       THEN ReleaseDocumentLock([StopHeartbeat(NextRequestId(k)) EXCEPT !.active = NoDoc],
                                k.active, "view", k.selected)
       ELSE [NextRequestId(k) EXCEPT !.access = "view"]

EnterDocumentEditSession(k) ==
  IF k.state # "reachable" THEN LocalEditing(k)
  ELSE IF k.active = k.selected /\ k.beatIn # Stopped THEN [NextRequestId(k) EXCEPT !.access = "edit"]
  ELSE IF k.active \notin {NoDoc, k.selected}
       THEN ReleaseDocumentLock(NextRequestId(k), k.active, "acquire", k.selected)
       ELSE AcquireDocumentLock(NextRequestId(k), k.selected, TRUE)

ExitDocumentEditSession(k) ==
  IF k.active = k.selected
  THEN ReleaseDocumentLock([StopHeartbeat(NextRequestId(k)) EXCEPT !.active = NoDoc],
                           k.active, "view", k.selected)
  ELSE [NextRequestId(k) EXCEPT !.access = "view"]

-----------------------------------------------------------------------------
(* What the user does, and the page's own refresh.                          *)

Becomes(c, k) == desk' = [desk EXCEPT ![c] = k]
Alive(c) == desk[c].state # "crashed"
Room(c) == Len(desk[c].wire) < MaxWire

\* OnTreePressed on a page: select it and open it for viewing.
SelectDocument(c, d) ==
  /\ Alive(c) /\ Room(c)
  /\ Becomes(c, OpenDocumentViewSession([desk[c] EXCEPT !.selected = d]))
  /\ UNCHANGED <<locks, up>>

\* OnTreePressed on a workspace row, or a bootstrap without the current
\* workspace: the selection is cleared; the document session is left alone.
ActivateWorkspace(c) ==
  /\ Alive(c) /\ desk[c].selected # NoDoc
  /\ Becomes(c, [desk[c] EXCEPT !.selected = NoDoc, !.access = "view"])
  /\ UNCHANGED <<locks, up>>

\* Mutant: without the early return for an empty selection.
EnterEditMode_NoSelection(c) ==
  /\ Alive(c) /\ Room(c)
  /\ desk[c].access = "view"
  /\ Becomes(c, EnterDocumentEditSession(desk[c]))
  /\ UNCHANGED <<locks, up>>

\* SetEditModeEnabled(true); the switch is off while editing is local only.
EnterEditMode(c) ==
  /\ Alive(c) /\ Room(c)
  /\ desk[c].selected # NoDoc /\ desk[c].access = "view"
  /\ Becomes(c, EnterDocumentEditSession(desk[c]))
  /\ UNCHANGED <<locks, up>>

\* SetEditModeEnabled(false), or the inactivity timer.
ExitEditMode(c) ==
  /\ Alive(c) /\ Room(c)
  /\ desk[c].selected # NoDoc /\ desk[c].access = "edit"
  /\ Becomes(c, ExitDocumentEditSession(desk[c]))
  /\ UNCHANGED <<locks, up>>

\* RefreshSelectedDocumentAccess, on every auth, bootstrap or sync change.
PageRefresh(k) ==
  IF k.selected = NoDoc \/ k.access # "view" THEN k ELSE OpenDocumentViewSession(k)

RefreshSelectedDocumentAccess(c) ==
  /\ Alive(c) /\ Room(c)
  /\ Becomes(c, PageRefresh(desk[c]))
  /\ UNCHANGED <<locks, up>>

-----------------------------------------------------------------------------
(* Timers and answers.                                                      *)

\* SendHeartbeat: nothing is sent without a lock or unless reachable.
HeartbeatTimer(c) ==
  /\ Alive(c) /\ Room(c) /\ desk[c].beatIn = 0
  /\ LET k == [desk[c] EXCEPT !.beatIn = Beat]
     IN  Becomes(c,
           IF k.active = NoDoc \/ k.state # "reachable" THEN k
           ELSE [AbortHeartbeatRequest(k) EXCEPT
                   !.beat = [doc |-> k.active, reply |-> "waiting"],
                   !.wire = Append(@, [op |-> "heartbeat", doc |-> k.active, to |-> "beat"])])
  /\ UNCHANGED <<locks, up>>

HeartbeatAnswered(c) ==
  /\ Alive(c) /\ desk[c].beat.reply \in {"ok", "lost", "failed"}
  /\ LET d == desk[c].beat.doc
         k == [desk[c] EXCEPT !.beat = NoHeartbeat]
     IN  Becomes(c,
           IF k.active # d \/ desk[c].beat.reply = "ok" THEN k
           ELSE LockLost(k, d))
  /\ UNCHANGED <<locks, up>>

AcquireAnswered(c) ==
  /\ Alive(c) /\ desk[c].session.op = "acquire" /\ desk[c].session.reply # "waiting"
  /\ LET request == desk[c].session
         k == [desk[c] EXCEPT !.session = NoRequest]
     IN  Becomes(c,
           CASE ~request.fresh -> k
             [] request.fresh /\ request.reply = "failed" -> LocalEditing(k)
             [] request.fresh /\ request.reply = "granted" ->
                  StartHeartbeat([k EXCEPT !.active = request.doc, !.access = "edit"])
             [] OTHER -> [k EXCEPT !.access = "view"])
  /\ UNCHANGED <<locks, up>>

\* The continuation runs whatever the answer was.
ReleaseAnswered(c) ==
  /\ Alive(c) /\ desk[c].session.op = "release" /\ desk[c].session.reply # "waiting"
  /\ LET request == desk[c].session
     IN  Becomes(c, Continue([desk[c] EXCEPT !.session = NoRequest],
                             request.fresh, request.then, request.target))
  /\ UNCHANGED <<locks, up>>

\* RefreshHealth: the state is "checking" until the answer arrives.
HealthTimer(c) ==
  /\ Alive(c) /\ desk[c].healthIn = 0
  /\ Becomes(c, [desk[c] EXCEPT !.state = "checking", !.healthIn = Health])
  /\ UNCHANGED <<locks, up>>

\* The button "Check backend now"; refresh_timer_ runs on.  Among the faults, as
\* heartbeats are skipped for as long as it is pressed again and again.
CheckBackendNow(c) ==
  /\ "check_now" \in Faults /\ Alive(c)
  /\ Becomes(c, [desk[c] EXCEPT !.state = "checking"])
  /\ UNCHANGED <<locks, up>>

\* A failed check first publishes a status-only bootstrap, which refreshes the
\* page if it differs from the last one, and then sets the state.
HealthAnswered(c) ==
  /\ desk[c].state = "checking"
  /\ IF up[c] THEN Becomes(c, [desk[c] EXCEPT !.state = "reachable"])
     ELSE \E k \in {desk[c], PageRefresh(desk[c])} : Becomes(c, [k EXCEPT !.state = "unavailable"])
  /\ UNCHANGED <<locks, up>>

-----------------------------------------------------------------------------
(* The backend and the network.                                             *)

InOrder == "reorder" \notin Faults
Without(s, i) == SubSeq(s, 1, i - 1) \o SubSeq(s, i + 1, Len(s))

\* LockHandler::HandleRequestJsonThrow on one request; the answer reaches the
\* desktop only if it still awaits it.  Requests travel on connections of
\* their own, so one may overtake another unless the network keeps the order.
Answer(k, i, reply) ==
  LET to == k.wire[i].to
      rest == [k EXCEPT !.wire = Without(@, i)]
  IN  CASE to = "session" -> [rest EXCEPT !.session.reply = reply]
        [] to = "beat" -> [rest EXCEPT !.beat.reply = reply]
        [] to = "nobody" -> rest

HandleRequest(c, i) ==
  /\ up[c]
  /\ i \in 1 .. Len(desk[c].wire)
  /\ InOrder => i = 1
  /\ LET request == desk[c].wire[i]
         o == OwnerOf[c]
     IN  \/ /\ request.op = "acquire"
            /\ Acquire(request.doc, o)
            /\ Becomes(c, Answer(desk[c], i, IF CanAcquire(request.doc, o) THEN "granted" ELSE "denied"))
         \/ /\ request.op = "heartbeat"
            /\ Heartbeat(request.doc, o)
            /\ Becomes(c, Answer(desk[c], i, IF CanHeartbeat(request.doc, o) THEN "ok" ELSE "lost"))
         \/ /\ request.op = "release"
            /\ Release(request.doc, o)
            /\ Becomes(c, Answer(desk[c], i, "released"))
  /\ UNCHANGED up

\* Without a connection a request fails; an aborted one may be lost anyway.
LoseRequest(c, i) ==
  /\ i \in 1 .. Len(desk[c].wire)
  /\ ~up[c] \/ desk[c].wire[i].to = "nobody"
  /\ Becomes(c, Answer(desk[c], i, "failed"))
  /\ UNCHANGED <<locks, up>>

\* The answer of a request the backend has handled is lost.
LoseAnswer(c) ==
  /\ ~up[c]
  /\ \/ /\ desk[c].session.reply \in {"granted", "denied", "released"}
        /\ Becomes(c, [desk[c] EXCEPT !.session.reply = "failed"])
     \/ /\ desk[c].beat.reply \in {"ok", "lost"}
        /\ Becomes(c, [desk[c] EXCEPT !.beat.reply = "failed"])
  /\ UNCHANGED <<locks, up>>

Partition(c) ==
  /\ "partition" \in Faults /\ up[c]
  /\ up' = [up EXCEPT ![c] = FALSE]
  /\ UNCHANGED <<locks, desk>>

Heal(c) ==
  /\ ~up[c]
  /\ up' = [up EXCEPT ![c] = TRUE]
  /\ UNCHANGED <<locks, desk>>

\* The desktop's process ends; what it has sent stays on the wire.
Crash(c) ==
  /\ "crash" \in Faults /\ Alive(c)
  /\ Becomes(c, [AbortHeartbeatRequest(AbortSessionRequest(StopHeartbeat(desk[c]))) EXCEPT
                   !.state = "crashed", !.active = NoDoc, !.selected = NoDoc, !.access = "view",
                   !.healthIn = Health])
  /\ UNCHANGED <<locks, up>>

\* The user starts the desktop again; the constructor checks the health at once.
Relaunch(c) ==
  /\ ~Alive(c)
  /\ Becomes(c, [desk[c] EXCEPT !.state = "checking"])
  /\ UNCHANGED <<locks, up>>

\* locks_ is only in memory.
ServerRestart ==
  /\ "server_restart" \in Faults /\ locks # NoLocks
  /\ locks' = NoLocks
  /\ UNCHANGED <<up, desk>>

AdminForceRelease(d) ==
  /\ "force_release" \in Faults /\ locks[d] # Free
  /\ ForceRelease(d)
  /\ UNCHANGED <<up, desk>>

\* Five seconds pass: no timer is due, no request is under way.
Quiet(c) ==
  /\ desk[c].wire = <<>>
  /\ Alive(c) => /\ desk[c].session = NoRequest /\ desk[c].beat = NoHeartbeat
                 /\ desk[c].beatIn # 0 /\ desk[c].healthIn # 0
                 /\ desk[c].state # "checking"

Tick ==
  /\ \A c \in Clients : Quiet(c)
  /\ Elapse
  /\ desk' = [c \in Clients |->
       IF ~Alive(c) THEN desk[c]
       ELSE [desk[c] EXCEPT !.healthIn = @ - 1, !.beatIn = IF @ = Stopped THEN @ ELSE @ - 1]]
  /\ UNCHANGED up

-----------------------------------------------------------------------------
UserStep(c) ==
  \/ \E d \in Docs : SelectDocument(c, d)
  \/ ActivateWorkspace(c) \/ EnterEditMode(c) \/ ExitEditMode(c)
  \/ RefreshSelectedDocumentAccess(c) \/ CheckBackendNow(c)

ClientStep(c) ==
  \/ HeartbeatTimer(c) \/ HeartbeatAnswered(c)
  \/ AcquireAnswered(c) \/ ReleaseAnswered(c)
  \/ HealthTimer(c) \/ HealthAnswered(c)

NetworkStep(c) == \E i \in 1 .. MaxWire : HandleRequest(c, i) \/ LoseRequest(c, i)

EnvironmentStep ==
  \/ \E c \in Clients : LoseAnswer(c) \/ Partition(c) \/ Heal(c) \/ Crash(c) \/ Relaunch(c)
  \/ ServerRestart
  \/ \E d \in Docs : AdminForceRelease(d)

Next ==
  \/ \E c \in Clients : UserStep(c) \/ ClientStep(c) \/ NetworkStep(c)
  \/ EnvironmentStep
  \/ Tick

Spec == Init /\ [][Next]_vars

\* Timers that are due fire, answers are handled, requests are answered or lost,
\* and time passes whenever it is possible again and again.  No user, fault or
\* repair is ever forced.
Fairness ==
  /\ \A c \in Clients : WF_vars(ClientStep(c)) /\ WF_vars(NetworkStep(c))
  /\ SF_vars(Tick)

FairSpec == Spec /\ Fairness

-----------------------------------------------------------------------------
TypeOK ==
  /\ LocksTypeOK
  /\ up \in [Clients -> BOOLEAN]
  /\ desk \in [Clients -> Desk]

Holds(c, d) == locks[d] # Free /\ locks[d].owner = OwnerOf[c] /\ ~IsExpired(locks[d])

\* While the backend stays reachable, keeps its table and handles requests in
\* order, a desktop that believes to hold a lock holds it: the heartbeats of
\* SendHeartbeat, skipped during a health check, still beat the lease, and no
\* abandoned request of a desktop takes its own lock away.
ClaimIsHeld ==
  \A c \in Clients : desk[c].active # NoDoc => Holds(c, desk[c].active)

\* Seen from the claims, the desktops, the wire and the lease table together are
\* one lock per page: a desktop starts to claim a page only when it claims none
\* and no other user claims that one, and it is never replaced by another.
Lock == INSTANCE PageLock WITH
          editors <- [d \in Docs |-> {c \in Clients : desk[c].active = d}]

ImplementsPageLock == Lock!LSpec

\* A desktop writes to the backend's documents only under a lock: edit mode has
\* a claim on the page with a running heartbeat, except while the release that
\* ends it is on its way (page.cc applies "view" only in the continuation).
EditIsBacked ==
  \A c \in Clients : desk[c].access = "edit" /\ desk[c].selected # NoDoc =>
    \/ desk[c].active = desk[c].selected /\ desk[c].beatIn # Stopped
    \/ desk[c].session.op = "release"

\* The lock a desktop keeps alive is the lock of the page it shows: no late
\* acquire of the page shown before survives the selection of another one
\* (what session_request_id_ is for).
ClaimIsShown ==
  \A c \in Clients : desk[c].selected # NoDoc => desk[c].active \in {NoDoc, desk[c].selected}

\* "a crashed client does not hold the document forever": while it stays down,
\* the lock of its user runs out (no other desktop has the same user here).
CrashedLockExpires ==
  \A c \in Clients, d \in Docs :
    ~Alive(c) /\ Holds(c, d) ~> Alive(c) \/ ~Holds(c, d)

\* Lock loss ends edit mode: a desktop whose lock is gone (restarted backend,
\* forced release, a lease that ran out) does not keep its claim for ever, if
\* the backend can be reached.
LossIsNoticed ==
  \A c \in Clients, d \in Docs :
    desk[c].active = d /\ ~Holds(c, d) ~> desk[c].active # d \/ Holds(c, d) \/ ~up[c]

-----------------------------------------------------------------------------
(* What the architecture documents say and the code does not do.            *)

\* "Only one user can edit a document at the same time": two desktops of
\* different users never both believe to hold the lock of one document.
OneClaim ==
  \A c1, c2 \in Clients :
    desk[c1].active # NoDoc /\ desk[c1].active = desk[c2].active => OwnerOf[c1] = OwnerOf[c2]

\* "the desktop only becomes writable after positive backend confirmation": with
\* the backend reachable throughout, no desktop writes to a page on which a
\* desktop of another user holds the lock.
NoUnconfirmedWriter ==
  (\A c \in Clients : up[c]) =>
    \A c1, c2 \in Clients :
      desk[c1].active # NoDoc /\ desk[c2].selected = desk[c1].active /\ desk[c2].access = "local"
        => OwnerOf[c1] = OwnerOf[c2]

\* "This prevents a user from holding the lock indefinitely without real
\* editing activity": a lock that no page in edit mode uses is given up.
IdleLockReleased ==
  \A c \in Clients :
    desk[c].active # NoDoc /\ desk[c].access = "view"
      ~> desk[c].active = NoDoc \/ desk[c].access # "view"
=============================================================================
