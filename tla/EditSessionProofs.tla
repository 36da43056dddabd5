-------------------------- MODULE EditSessionProofs --------------------------
(***************************************************************************)
(* Edit mode is backed by a lock on the page shown, for any number of      *)
(* desktops, documents and outstanding requests, with every fault.         *)
(*                                                                         *)
(* Both properties speak of one desktop and hold by what its handlers do to *)
(* it; the backend and the network only matter for the types.  Good is     *)
(* their strengthening for one desktop: a request that is still current is *)
(* about the page that is selected.  One lemma per function of EditSession *)
(* says what it needs of Good and that it ends in it.                      *)
(***************************************************************************)
EXTENDS EditSession, SequenceTheorems, TLAPS

\* What Good looks at of a desktop, apart from its request.
SamePage(j, k) ==
  /\ j.selected = k.selected /\ j.active = k.active
  /\ j.beatIn = k.beatIn /\ j.access = k.access

SameRequest(r, s) ==
  r.op = s.op /\ r.doc = s.doc /\ r.fresh = s.fresh /\ r.then = s.then /\ r.target = s.target

\* No release goes on with an acquire: a page is opened before it is edited,
\* which gives up the claim on any other.
Unchained(k) == k.session.then # "acquire"

Shown(k) == k.selected # NoDoc => k.active \in {NoDoc, k.selected}

Backed(k) ==
  k.access = "edit" /\ k.selected # NoDoc =>
    \/ k.active = k.selected /\ k.beatIn # Stopped
    \/ k.session.op = "release" /\ k.session.fresh /\ k.session.then = "view"

\* A current request is for the page that is selected.
Current(k) ==
  k.session.op = "acquire" /\ k.session.fresh /\ k.selected # NoDoc =>
    k.session.doc = k.selected

Good(k) == k \in Desk /\ Unchained(k) /\ Shown(k) /\ Backed(k) /\ Current(k)

-----------------------------------------------------------------------------
(* The wire.                                                                *)

LEMMA DeskFields ==
  ASSUME NEW k \in Desk
  PROVE  /\ k.wire \in Seq(Message) /\ k.session \in SessionRequest
         /\ k.selected \in MaybeDoc /\ k.active \in MaybeDoc
         /\ k.access \in {"view", "edit", "local"} /\ k.beatIn \in 0 .. Stopped
         /\ k.state \in {"checking", "reachable", "unavailable", "crashed"}
  BY DEF Desk

LEMMA WireLemma ==
  ASSUME NEW k \in Desk, NEW w \in Seq(Message)
  PROVE  LET j == [k EXCEPT !.wire = w]
         IN  /\ j \in Desk /\ SamePage(j, k)
             /\ j.session = k.session /\ j.beat = k.beat /\ j.state = k.state
  BY DEF Desk, SamePage

LEMMA DetachLemma ==
  ASSUME NEW w \in Seq(Message), NEW slot
  PROVE  [i \in DOMAIN w |-> IF w[i].to = slot THEN [w[i] EXCEPT !.to = "nobody"] ELSE w[i]]
           \in Seq(Message)
<1> DEFINE e(i) == IF w[i].to = slot THEN [w[i] EXCEPT !.to = "nobody"] ELSE w[i]
<1>1. Len(w) \in Nat /\ DOMAIN w = 1 .. Len(w)
  BY LenProperties
<1>2. \A i \in 1 .. Len(w) : e(i) \in Message
  <2> TAKE i \in 1 .. Len(w)
  <2>1. w[i] \in Message
    BY ElementOfSeq
  <2> QED BY <2>1 DEF Message
<1>3. [i \in 1 .. Len(w) |-> e(i)] \in [1 .. Len(w) -> Message]
  BY <1>2
<1>4. [i \in 1 .. Len(w) |-> e(i)] \in Seq(Message)
  BY <1>1, <1>3, SeqDef
<1> QED BY <1>1, <1>4

LEMMA UnattachedLemma ==
  ASSUME NEW k \in Desk, NEW slot
  PROVE  LET j == Unattached(k, slot)
         IN  /\ j \in Desk /\ SamePage(j, k)
             /\ j.session = k.session /\ j.beat = k.beat /\ j.state = k.state
<1> DEFINE w == [i \in DOMAIN k.wire |->
                   IF k.wire[i].to = slot THEN [k.wire[i] EXCEPT !.to = "nobody"] ELSE k.wire[i]]
<1>1. w \in Seq(Message)
  BY DeskFields, DetachLemma
<1>2. Unattached(k, slot) = [k EXCEPT !.wire = w]
  BY DEF Unattached, Desk
<1> HIDE DEF w
<1> QED BY <1>1, <1>2, WireLemma

LEMMA AppendLemma ==
  ASSUME NEW k \in Desk, NEW m \in Message
  PROVE  LET j == [k EXCEPT !.wire = Append(@, m)]
         IN  /\ j \in Desk /\ SamePage(j, k)
             /\ j.session = k.session /\ j.beat = k.beat /\ j.state = k.state
<1>1. Append(k.wire, m) \in Seq(Message)
  BY DeskFields, AppendProperties
<1> QED BY <1>1, WireLemma DEF Desk

LEMMA WithoutLemma ==
  ASSUME NEW w \in Seq(Message), NEW i \in 1 .. Len(w)
  PROVE  Without(w, i) \in Seq(Message)
<1>1. Len(w) \in Nat /\ \A n \in 1 .. Len(w) : w[n] \in Message
  BY LenProperties, ElementOfSeq
<1>2. i - 1 \in Int /\ i + 1 \in Int /\ Len(w) \in Int /\ 1 \in Int
  BY <1>1
<1>3. SubSeq(w, 1, i - 1) \in Seq(Message)
  <2>1. \A n \in 1 .. i - 1 : w[n] \in Message
    BY <1>1
  <2> QED BY <1>2, <2>1, SubSeqProperties
<1>4. SubSeq(w, i + 1, Len(w)) \in Seq(Message)
  <2>1. \A n \in i + 1 .. Len(w) : w[n] \in Message
    BY <1>1
  <2> QED BY <1>2, <2>1, SubSeqProperties
<1> QED BY <1>3, <1>4, ConcatProperties DEF Without

-----------------------------------------------------------------------------
(* The pieces of BackendClient.                                             *)

LEMMA AbortSessionLemma ==
  ASSUME NEW k \in Desk
  PROVE  LET j == AbortSessionRequest(k)
         IN  /\ j \in Desk /\ SamePage(j, k) /\ j.session = NoRequest
             /\ j.beat = k.beat /\ j.state = k.state
<1> DEFINE u == Unattached(k, "session")
<1>1. /\ u \in Desk /\ SamePage(u, k)
      /\ u.session = k.session /\ u.beat = k.beat /\ u.state = k.state
  BY UnattachedLemma
<1>2. AbortSessionRequest(k) = [u EXCEPT !.session = NoRequest]
  BY DEF AbortSessionRequest
<1>3. NoRequest \in SessionRequest
  BY DEF NoRequest, SessionRequest, MaybeDoc
<1> HIDE DEF u
<1> QED BY <1>1, <1>2, <1>3 DEF Desk, SamePage

LEMMA AbortHeartbeatLemma ==
  ASSUME NEW k \in Desk
  PROVE  LET j == AbortHeartbeatRequest(k)
         IN  /\ j \in Desk /\ SamePage(j, k) /\ j.session = k.session
             /\ j.beat = NoHeartbeat /\ j.state = k.state
<1> DEFINE u == Unattached(k, "beat")
<1>1. /\ u \in Desk /\ SamePage(u, k)
      /\ u.session = k.session /\ u.beat = k.beat /\ u.state = k.state
  BY UnattachedLemma
<1>2. AbortHeartbeatRequest(k) = [u EXCEPT !.beat = NoHeartbeat]
  BY DEF AbortHeartbeatRequest
<1>3. NoHeartbeat \in [doc : MaybeDoc, reply : {"none", "waiting", "ok", "lost", "failed"}]
  BY DEF NoHeartbeat, MaybeDoc
<1> HIDE DEF u
<1> QED BY <1>1, <1>2, <1>3 DEF Desk, SamePage

LEMMA SendLemma ==
  ASSUME NEW k \in Desk, NEW r \in SessionRequest,
         r.op \in {"acquire", "release"}, r.doc \in Docs
  PROVE  LET j == SendSessionRequest(k, r)
         IN  j \in Desk /\ SamePage(j, k) /\ j.session = r /\ j.state = k.state
<1> DEFINE a == AbortSessionRequest(k)
           s == [a EXCEPT !.session = r]
           m == [op |-> r.op, doc |-> r.doc, to |-> "session"]
<1>1. a \in Desk /\ SamePage(a, k) /\ a.state = k.state
  BY AbortSessionLemma
<1>2. SendSessionRequest(k, r) = [a EXCEPT !.session = r, !.wire = Append(@, m)]
  BY DEF SendSessionRequest
<1>3. m \in Message
  BY DEF Message
<1> HIDE DEF a, m
<1>4. s \in Desk /\ SamePage(s, k) /\ s.session = r /\ s.state = k.state
  BY <1>1 DEF Desk, SamePage
<1>5. SendSessionRequest(k, r) = [s EXCEPT !.wire = Append(@, m)]
  BY <1>1, <1>2 DEF Desk
<1> HIDE DEF s
<1> QED BY <1>3, <1>4, <1>5, AppendLemma DEF SamePage

LEMMA AcquireLemma ==
  ASSUME NEW k \in Desk, NEW d \in Docs, NEW fresh \in BOOLEAN
  PROVE  LET j == AcquireDocumentLock(k, d, fresh)
         IN  /\ j \in Desk /\ SamePage(j, k) /\ j.state = k.state
             /\ j.session.op = "acquire" /\ j.session.doc = d
             /\ j.session.fresh = fresh /\ j.session.then = "nothing"
<1> DEFINE r == [op |-> "acquire", doc |-> d, fresh |-> fresh, then |-> "nothing",
                 target |-> NoDoc, reply |-> "waiting"]
<1>1. /\ r \in SessionRequest /\ r.op = "acquire" /\ r.doc = d
      /\ r.fresh = fresh /\ r.then = "nothing"
  BY DEF SessionRequest, MaybeDoc
<1>2. AcquireDocumentLock(k, d, fresh) = SendSessionRequest(k, r)
  BY DEF AcquireDocumentLock
<1> HIDE DEF r
<1> QED BY <1>1, <1>2, SendLemma

\* A release is sent, or what comes after it happens at once.
LEMMA ReleaseLemma ==
  ASSUME NEW k \in Desk, NEW d \in Docs, NEW target \in MaybeDoc,
         NEW then \in {"nothing", "view"}
  PROVE  LET j == ReleaseDocumentLock(k, d, then, target)
         IN  /\ j \in Desk /\ j.state = k.state
             /\ j.selected = k.selected /\ j.active = k.active /\ j.beatIn = k.beatIn
             /\ \/ /\ j.access = k.access /\ j.session.op = "release" /\ j.session.fresh
                   /\ j.session.then = then
                \/ /\ j.session = NoRequest
                   /\ j.access = IF then = "view" THEN "view" ELSE k.access
<1>1. CASE k.state = "reachable"
  <2> DEFINE r == [op |-> "release", doc |-> d, fresh |-> TRUE, then |-> then,
                   target |-> target, reply |-> "waiting"]
  <2>1. /\ r \in SessionRequest /\ r.op = "release" /\ r.doc = d
        /\ r.fresh /\ r.then = then
    BY DEF SessionRequest, MaybeDoc
  <2>2. ReleaseDocumentLock(k, d, then, target) = SendSessionRequest(k, r)
    BY <1>1 DEF ReleaseDocumentLock
  <2> HIDE DEF r
  <2> QED BY <2>1, <2>2, SendLemma DEF SamePage
<1>2. CASE k.state # "reachable"
  <2> DEFINE a == AbortSessionRequest(k)
  <2>1. a \in Desk /\ SamePage(a, k) /\ a.session = NoRequest /\ a.state = k.state
    BY AbortSessionLemma
  <2>2. ReleaseDocumentLock(k, d, then, target) = Continue(a, TRUE, then, target)
    BY <1>2 DEF ReleaseDocumentLock
  <2> HIDE DEF a
  <2>3. CASE then = "view"
    <3>1. Continue(a, TRUE, then, target) = [a EXCEPT !.access = "view"]
      BY <2>3 DEF Continue
    <3> DEFINE v == [a EXCEPT !.access = "view"]
    <3>2. /\ v \in Desk /\ v.selected = a.selected /\ v.active = a.active
          /\ v.beatIn = a.beatIn /\ v.session = a.session /\ v.state = a.state
          /\ v.access = "view"
      BY <2>1 DEF Desk
    <3> HIDE DEF v
    <3> QED BY <2>1, <2>2, <2>3, <3>1, <3>2 DEF v, SamePage
  <2>4. CASE then = "nothing"
    <3>1. Continue(a, TRUE, then, target) = a
      BY <2>4 DEF Continue
    <3> QED BY <2>1, <2>2, <2>4, <3>1 DEF SamePage
  <2> QED BY <1>2, <2>3, <2>4
<1> QED BY <1>1, <1>2

LEMMA OutdateLemma ==
  ASSUME NEW k \in Desk
  PROVE  LET j == NextRequestId(k)
         IN  /\ j \in Desk /\ SamePage(j, k) /\ j.state = k.state
             /\ ~j.session.fresh /\ j.session.op = k.session.op
             /\ j.session.then = k.session.then /\ j.session.target = k.session.target
<1>1. k.session \in SessionRequest
  BY DEF Desk
<1> DEFINE r == [k.session EXCEPT !.fresh = FALSE]
<1>2. /\ r \in SessionRequest /\ ~r.fresh /\ r.op = k.session.op
      /\ r.then = k.session.then /\ r.target = k.session.target
  BY <1>1 DEF SessionRequest
<1>3. NextRequestId(k) = [k EXCEPT !.session = r]
  BY DEF NextRequestId, Desk
<1> HIDE DEF r
<1> QED BY <1>2, <1>3 DEF Desk, SamePage

LEMMA StopLemma ==
  ASSUME NEW k \in Desk
  PROVE  LET j == StopHeartbeat(k)
         IN  /\ j \in Desk /\ j.selected = k.selected /\ j.active = k.active
             /\ j.access = k.access /\ j.state = k.state /\ j.session = k.session
<1>1. Stopped \in 0 .. Stopped
  BY EditSessionAssumption DEF Stopped
<1> QED BY <1>1 DEF StopHeartbeat, Desk

LEMMA CloseLemma ==
  ASSUME NEW k \in Desk
  PROVE  LET j == CloseDocumentSession(k)
         IN  /\ j \in Desk /\ j.selected = k.selected /\ j.active = NoDoc
             /\ j.access = k.access /\ j.state = k.state
             /\ \/ j.session.op = "release" /\ j.session.then = "nothing"
                \/ j.session = NoRequest
<1> DEFINE n == NextRequestId(k)
           h == StopHeartbeat(n)
           s == AbortSessionRequest(h)
           idle == AbortHeartbeatRequest(s)
           gone == [idle EXCEPT !.active = NoDoc]
<1>1. n \in Desk /\ SamePage(n, k) /\ n.state = k.state
  BY OutdateLemma
<1> HIDE DEF n
<1>2. /\ h \in Desk /\ h.selected = k.selected /\ h.active = k.active
      /\ h.access = k.access /\ h.state = k.state
  BY <1>1, StopLemma DEF SamePage
<1> HIDE DEF h
<1>3. /\ idle \in Desk /\ idle.selected = k.selected /\ idle.active = k.active
      /\ idle.access = k.access /\ idle.state = k.state /\ idle.session = NoRequest
  <2>1. s \in Desk /\ SamePage(s, h) /\ s.session = NoRequest /\ s.state = h.state
    BY <1>2, AbortSessionLemma
  <2> HIDE DEF s
  <2> QED BY <1>2, <2>1, AbortHeartbeatLemma DEF SamePage
<1>4. CloseDocumentSession(k) =
        IF k.active = NoDoc THEN idle ELSE ReleaseDocumentLock(gone, k.active, "nothing", NoDoc)
  BY DEF CloseDocumentSession, idle, s, h, n
<1> HIDE DEF idle
<1>5. CASE k.active = NoDoc
  BY <1>3, <1>4, <1>5
<1>6. CASE k.active # NoDoc
  <2>1. k.active \in Docs
    BY <1>6 DEF Desk, MaybeDoc
  <2>2. /\ gone \in Desk /\ gone.selected = k.selected /\ gone.active = NoDoc
        /\ gone.access = k.access /\ gone.state = k.state
    BY <1>3 DEF Desk, MaybeDoc
  <2> HIDE DEF gone
  <2>3. NoDoc \in MaybeDoc
    BY DEF MaybeDoc
  <2> QED BY <1>4, <1>6, <2>1, <2>2, <2>3, ReleaseLemma
<1> QED BY <1>5, <1>6

-----------------------------------------------------------------------------
(* What each entry point of BackendClient leaves behind.                    *)

LEMMA LocalLemma ==
  ASSUME NEW k \in Desk
  PROVE  Good(LocalEditing(k))
<1> DEFINE j == CloseDocumentSession(k)
           l == [j EXCEPT !.access = "local"]
<1>1. /\ j \in Desk /\ j.active = NoDoc
      /\ \/ j.session.op = "release" /\ j.session.then = "nothing"
         \/ j.session = NoRequest
  BY CloseLemma
<1>2. LocalEditing(k) = l
  BY DEF LocalEditing
<1> HIDE DEF j
<1>3. l \in Desk /\ l.active = NoDoc /\ l.access = "local" /\ l.session = j.session
  BY <1>1 DEF Desk
<1> HIDE DEF l
<1> QED BY <1>1, <1>2, <1>3 DEF Good, Unchained, Shown, Backed, Current, NoRequest

LEMMA ViewLemma ==
  ASSUME NEW k \in Desk, Unchained(k), k.active = NoDoc \/ Shown(k)
  PROVE  Good([NextRequestId(k) EXCEPT !.access = "view"])
<1> DEFINE n == NextRequestId(k)
           v == [n EXCEPT !.access = "view"]
<1>1. /\ n \in Desk /\ SamePage(n, k) /\ ~n.session.fresh /\ n.session.op = k.session.op
      /\ n.session.then = k.session.then /\ n.session.target = k.session.target
  BY OutdateLemma
<1> HIDE DEF n
<1>2. /\ v \in Desk /\ v.selected = k.selected /\ v.active = k.active
      /\ v.access = "view" /\ v.session = n.session
  BY <1>1 DEF Desk, SamePage
<1> HIDE DEF v
<1>3. Good(v)
  BY <1>1, <1>2 DEF Good, Unchained, Shown, Backed, Current
<1> QED BY <1>3 DEF v, n

\* The claim is given up and a release is sent, after which the page is viewed.
LEMMA GiveUpLemma ==
  ASSUME NEW k \in Desk, k.active # NoDoc
  PROVE  Good(ReleaseDocumentLock([StopHeartbeat(NextRequestId(k)) EXCEPT !.active = NoDoc],
                                  k.active, "view", k.selected))
<1> DEFINE n == NextRequestId(k)
           h == StopHeartbeat(n)
           g == [h EXCEPT !.active = NoDoc]
           j == ReleaseDocumentLock(g, k.active, "view", k.selected)
<1>1. n \in Desk /\ n.selected = k.selected
  BY OutdateLemma DEF SamePage
<1> HIDE DEF n
<1>2. h \in Desk /\ h.selected = k.selected
  BY <1>1, StopLemma
<1> HIDE DEF h
<1>3. g \in Desk /\ g.active = NoDoc
  BY <1>2 DEF Desk, MaybeDoc
<1> HIDE DEF g
<1>4. k.active \in Docs /\ k.selected \in MaybeDoc
  BY DEF Desk, MaybeDoc
<1>5. /\ j \in Desk /\ j.active = NoDoc
      /\ \/ j.session.op = "release" /\ j.session.fresh /\ j.session.then = "view"
         \/ j.session = NoRequest /\ j.access = "view"
  BY <1>3, <1>4, ReleaseLemma
<1> HIDE DEF j
<1>6. Good(j)
  BY <1>5 DEF Good, Unchained, Shown, Backed, Current, NoRequest
<1> QED BY <1>6 DEF j, g, h, n

LEMMA OpenLemma ==
  ASSUME NEW k \in Desk, Unchained(k)
  PROVE  Good(OpenDocumentViewSession(k))
<1>1. CASE k.state # "reachable"
  BY <1>1, LocalLemma DEF OpenDocumentViewSession
<1>2. CASE k.state = "reachable" /\ k.active # NoDoc
  BY <1>2, GiveUpLemma DEF OpenDocumentViewSession
<1>3. CASE k.state = "reachable" /\ k.active = NoDoc
  BY <1>3, ViewLemma DEF OpenDocumentViewSession
<1> QED BY <1>1, <1>2, <1>3

LEMMA ExitLemma ==
  ASSUME NEW k, Good(k), k.selected # NoDoc
  PROVE  Good(ExitDocumentEditSession(k))
<1>1. CASE k.active = k.selected
  BY <1>1, GiveUpLemma DEF ExitDocumentEditSession, Good
<1>2. CASE k.active # k.selected
  BY <1>2, ViewLemma DEF ExitDocumentEditSession, Good
<1> QED BY <1>1, <1>2

LEMMA EnterLemma ==
  ASSUME NEW k, Good(k), k.selected # NoDoc, k.access = "view"
  PROVE  Good(EnterDocumentEditSession(k))
<1> DEFINE n == NextRequestId(k)
<1>1. k \in Desk /\ k.selected \in Docs
  BY DEF Good, Desk, MaybeDoc
<1>2. /\ n \in Desk /\ SamePage(n, k) /\ n.state = k.state
      /\ ~n.session.fresh /\ n.session.op = k.session.op
      /\ n.session.then = k.session.then /\ n.session.target = k.session.target
  BY <1>1, OutdateLemma
<1>3. CASE k.state # "reachable"
  BY <1>1, <1>3, LocalLemma DEF EnterDocumentEditSession
<1>4. CASE k.state = "reachable" /\ k.active = k.selected /\ k.beatIn # Stopped
  <2> DEFINE e == [n EXCEPT !.access = "edit"]
  <2>1. EnterDocumentEditSession(k) = e
    BY <1>4 DEF EnterDocumentEditSession
  <2> HIDE DEF n
  <2>2. /\ e \in Desk /\ e.selected = k.selected /\ e.active = k.active
        /\ e.beatIn = k.beatIn /\ e.session = n.session
    BY <1>2 DEF Desk, SamePage
  <2> HIDE DEF e
  <2> QED BY <1>2, <1>4, <2>1, <2>2 DEF Good, Unchained, Shown, Backed, Current
<1>5. CASE k.state = "reachable" /\ ~(k.active = k.selected /\ k.beatIn # Stopped)
  <2>1. k.active \in {NoDoc, k.selected}
    BY DEF Good, Shown
  <2> DEFINE a == AcquireDocumentLock(n, k.selected, TRUE)
  <2>2. EnterDocumentEditSession(k) = a
    BY <1>5, <2>1 DEF EnterDocumentEditSession
  <2> HIDE DEF n
  <2>3. /\ a \in Desk /\ SamePage(a, n)
        /\ a.session.op = "acquire" /\ a.session.doc = k.selected
        /\ a.session.then = "nothing"
    BY <1>1, <1>2, AcquireLemma
  <2> HIDE DEF a
  <2> QED BY <1>2, <2>1, <2>2, <2>3 DEF Good, Unchained, Shown, Backed, Current, SamePage
<1> QED BY <1>3, <1>4, <1>5

-----------------------------------------------------------------------------
(* Every step of a desktop ends in Good.                                    *)

DeskInv == desk \in [Clients -> Desk] /\ \A c \in Clients : Good(desk[c])

LEMMA SameIsGood ==
  ASSUME NEW k, Good(k), NEW j \in Desk, SamePage(j, k), SameRequest(j.session, k.session)
  PROVE  Good(j)
  BY DEF Good, Unchained, Shown, Backed, Current, SamePage, SameRequest

LEMMA BecomesLemma ==
  ASSUME DeskInv, NEW c \in Clients, NEW k, Good(k), Becomes(c, k)
  PROVE  DeskInv'
<1>1. k \in Desk
  BY DEF Good
<1>2. desk' = [desk EXCEPT ![c] = k]
  BY DEF Becomes
<1>3. desk' \in [Clients -> Desk] /\ \A e \in Clients : desk'[e] = k \/ desk'[e] = desk[e]
  BY <1>1, <1>2 DEF DeskInv
<1>4. \A e \in Clients : Good(desk'[e])
  BY <1>3 DEF DeskInv
<1> QED BY <1>3, <1>4 DEF DeskInv

LEMMA RefreshLemma ==
  ASSUME NEW k, Good(k)
  PROVE  Good(PageRefresh(k))
  BY OpenLemma DEF PageRefresh, Good

LEMMA UserLemma ==
  ASSUME DeskInv, NEW c \in Clients, UserStep(c)
  PROVE  DeskInv'
<1> DEFINE k == desk[c]
<1>1. Good(k) /\ k \in Desk
  BY DEF DeskInv
<1>2. CASE \E d \in Docs : SelectDocument(c, d)
  <2>1. PICK d \in Docs : SelectDocument(c, d)
    BY <1>2
  <2> DEFINE s == [k EXCEPT !.selected = d]
  <2>2. s \in Desk /\ Unchained(s)
    BY <1>1 DEF Desk, MaybeDoc, Good, Unchained
  <2>3. Becomes(c, OpenDocumentViewSession(s))
    BY <2>1 DEF SelectDocument
  <2> HIDE DEF s
  <2> QED BY <2>2, <2>3, OpenLemma, BecomesLemma
<1>3. CASE ActivateWorkspace(c)
  <2> DEFINE s == [k EXCEPT !.selected = NoDoc, !.access = "view"]
  <2>1. s \in Desk /\ s.selected = NoDoc /\ s.session = k.session
    BY <1>1 DEF Desk, MaybeDoc
  <2>2. Becomes(c, s)
    BY <1>3 DEF ActivateWorkspace
  <2> HIDE DEF s
  <2>3. Good(s)
    BY <1>1, <2>1 DEF Good, Unchained, Shown, Backed, Current
  <2> QED BY <2>2, <2>3, BecomesLemma
<1>4. CASE EnterEditMode(c)
  BY <1>1, <1>4, EnterLemma, BecomesLemma DEF EnterEditMode
<1>5. CASE ExitEditMode(c)
  BY <1>1, <1>5, ExitLemma, BecomesLemma DEF ExitEditMode
<1>6. CASE RefreshSelectedDocumentAccess(c)
  BY <1>1, <1>6, RefreshLemma, BecomesLemma DEF RefreshSelectedDocumentAccess
<1>7. CASE CheckBackendNow(c)
  <2> DEFINE j == [k EXCEPT !.state = "checking"]
  <2>1. j \in Desk /\ SamePage(j, k) /\ SameRequest(j.session, k.session)
    BY <1>1 DEF Desk, SamePage, SameRequest
  <2>2. Becomes(c, j)
    BY <1>7 DEF CheckBackendNow
  <2> HIDE DEF j
  <2> QED BY <1>1, <2>1, <2>2, SameIsGood, BecomesLemma
<1> QED BY <1>2, <1>3, <1>4, <1>5, <1>6, <1>7 DEF UserStep

LEMMA HeartbeatTimerLemma ==
  ASSUME DeskInv, NEW c \in Clients, HeartbeatTimer(c)
  PROVE  DeskInv'
<1> DEFINE k == [desk[c] EXCEPT !.beatIn = Beat]
           a == AbortHeartbeatRequest(k)
           b == [a EXCEPT !.beat = [doc |-> k.active, reply |-> "waiting"]]
           m == [op |-> "heartbeat", doc |-> k.active, to |-> "beat"]
           s == [b EXCEPT !.wire = Append(@, m)]
<1>1. Good(desk[c]) /\ desk[c] \in Desk
  BY DEF DeskInv
<1>2. Beat # Stopped /\ Beat \in 0 .. Stopped
  BY EditSessionAssumption DEF Stopped
<1>3. /\ k \in Desk /\ k.selected = desk[c].selected /\ k.active = desk[c].active
      /\ k.access = desk[c].access /\ k.session = desk[c].session /\ k.beatIn = Beat
  BY <1>1, <1>2 DEF Desk
<1>4. \/ Becomes(c, k)
      \/ /\ k.active # NoDoc
         /\ Becomes(c, [a EXCEPT !.beat = [doc |-> k.active, reply |-> "waiting"],
                                 !.wire = Append(@, m)])
  BY DEF HeartbeatTimer
<1> HIDE DEF k
<1>5. Good(k)
  BY <1>1, <1>2, <1>3 DEF Good, Unchained, Shown, Backed, Current
<1>6. CASE Becomes(c, k)
  BY <1>5, <1>6, BecomesLemma
<1>7. CASE k.active # NoDoc /\ Becomes(c, [a EXCEPT !.beat = [doc |-> k.active, reply |-> "waiting"],
                                                    !.wire = Append(@, m)])
  <2>1. k.active \in Docs
    BY <1>3, <1>7 DEF Desk, MaybeDoc
  <2>2. m \in Message /\ [doc |-> k.active, reply |-> "waiting"] \in
          [doc : MaybeDoc, reply : {"none", "waiting", "ok", "lost", "failed"}]
    BY <2>1 DEF Message, MaybeDoc
  <2>3. a \in Desk /\ SamePage(a, k) /\ a.session = k.session
    BY <1>3, AbortHeartbeatLemma
  <2> HIDE DEF a, m
  <2>4. b \in Desk /\ SamePage(b, k) /\ b.session = k.session
    BY <2>2, <2>3 DEF Desk, SamePage
  <2>5. s = [a EXCEPT !.beat = [doc |-> k.active, reply |-> "waiting"], !.wire = Append(@, m)]
    BY <2>3 DEF Desk
  <2> HIDE DEF b
  <2>6. s \in Desk /\ SamePage(s, k) /\ s.session = k.session
    BY <2>2, <2>4, AppendLemma DEF SamePage
  <2> HIDE DEF s
  <2>7. Good(s)
    BY <1>5, <2>6, SameIsGood DEF SameRequest
  <2> QED BY <1>7, <2>5, <2>7, BecomesLemma
<1> QED BY <1>4, <1>6, <1>7

LEMMA HeartbeatAnsweredLemma ==
  ASSUME DeskInv, NEW c \in Clients, HeartbeatAnswered(c)
  PROVE  DeskInv'
<1> DEFINE d == desk[c].beat.doc
           k == [desk[c] EXCEPT !.beat = NoHeartbeat]
           h == StopHeartbeat(k)
           s == [h EXCEPT !.active = NoDoc, !.access = IF k.selected = d THEN "view" ELSE @]
<1>1. Good(desk[c]) /\ desk[c] \in Desk
  BY DEF DeskInv
<1>2. NoHeartbeat \in [doc : MaybeDoc, reply : {"none", "waiting", "ok", "lost", "failed"}]
  BY DEF NoHeartbeat, MaybeDoc
<1>3. k \in Desk /\ SamePage(k, desk[c]) /\ k.session = desk[c].session
  BY <1>1, <1>2 DEF Desk, SamePage
<1>4. Becomes(c, k) \/ (k.active = d /\ Becomes(c, LockLost(k, d)))
  BY DEF HeartbeatAnswered
<1> HIDE DEF k, d
<1>5. Good(k)
  BY <1>1, <1>3, SameIsGood DEF SameRequest
<1>6. CASE k.active = d /\ Becomes(c, LockLost(k, d))
  <2>1. LockLost(k, d) = s
    BY DEF LockLost
  <2>2. /\ h \in Desk /\ h.selected = k.selected
        /\ h.access = k.access /\ h.session = k.session
    BY <1>3, StopLemma
  <2> HIDE DEF h
  <2>3. /\ s \in Desk /\ s.selected = k.selected /\ s.active = NoDoc /\ s.session = k.session
        /\ s.access = IF k.selected = d THEN "view" ELSE k.access
    BY <2>2 DEF Desk, MaybeDoc
  <2> HIDE DEF s
  <2>4. Good(s)
    BY <1>5, <1>6, <2>3 DEF Good, Unchained, Shown, Backed, Current
  <2> QED BY <1>6, <2>1, <2>4, BecomesLemma
<1> QED BY <1>4, <1>5, <1>6, BecomesLemma

LEMMA AcquireAnsweredLemma ==
  ASSUME DeskInv, NEW c \in Clients, AcquireAnswered(c)
  PROVE  DeskInv'
<1> DEFINE r == desk[c].session
           k == [desk[c] EXCEPT !.session = NoRequest]
           e == [k EXCEPT !.active = r.doc, !.access = "edit"]
           v == [k EXCEPT !.access = "view"]
<1>1. Good(desk[c]) /\ desk[c] \in Desk /\ r \in SessionRequest /\ r.op = "acquire"
  BY DEF DeskInv, Desk, AcquireAnswered
<1>2. NoRequest \in SessionRequest /\ ~NoRequest.fresh /\ NoRequest.op = "none"
      /\ NoRequest.then = "nothing"
  BY DEF NoRequest, SessionRequest, MaybeDoc
<1>3. k \in Desk /\ SamePage(k, desk[c]) /\ k.session = NoRequest
  BY <1>1, <1>2 DEF Desk, SamePage
<1>4. \/ Becomes(c, k) \/ Becomes(c, LocalEditing(k)) \/ Becomes(c, v)
      \/ r.fresh /\ Becomes(c, StartHeartbeat(e))
  BY <1>1 DEF AcquireAnswered
<1> HIDE DEF k
<1>5. Good(k)
  BY <1>1, <1>2, <1>3 DEF Good, Unchained, Shown, Backed, Current, SamePage
<1>6. CASE Becomes(c, v)
  <2>1. /\ v \in Desk /\ v.selected = k.selected /\ v.active = k.active
        /\ v.access = "view" /\ v.session = NoRequest
    BY <1>3 DEF Desk
  <2> HIDE DEF v
  <2>2. Good(v)
    BY <1>2, <1>5, <2>1 DEF Good, Unchained, Shown, Backed, Current
  <2> QED BY <1>6, <2>2, BecomesLemma
<1>7. CASE r.fresh /\ Becomes(c, StartHeartbeat(e))
  <2> DEFINE s == StartHeartbeat(e)
  <2>1. Beat # Stopped /\ Beat \in 0 .. Stopped
    BY EditSessionAssumption DEF Stopped
  <2>2. r.doc \in MaybeDoc /\ (k.selected # NoDoc => r.doc = k.selected)
    BY <1>1, <1>3, <1>7 DEF SessionRequest, Good, Current, SamePage
  <2> HIDE DEF r
  <2>3. /\ e \in Desk /\ e.selected = k.selected /\ e.active = r.doc
        /\ e.access = "edit" /\ e.session = NoRequest
    BY <1>3, <2>2 DEF Desk
  <2> HIDE DEF e
  <2>4. /\ s \in Desk /\ s.selected = k.selected /\ s.active = r.doc
        /\ s.session = NoRequest /\ s.beatIn # Stopped
    BY <2>1, <2>3 DEF StartHeartbeat, Desk
  <2>5. Good(s)
    BY <1>2, <2>2, <2>4 DEF Good, Unchained, Shown, Backed, Current
  <2> QED BY <1>7, <2>5, BecomesLemma
<1> QED BY <1>3, <1>4, <1>5, <1>6, <1>7, LocalLemma, BecomesLemma

LEMMA ReleaseAnsweredLemma ==
  ASSUME DeskInv, NEW c \in Clients, ReleaseAnswered(c)
  PROVE  DeskInv'
<1> DEFINE r == desk[c].session
           k == [desk[c] EXCEPT !.session = NoRequest]
           v == [k EXCEPT !.access = "view"]
<1>1. /\ Good(desk[c]) /\ desk[c] \in Desk /\ r \in SessionRequest
      /\ r.op = "release" /\ r.then # "acquire"
  BY DEF DeskInv, Desk, ReleaseAnswered, Good, Unchained
<1>2. NoRequest \in SessionRequest /\ ~NoRequest.fresh /\ NoRequest.op = "none"
      /\ NoRequest.then = "nothing"
  BY DEF NoRequest, SessionRequest, MaybeDoc
<1>3. k \in Desk /\ SamePage(k, desk[c]) /\ k.session = NoRequest
  BY <1>1, <1>2 DEF Desk, SamePage
<1>4. Becomes(c, Continue(k, r.fresh, r.then, r.target))
  BY DEF ReleaseAnswered
<1>5. r.then \in {"nothing", "view"}
  BY <1>1 DEF SessionRequest
<1> HIDE DEF k
<1>6. CASE r.then = "view" /\ r.fresh
  <2>1. Continue(k, r.fresh, r.then, r.target) = v
    BY <1>6 DEF Continue
  <2>2. /\ v \in Desk /\ v.selected = k.selected /\ v.active = k.active
        /\ v.access = "view" /\ v.session = NoRequest
    BY <1>3 DEF Desk
  <2> HIDE DEF v
  <2>3. Good(v)
    BY <1>1, <1>2, <1>3, <2>2 DEF Good, Unchained, Shown, Backed, Current, SamePage
  <2> QED BY <1>4, <2>1, <2>3, BecomesLemma
<1>7. CASE ~(r.then = "view" /\ r.fresh)
  <2>1. Continue(k, r.fresh, r.then, r.target) = k
    BY <1>5, <1>7 DEF Continue
  <2>2. Good(k)
    BY <1>1, <1>2, <1>3, <1>7 DEF Good, Unchained, Shown, Backed, Current, SamePage
  <2> QED BY <1>4, <2>1, <2>2, BecomesLemma
<1> QED BY <1>6, <1>7

LEMMA HealthLemma ==
  ASSUME DeskInv, NEW c \in Clients, HealthTimer(c) \/ HealthAnswered(c)
  PROVE  DeskInv'
<1>1. Good(desk[c])
  BY DEF DeskInv
<1>2. ASSUME NEW k, Good(k), NEW t \in {"checking", "reachable", "unavailable"}
      PROVE  Good([k EXCEPT !.state = t])
  <2> DEFINE j == [k EXCEPT !.state = t]
  <2>1. j \in Desk /\ SamePage(j, k) /\ SameRequest(j.session, k.session)
    BY <1>2 DEF Good, Desk, SamePage, SameRequest
  <2> QED BY <1>2, <2>1, SameIsGood
<1>3. CASE HealthTimer(c)
  <2> DEFINE j == [desk[c] EXCEPT !.state = "checking", !.healthIn = Health]
  <2>1. Health \in 0 .. Health
    BY EditSessionAssumption
  <2>3. j \in Desk /\ SamePage(j, desk[c]) /\ SameRequest(j.session, desk[c].session)
    BY <1>1, <2>1 DEF Good, Desk, SamePage, SameRequest
  <2>2. Becomes(c, j)
    BY <1>3 DEF HealthTimer
  <2> HIDE DEF j
  <2> QED BY <1>1, <2>2, <2>3, SameIsGood, BecomesLemma
<1>4. CASE HealthAnswered(c)
  <2>1. \E k \in {desk[c], PageRefresh(desk[c])}, t \in {"reachable", "unavailable"} :
          Becomes(c, [k EXCEPT !.state = t])
    BY <1>4 DEF HealthAnswered
  <2>2. PICK k \in {desk[c], PageRefresh(desk[c])}, t \in {"reachable", "unavailable"} :
          Becomes(c, [k EXCEPT !.state = t])
    BY <2>1
  <2>3. Good(k)
    BY <1>1, RefreshLemma
  <2> QED BY <1>2, <2>2, <2>3, BecomesLemma
<1> QED BY <1>3, <1>4

-----------------------------------------------------------------------------
(* The network.                                                             *)

LEMMA SessionReplyLemma ==
  ASSUME NEW k, Good(k), NEW reply \in {"granted", "denied", "released", "failed"}
  PROVE  Good([k EXCEPT !.session.reply = reply])
<1> DEFINE r == [k.session EXCEPT !.reply = reply]
           j == [k EXCEPT !.session = r]
<1>1. k \in Desk
  BY DEF Good
<1>2. r \in SessionRequest /\ SameRequest(r, k.session)
  BY <1>1 DEF Desk, SessionRequest, SameRequest
<1>3. [k EXCEPT !.session.reply = reply] = j
  BY <1>1 DEF Desk
<1> HIDE DEF r
<1>4. j \in Desk /\ SamePage(j, k) /\ j.session = r
  BY <1>1, <1>2 DEF Desk, SamePage
<1> HIDE DEF j
<1> QED BY <1>2, <1>3, <1>4, SameIsGood

LEMMA BeatReplyLemma ==
  ASSUME NEW k, Good(k), NEW reply \in {"ok", "lost", "failed"}
  PROVE  Good([k EXCEPT !.beat.reply = reply])
<1> DEFINE h == [k.beat EXCEPT !.reply = reply]
           j == [k EXCEPT !.beat = h]
<1>1. k \in Desk
  BY DEF Good
<1>2. h \in [doc : MaybeDoc, reply : {"none", "waiting", "ok", "lost", "failed"}]
  BY <1>1 DEF Desk
<1>3. [k EXCEPT !.beat.reply = reply] = j
  BY <1>1 DEF Desk
<1> HIDE DEF h
<1>4. j \in Desk /\ SamePage(j, k) /\ j.session = k.session
  BY <1>1, <1>2 DEF Desk, SamePage
<1> HIDE DEF j
<1> QED BY <1>3, <1>4, SameIsGood DEF SameRequest

LEMMA AnswerLemma ==
  ASSUME NEW k, Good(k), NEW i \in 1 .. Len(k.wire), NEW reply,
         k.wire[i].to = "session" => reply \in {"granted", "denied", "released", "failed"},
         k.wire[i].to = "beat" => reply \in {"ok", "lost", "failed"}
  PROVE  Good(Answer(k, i, reply))
<1> DEFINE rest == [k EXCEPT !.wire = Without(@, i)]
<1>1. k \in Desk /\ k.wire \in Seq(Message)
  BY DeskFields DEF Good
<1>2. k.wire[i] \in Message
  BY <1>1, ElementOfSeq
<1>3. Without(k.wire, i) \in Seq(Message)
  BY <1>1, WithoutLemma
<1>4. rest \in Desk /\ SamePage(rest, k) /\ rest.session = k.session
  BY <1>1, <1>3, WireLemma DEF Desk
<1>5. Answer(k, i, reply) =
        CASE k.wire[i].to = "session" -> [rest EXCEPT !.session.reply = reply]
          [] k.wire[i].to = "beat" -> [rest EXCEPT !.beat.reply = reply]
          [] k.wire[i].to = "nobody" -> rest
  BY DEF Answer
<1> HIDE DEF rest
<1>6. Good(rest)
  BY <1>4, SameIsGood DEF SameRequest
<1>7. CASE k.wire[i].to = "session"
  <2>1. Answer(k, i, reply) = [rest EXCEPT !.session.reply = reply]
    BY <1>5, <1>7
  <2>2. Good([rest EXCEPT !.session.reply = reply])
    BY <1>6, <1>7, SessionReplyLemma
  <2> QED BY <2>1, <2>2
<1>8. CASE k.wire[i].to = "beat"
  <2>1. Answer(k, i, reply) = [rest EXCEPT !.beat.reply = reply]
    BY <1>5, <1>8
  <2>2. Good([rest EXCEPT !.beat.reply = reply])
    BY <1>6, <1>8, BeatReplyLemma
  <2> QED BY <2>1, <2>2
<1>9. CASE k.wire[i].to = "nobody"
  BY <1>5, <1>6, <1>9
<1> QED BY <1>2, <1>7, <1>8, <1>9 DEF Message

LEMMA RequestLemma ==
  ASSUME DeskInv, NEW c \in Clients, NetworkStep(c)
  PROVE  DeskInv'
<1> DEFINE k == desk[c]
<1>1. Good(k) /\ k \in Desk /\ k.wire \in Seq(Message)
  BY DeskFields DEF DeskInv
<1>2. PICK i \in 1 .. MaxWire : HandleRequest(c, i) \/ LoseRequest(c, i)
  BY DEF NetworkStep
<1>3. i \in 1 .. Len(k.wire)
  BY <1>2 DEF HandleRequest, LoseRequest
<1>4. k.wire[i] \in Message
  BY <1>1, <1>3, ElementOfSeq
<1>5. \E reply : /\ Becomes(c, Answer(k, i, reply))
                 /\ k.wire[i].to = "session" => reply \in {"granted", "denied", "released", "failed"}
                 /\ k.wire[i].to = "beat" => reply \in {"ok", "lost", "failed"}
  <2>1. CASE LoseRequest(c, i)
    BY <2>1 DEF LoseRequest
  <2>2. CASE HandleRequest(c, i)
    BY <1>4, <2>2 DEF HandleRequest, Message
  <2> QED BY <1>2, <2>1, <2>2
<1> QED BY <1>1, <1>3, <1>5, AnswerLemma, BecomesLemma

LEMMA CrashLemma ==
  ASSUME DeskInv, NEW c \in Clients, Crash(c)
  PROVE  DeskInv'
<1> DEFINE h == StopHeartbeat(desk[c])
           a == AbortSessionRequest(h)
           b == AbortHeartbeatRequest(a)
           s == [b EXCEPT !.state = "crashed", !.active = NoDoc, !.selected = NoDoc,
                          !.access = "view", !.healthIn = Health]
<1>1. desk[c] \in Desk
  BY DEF DeskInv
<1>2. h \in Desk
  BY <1>1, StopLemma
<1>3. Becomes(c, s)
  BY DEF Crash
<1> HIDE DEF h
<1>4. a \in Desk /\ a.session = NoRequest
  BY <1>2, AbortSessionLemma
<1> HIDE DEF a
<1>5. b \in Desk /\ b.session = NoRequest
  BY <1>4, AbortHeartbeatLemma
<1> HIDE DEF b
<1>6. Health \in 0 .. Health /\ NoDoc \in MaybeDoc
  BY EditSessionAssumption DEF MaybeDoc
<1>7. s \in Desk /\ s.selected = NoDoc /\ s.session = NoRequest
  BY <1>5, <1>6 DEF Desk
<1> HIDE DEF s
<1>8. Good(s)
  BY <1>7 DEF Good, Unchained, Shown, Backed, Current, NoRequest
<1> QED BY <1>3, <1>8, BecomesLemma

LEMMA RelaunchLemma ==
  ASSUME DeskInv, NEW c \in Clients, Relaunch(c)
  PROVE  DeskInv'
<1> DEFINE j == [desk[c] EXCEPT !.state = "checking"]
<1>1. Good(desk[c]) /\ Becomes(c, j)
  BY DEF DeskInv, Relaunch
<1>2. j \in Desk /\ SamePage(j, desk[c]) /\ SameRequest(j.session, desk[c].session)
  BY <1>1 DEF Good, Desk, SamePage, SameRequest
<1> HIDE DEF j
<1> QED BY <1>1, <1>2, SameIsGood, BecomesLemma

LEMMA LoseAnswerLemma ==
  ASSUME DeskInv, NEW c \in Clients, LoseAnswer(c)
  PROVE  DeskInv'
<1>1. Good(desk[c])
  BY DEF DeskInv
<1>2. \/ Becomes(c, [desk[c] EXCEPT !.session.reply = "failed"])
      \/ Becomes(c, [desk[c] EXCEPT !.beat.reply = "failed"])
  BY DEF LoseAnswer
<1> QED BY <1>1, <1>2, SessionReplyLemma, BeatReplyLemma, BecomesLemma

LEMMA TickLemma ==
  ASSUME DeskInv, Tick
  PROVE  DeskInv'
<1> DEFINE s(c) == [desk[c] EXCEPT !.healthIn = @ - 1,
                                   !.beatIn = IF @ = Stopped THEN @ ELSE @ - 1]
<1>1. ASSUME NEW c \in Clients
      PROVE  Good(desk[c]) /\ (Alive(c) => Good(s(c)))
  <2>1. Good(desk[c]) /\ desk[c] \in Desk
    BY DEF DeskInv
  <2>2. CASE Alive(c)
    <3>1. desk[c].healthIn # 0 /\ desk[c].beatIn # 0
      BY <2>2 DEF Tick, Quiet
    <3>2. /\ desk[c].healthIn - 1 \in 0 .. Health
          /\ desk[c].beatIn - 1 \in 0 .. Stopped /\ desk[c].beatIn - 1 # Stopped
          /\ desk[c].beatIn \in 0 .. Stopped
      BY <2>1, <3>1, EditSessionAssumption DEF Desk, Stopped
    <3>3. /\ s(c) \in Desk /\ s(c).selected = desk[c].selected
          /\ s(c).active = desk[c].active /\ s(c).access = desk[c].access
          /\ s(c).session = desk[c].session
          /\ desk[c].beatIn # Stopped => s(c).beatIn # Stopped
      BY <2>1, <3>2 DEF Desk
    <3> HIDE DEF s
    <3> QED BY <2>1, <3>3 DEF Good, Unchained, Shown, Backed, Current
  <2> QED BY <2>1, <2>2
<1>2. desk' = [c \in Clients |-> IF ~Alive(c) THEN desk[c] ELSE s(c)]
  BY DEF Tick
<1> HIDE DEF s
<1>3. \A c \in Clients : Good(desk'[c])
  BY <1>1, <1>2
<1>4. \A c \in Clients : desk'[c] \in Desk
  BY <1>3 DEF Good
<1>5. desk' \in [Clients -> Desk]
  BY <1>2, <1>4
<1> QED BY <1>3, <1>5 DEF DeskInv

-----------------------------------------------------------------------------
(* The lock table.                                                          *)

LEMMA LocksLemma ==
  ASSUME LocksTypeOK, NEW d \in Docs, NEW o \in Owners
  PROVE  /\ Pruned \in [Docs -> LockInfo \cup {Free}]
         /\ Acquire(d, o) \/ Heartbeat(d, o) \/ Release(d, o) \/ ForceRelease(d) => LocksTypeOK'
<1>1. Pruned \in [Docs -> LockInfo \cup {Free}]
  BY DEF Pruned, LocksTypeOK
<1>2. [owner |-> o, age |-> 0] \in LockInfo
  BY LockServiceAssumption DEF LockInfo
<1>3. Refreshed(d, o) \in [Docs -> LockInfo \cup {Free}]
  BY <1>1, <1>2 DEF Refreshed
<1>4. [Pruned EXCEPT ![d] = Free] \in [Docs -> LockInfo \cup {Free}]
  BY <1>1
<1> QED BY <1>1, <1>3, <1>4 DEF Acquire, Heartbeat, Release, ForceRelease, LocksTypeOK

LEMMA ElapseLemma ==
  ASSUME LocksTypeOK, Elapse
  PROVE  LocksTypeOK'
<1>1. ASSUME NEW l \in LockInfo PROVE Aged(l) \in LockInfo
  BY LockServiceAssumption DEF Aged, LockInfo
<1>2. \A d \in Docs : locks[d] # Free => locks[d] \in LockInfo
  BY DEF LocksTypeOK
<1> QED BY <1>1, <1>2 DEF Elapse, LocksTypeOK

-----------------------------------------------------------------------------
IInv == LocksTypeOK /\ up \in [Clients -> BOOLEAN] /\ DeskInv

LEMMA InitLemma == Init => IInv
<1> SUFFICES ASSUME Init PROVE IInv
  OBVIOUS
<1> DEFINE k == [state |-> "checking", healthIn |-> Health, active |-> NoDoc, beatIn |-> Stopped,
                 session |-> NoRequest, beat |-> NoHeartbeat, wire |-> <<>>, selected |-> NoDoc,
                 access |-> "view"]
<1>1. k \in Desk
  <2>1. Health \in 0 .. Health /\ Stopped \in 0 .. Stopped
    BY EditSessionAssumption DEF Stopped
  <2>2. NoRequest \in SessionRequest /\ <<>> \in Seq(Message)
    BY EmptySeq DEF NoRequest, SessionRequest, MaybeDoc
  <2>3. NoHeartbeat \in [doc : MaybeDoc, reply : {"none", "waiting", "ok", "lost", "failed"}]
    BY DEF NoHeartbeat, MaybeDoc
  <2> QED BY <2>1, <2>2, <2>3 DEF Desk, MaybeDoc
<1>2. k.selected = NoDoc /\ k.session = NoRequest
  OBVIOUS
<1>3. desk = [c \in Clients |-> k]
  BY DEF Init
<1> HIDE DEF k
<1>4. Good(k)
  BY <1>1, <1>2 DEF Good, Unchained, Shown, Backed, Current, NoRequest
<1>5. LocksTypeOK /\ up \in [Clients -> BOOLEAN]
  BY DEF Init, NoLocks, LocksTypeOK
<1> QED BY <1>1, <1>3, <1>4, <1>5 DEF IInv, DeskInv

LEMMA NextLemma == IInv /\ [Next]_vars => IInv'
<1> SUFFICES ASSUME IInv, [Next]_vars PROVE IInv'
  OBVIOUS
<1> USE DEF IInv
<1>1. ASSUME NEW c \in Clients, UserStep(c) PROVE IInv'
  <2>1. locks' = locks /\ up' = up
    BY <1>1 DEF UserStep, SelectDocument, ActivateWorkspace, EnterEditMode, ExitEditMode,
                RefreshSelectedDocumentAccess, CheckBackendNow
  <2> QED BY <1>1, <2>1, UserLemma DEF LocksTypeOK
<1>2. ASSUME NEW c \in Clients, ClientStep(c) PROVE IInv'
  <2>1. locks' = locks /\ up' = up
    BY <1>2 DEF ClientStep, HeartbeatTimer, HeartbeatAnswered, AcquireAnswered, ReleaseAnswered,
                HealthTimer, HealthAnswered
  <2>2. DeskInv'
    BY <1>2, HeartbeatTimerLemma, HeartbeatAnsweredLemma, AcquireAnsweredLemma,
       ReleaseAnsweredLemma, HealthLemma DEF ClientStep
  <2> QED BY <2>1, <2>2 DEF LocksTypeOK
<1>3. ASSUME NEW c \in Clients, NetworkStep(c) PROVE IInv'
  <2>1. PICK i \in 1 .. MaxWire : HandleRequest(c, i) \/ LoseRequest(c, i)
    BY <1>3 DEF NetworkStep
  <2>2. up' = up
    BY <2>1 DEF HandleRequest, LoseRequest
  <2>3. LocksTypeOK'
    <3>1. CASE LoseRequest(c, i)
      BY <3>1 DEF LoseRequest, LocksTypeOK
    <3>2. CASE HandleRequest(c, i)
      <4>1. desk[c].wire[i] \in Message
        BY <3>2, DeskFields, ElementOfSeq DEF HandleRequest, DeskInv
      <4>2. desk[c].wire[i].doc \in Docs /\ OwnerOf[c] \in Owners
        BY <4>1, EditSessionAssumption DEF Message
      <4> QED BY <3>2, <4>2, LocksLemma DEF HandleRequest
    <3> QED BY <2>1, <3>1, <3>2
  <2> QED BY <1>3, <2>2, <2>3, RequestLemma
<1>4. CASE EnvironmentStep
  <2>1. ASSUME NEW c \in Clients, LoseAnswer(c) \/ Crash(c) \/ Relaunch(c) PROVE IInv'
    <3>1. locks' = locks /\ up' = up
      BY <2>1 DEF LoseAnswer, Crash, Relaunch
    <3> QED BY <2>1, <3>1, LoseAnswerLemma, CrashLemma, RelaunchLemma DEF LocksTypeOK
  <2>2. ASSUME NEW c \in Clients, Partition(c) \/ Heal(c) PROVE IInv'
    BY <2>2 DEF Partition, Heal, LocksTypeOK, DeskInv
  <2>3. CASE ServerRestart
    BY <2>3 DEF ServerRestart, NoLocks, LocksTypeOK, DeskInv
  <2>4. ASSUME NEW d \in Docs, AdminForceRelease(d) PROVE IInv'
    <3>1. locks[d] \in LockInfo
      BY <2>4 DEF AdminForceRelease, LocksTypeOK
    <3>2. locks[d].owner \in Owners
      BY <3>1 DEF LockInfo
    <3> QED BY <2>4, <3>2, LocksLemma DEF AdminForceRelease, DeskInv
  <2> QED BY <1>4, <2>1, <2>2, <2>3, <2>4 DEF EnvironmentStep
<1>5. CASE Tick
  BY <1>5, TickLemma, ElapseLemma DEF Tick
<1>6. CASE UNCHANGED vars
  BY <1>6 DEF vars, LocksTypeOK, DeskInv
<1> QED BY <1>1, <1>2, <1>3, <1>4, <1>5, <1>6 DEF Next

\* The lock table, the desktops and the wire keep their types.
THEOREM TypeCorrect == Spec => []TypeOK
<1>1. IInv => TypeOK
  BY DEF IInv, DeskInv, TypeOK
<1> QED BY <1>1, InitLemma, NextLemma, PTL DEF Spec

\* A desktop in edit mode has a claim on the page it shows and keeps it alive, or
\* has sent the release that ends it (EnterDocumentEditSession and page.cc).
THEOREM EditCorrect == Spec => []EditIsBacked
<1>1. IInv => EditIsBacked
  BY DEF IInv, DeskInv, EditIsBacked, Good, Backed
<1> QED BY <1>1, InitLemma, NextLemma, PTL DEF Spec

\* The claim of a desktop is on the page it shows (session_request_id_).
THEOREM ClaimCorrect == Spec => []ClaimIsShown
<1>1. IInv => ClaimIsShown
  BY DEF IInv, DeskInv, ClaimIsShown, Good, Shown
<1> QED BY <1>1, InitLemma, NextLemma, PTL DEF Spec
-----------------------------------------------------------------------------
(* The claim of a desktop is held: the lock table has its lock, and it does *)
(* not run out before the next heartbeat, although one of them is skipped   *)
(* when a health check is under way.                                        *)

\* What ClaimIsHeld needs of the environment and of the intervals: the backend
\* stays, keeps its table and the order of requests; a user has one desktop;
\* heartbeats are more frequent than health checks, so no two in a row are
\* skipped, and the lease outlasts two of them (10, 15 and 30 seconds in the code).
Steady ==
  /\ Faults \subseteq {"crash"}
  /\ \A c, e \in Clients : OwnerOf[c] = OwnerOf[e] => c = e
  /\ Beat < Health /\ (Lease = 0 \/ 2 * Beat < Lease)

Releases(w) == \E i \in DOMAIN w : w[i].op = "release"
IsGranted(k) == k.session.op = "acquire" /\ k.session.reply = "granted"

\* Only the last request but for heartbeats is awaited, and it is the one
\* session_reply_ stands for.
Fits(k) ==
  \A i \in DOMAIN k.wire : k.wire[i].to = "session" =>
    /\ k.session.op = k.wire[i].op /\ k.session.doc = k.wire[i].doc
    /\ k.session.reply = "waiting"
    /\ \A n \in DOMAIN k.wire : n > i => k.wire[n].op = "heartbeat"

Calm(k) ==
  /\ k.active = NoDoc <=> k.beatIn = Stopped
  /\ k.state # "unavailable"
  /\ k.state \in {"checking", "crashed"} => k.healthIn = Health
  /\ k.state = "crashed" => k.active = NoDoc /\ k.session = NoRequest
  /\ Fits(k)
  /\ k.session.op = "acquire" => k.session.doc \in Docs
  /\ k.active # NoDoc => k.session.op = "none"
  /\ k.active # NoDoc \/ IsGranted(k) => ~Releases(k.wire)

Pending(k) ==
  \E i \in DOMAIN k.wire : k.wire[i] = [op |-> "heartbeat", doc |-> k.active, to |-> "beat"]

\* The age of the lock of a desktop with a claim: the last heartbeat was handled,
\* or skipped and the next will not be, or it is on its way.
Timely(k, age) ==
  \/ age + k.beatIn <= Beat
  \/ age + k.beatIn <= 2 * Beat /\ k.beatIn < k.healthIn /\ (k.state = "checking" => k.beatIn > 0)
  \/ age <= 2 * Beat /\ k.beatIn = Beat /\ Pending(k)

Owned(c, d, table) == table[d] # Free /\ table[d].owner = OwnerOf[c]

\* What is known of desktop c in the state k when the lock table is table.
Kept(c, k, table) ==
  /\ Calm(k)
  /\ IsGranted(k) => Owned(c, k.session.doc, table) /\ table[k.session.doc].age = 0
  /\ k.active # NoDoc => Owned(c, k.active, table) /\ Timely(k, table[k.active].age)

HoldInv == \A c \in Clients : up[c] /\ Kept(c, desk[c], locks)

\* How a handler without a heartbeat changes a desktop: there is no claim
\* afterwards, or the one there was and nothing is sent.
After(j, k) ==
  /\ j \in Desk /\ j.state = k.state /\ j.healthIn = k.healthIn
  /\ Fits(j) /\ (j.session.op = "acquire" => j.session.doc \in Docs)
  /\ \/ j.active = NoDoc /\ j.beatIn = Stopped /\ ~IsGranted(j)
     \/ /\ j.active = k.active /\ j.beatIn = k.beatIn /\ j.wire = k.wire
        /\ j.session.op = k.session.op /\ j.session.doc = k.session.doc
        /\ j.session.reply = k.session.reply

LEMMA AfterLemma ==
  ASSUME NEW c \in Clients, NEW k \in Desk, NEW j, NEW table,
         Kept(c, k, table), After(j, k), k.state # "crashed"
  PROVE  Kept(c, j, table)
<1>1. Calm(j)
  BY DEF Kept, Calm, After, IsGranted
<1>2. IsGranted(j) => Owned(c, j.session.doc, table) /\ table[j.session.doc].age = 0
  BY DEF Kept, After, IsGranted
<1>3. j.active # NoDoc => Owned(c, j.active, table) /\ Timely(j, table[j.active].age)
  BY DEF Kept, After, Timely, Pending
<1> QED BY <1>1, <1>2, <1>3 DEF Kept

LEMMA DeskKeeps ==
  ASSUME IInv, HoldInv, NEW c \in Clients, NEW j, Becomes(c, j), up' = up,
         Kept(c, j, locks'), \A e \in Clients \ {c} : Kept(e, desk[e], locks')
  PROVE  HoldInv'
<1>1. desk' = [desk EXCEPT ![c] = j] /\ desk \in [Clients -> Desk]
  BY DEF Becomes, IInv, DeskInv
<1>2. \A e \in Clients : Kept(e, desk'[e], locks')
  BY <1>1
<1> QED BY <1>2 DEF HoldInv

LEMMA AfterKeeps ==
  ASSUME IInv, HoldInv, NEW c \in Clients, NEW j, Becomes(c, j), up' = up, locks' = locks,
         After(j, desk[c]), desk[c].state # "crashed"
  PROVE  HoldInv'
<1>1. \A e \in Clients : desk[e] \in Desk /\ Kept(e, desk[e], locks)
  BY DEF IInv, DeskInv, HoldInv
<1>2. Kept(c, j, locks)
  BY <1>1, AfterLemma
<1> QED BY <1>1, <1>2, DeskKeeps

-----------------------------------------------------------------------------
(* What is on the wire after each piece of BackendClient.                    *)

LEMMA UnattachedWire ==
  ASSUME NEW k \in Desk, NEW slot \in {"session", "beat"}
  PROVE  LET j == Unattached(k, slot)
         IN  /\ j.healthIn = k.healthIn
             /\ DOMAIN j.wire = DOMAIN k.wire
             /\ \A i \in DOMAIN k.wire :
                  /\ j.wire[i].op = k.wire[i].op /\ j.wire[i].doc = k.wire[i].doc
                  /\ j.wire[i].to = IF k.wire[i].to = slot THEN "nobody" ELSE k.wire[i].to
<1> DEFINE e(i) == IF k.wire[i].to = slot THEN [k.wire[i] EXCEPT !.to = "nobody"] ELSE k.wire[i]
           w == [i \in DOMAIN k.wire |-> e(i)]
<1>1. \A i \in DOMAIN k.wire : k.wire[i] \in Message
  BY DeskFields, ElementOfSeq, LenProperties
<1>2. \A i \in DOMAIN k.wire : /\ e(i).op = k.wire[i].op /\ e(i).doc = k.wire[i].doc
                               /\ e(i).to = IF k.wire[i].to = slot THEN "nobody" ELSE k.wire[i].to
  BY <1>1 DEF Message
<1>3. Unattached(k, slot) = [k EXCEPT !.wire = w]
  BY DEF Unattached, Desk
<1> HIDE DEF e
<1>4. Unattached(k, slot).wire = w /\ Unattached(k, slot).healthIn = k.healthIn
  BY <1>3 DEF Desk
<1> QED BY <1>2, <1>4

LEMMA AbortSessionWire ==
  ASSUME NEW k \in Desk
  PROVE  LET j == AbortSessionRequest(k)
         IN  /\ j.healthIn = k.healthIn
             /\ \A i \in DOMAIN j.wire : j.wire[i].to # "session"
<1> DEFINE u == Unattached(k, "session")
<1>1. u \in Desk
  BY UnattachedLemma
<1>2. /\ u.healthIn = k.healthIn
      /\ \A i \in DOMAIN u.wire : u.wire[i].to # "session"
  BY UnattachedWire
<1>3. AbortSessionRequest(k) = [u EXCEPT !.session = NoRequest]
  BY DEF AbortSessionRequest
<1> HIDE DEF u
<1> QED BY <1>1, <1>2, <1>3 DEF Desk

LEMMA SendWire ==
  ASSUME NEW k \in Desk, NEW r \in SessionRequest,
         r.op \in {"acquire", "release"}, r.doc \in Docs, r.reply = "waiting"
  PROVE  LET j == SendSessionRequest(k, r)
         IN  j.healthIn = k.healthIn /\ Fits(j)
<1> DEFINE a == AbortSessionRequest(k)
           m == [op |-> r.op, doc |-> r.doc, to |-> "session"]
           j == SendSessionRequest(k, r)
<1>1. a \in Desk
  BY AbortSessionLemma
<1>2. a.healthIn = k.healthIn /\ \A i \in DOMAIN a.wire : a.wire[i].to # "session"
  BY AbortSessionWire
<1>3. j = [a EXCEPT !.session = r, !.wire = Append(@, m)]
  BY DEF SendSessionRequest
<1>4. a.wire \in Seq(Message) /\ m \in Message
  BY <1>1, DeskFields DEF Message
<1>5. m.op = r.op /\ m.doc = r.doc
  OBVIOUS
<1> HIDE DEF a, m, j
<1>6. j.healthIn = k.healthIn /\ j.session = r /\ j.wire = Append(a.wire, m)
  BY <1>1, <1>2, <1>3 DEF Desk
<1>7. /\ Len(a.wire) \in Nat /\ DOMAIN a.wire = 1 .. Len(a.wire)
      /\ DOMAIN j.wire = 1 .. (Len(a.wire) + 1)
      /\ \A i \in 1 .. Len(a.wire) : j.wire[i] = a.wire[i]
      /\ j.wire[Len(a.wire) + 1] = m
  BY <1>4, <1>6, AppendProperties, LenProperties
<1>8. Fits(j)
  <2> SUFFICES ASSUME NEW i \in DOMAIN j.wire, j.wire[i].to = "session"
               PROVE  /\ j.session.op = j.wire[i].op /\ j.session.doc = j.wire[i].doc
                      /\ j.session.reply = "waiting"
                      /\ \A n \in DOMAIN j.wire : n > i => j.wire[n].op = "heartbeat"
    BY DEF Fits
  <2>1. i = Len(a.wire) + 1
    BY <1>2, <1>7
  <2> QED BY <1>5, <1>6, <1>7, <2>1
<1> QED BY <1>6, <1>8 DEF j

LEMMA AcquireWire ==
  ASSUME NEW k \in Desk, NEW d \in Docs, NEW fresh \in BOOLEAN
  PROVE  LET j == AcquireDocumentLock(k, d, fresh)
         IN  j.healthIn = k.healthIn /\ Fits(j) /\ j.session.reply = "waiting"
<1> DEFINE r == [op |-> "acquire", doc |-> d, fresh |-> fresh, then |-> "nothing",
                 target |-> NoDoc, reply |-> "waiting"]
<1>1. r \in SessionRequest /\ r.op = "acquire" /\ r.doc = d /\ r.reply = "waiting"
  BY DEF SessionRequest, MaybeDoc
<1>2. AcquireDocumentLock(k, d, fresh) = SendSessionRequest(k, r)
  BY DEF AcquireDocumentLock
<1> HIDE DEF r
<1> QED BY <1>1, <1>2, SendLemma, SendWire

LEMMA ReleaseWire ==
  ASSUME NEW k \in Desk, NEW d \in Docs, NEW target \in MaybeDoc,
         NEW then \in {"nothing", "view"}
  PROVE  LET j == ReleaseDocumentLock(k, d, then, target)
         IN  j.healthIn = k.healthIn /\ Fits(j) /\ j.session.op # "acquire"
<1>1. CASE k.state = "reachable"
  <2> DEFINE r == [op |-> "release", doc |-> d, fresh |-> TRUE, then |-> then,
                   target |-> target, reply |-> "waiting"]
  <2>1. r \in SessionRequest /\ r.op = "release" /\ r.doc = d /\ r.reply = "waiting"
    BY DEF SessionRequest, MaybeDoc
  <2>2. ReleaseDocumentLock(k, d, then, target) = SendSessionRequest(k, r)
    BY <1>1 DEF ReleaseDocumentLock
  <2> HIDE DEF r
  <2> QED BY <2>1, <2>2, SendLemma, SendWire
<1>2. CASE k.state # "reachable"
  <2> DEFINE a == AbortSessionRequest(k)
             v == [a EXCEPT !.access = "view"]
  <2>1. a \in Desk /\ a.session = NoRequest
    BY AbortSessionLemma
  <2>2. a.healthIn = k.healthIn /\ \A i \in DOMAIN a.wire : a.wire[i].to # "session"
    BY AbortSessionWire
  <2>3. ReleaseDocumentLock(k, d, then, target) \in {a, v}
    BY <1>2 DEF ReleaseDocumentLock, Continue
  <2> HIDE DEF a
  <2>4. v.healthIn = a.healthIn /\ v.wire = a.wire /\ v.session = a.session
    BY <2>1 DEF Desk
  <2> HIDE DEF v
  <2> QED BY <2>1, <2>2, <2>3, <2>4 DEF Fits, NoRequest
<1> QED BY <1>1, <1>2

\* The functions that keep the wire.
LEMMA OutdateWire ==
  ASSUME NEW k \in Desk
  PROVE  LET j == NextRequestId(k)
         IN  /\ j.healthIn = k.healthIn /\ j.wire = k.wire
             /\ j.session.doc = k.session.doc /\ j.session.reply = k.session.reply
<1>1. k.session \in SessionRequest
  BY DEF Desk
<1> DEFINE r == [k.session EXCEPT !.fresh = FALSE]
<1>2. r.doc = k.session.doc /\ r.reply = k.session.reply
  BY <1>1 DEF SessionRequest
<1>3. NextRequestId(k) = [k EXCEPT !.session = r]
  BY DEF NextRequestId, Desk
<1> HIDE DEF r
<1> QED BY <1>2, <1>3 DEF Desk

LEMMA StopWire ==
  ASSUME NEW k \in Desk
  PROVE  LET j == StopHeartbeat(k)
         IN  j.healthIn = k.healthIn /\ j.wire = k.wire /\ j.beatIn = Stopped
<1>1. Stopped \in 0 .. Stopped
  BY EditSessionAssumption DEF Stopped
<1> QED BY <1>1 DEF StopHeartbeat, Desk

LEMMA CloseWire ==
  ASSUME NEW k \in Desk
  PROVE  LET j == CloseDocumentSession(k)
         IN  /\ j.healthIn = k.healthIn /\ j.beatIn = Stopped
             /\ Fits(j) /\ j.session.op # "acquire"
<1> DEFINE n == NextRequestId(k)
           h == StopHeartbeat(n)
           s == AbortSessionRequest(h)
           idle == AbortHeartbeatRequest(s)
           gone == [idle EXCEPT !.active = NoDoc]
<1>1. n \in Desk /\ n.healthIn = k.healthIn
  BY OutdateLemma, OutdateWire
<1> HIDE DEF n
<1>2. h \in Desk /\ h.healthIn = k.healthIn /\ h.beatIn = Stopped
  BY <1>1, StopLemma, StopWire
<1> HIDE DEF h
<1>3. s \in Desk /\ s.session = NoRequest /\ s.beatIn = Stopped
  BY <1>2, AbortSessionLemma DEF SamePage
<1>4. s.healthIn = k.healthIn /\ \A i \in DOMAIN s.wire : s.wire[i].to # "session"
  BY <1>2, AbortSessionWire
<1>5. CloseDocumentSession(k) =
        IF k.active = NoDoc THEN idle ELSE ReleaseDocumentLock(gone, k.active, "nothing", NoDoc)
  BY DEF CloseDocumentSession, idle, s, h, n
<1> HIDE DEF s
<1>6. idle \in Desk /\ idle.session = NoRequest /\ idle.beatIn = Stopped
  BY <1>3, AbortHeartbeatLemma DEF SamePage
<1>7. idle.healthIn = k.healthIn /\ Fits(idle)
  <2> DEFINE u == Unattached(s, "beat")
  <2>1. /\ u \in Desk /\ u.healthIn = s.healthIn
        /\ \A i \in DOMAIN u.wire : u.wire[i].to # "session"
    BY <1>3, <1>4, UnattachedLemma, UnattachedWire
  <2>2. idle = [u EXCEPT !.beat = NoHeartbeat]
    BY DEF AbortHeartbeatRequest
  <2> HIDE DEF u
  <2>3. idle.healthIn = u.healthIn /\ idle.wire = u.wire
    BY <2>1, <2>2 DEF Desk
  <2> QED BY <1>4, <2>1, <2>3 DEF Fits
<1> HIDE DEF idle
<1>8. CASE k.active = NoDoc
  BY <1>5, <1>6, <1>7, <1>8 DEF NoRequest
<1>9. CASE k.active # NoDoc
  <2>1. k.active \in Docs /\ NoDoc \in MaybeDoc
    BY <1>9 DEF Desk, MaybeDoc
  <2>2. gone \in Desk /\ gone.beatIn = Stopped /\ gone.healthIn = k.healthIn
    BY <1>6, <1>7 DEF Desk, MaybeDoc
  <2> HIDE DEF gone
  <2> QED BY <1>5, <1>9, <2>1, <2>2, ReleaseLemma, ReleaseWire
<1> QED BY <1>8, <1>9

-----------------------------------------------------------------------------
(* The entry points of BackendClient, for a desktop of the invariant.        *)

LEMMA LocalAfter ==
  ASSUME NEW k \in Desk
  PROVE  After(LocalEditing(k), k)
<1> DEFINE j == CloseDocumentSession(k)
           l == [j EXCEPT !.access = "local"]
<1>1. j \in Desk /\ j.active = NoDoc /\ j.state = k.state
  BY CloseLemma
<1>2. j.healthIn = k.healthIn /\ j.beatIn = Stopped /\ Fits(j) /\ j.session.op # "acquire"
  BY CloseWire
<1>3. LocalEditing(k) = l
  BY DEF LocalEditing
<1> HIDE DEF j
<1>4. /\ l \in Desk /\ l.active = NoDoc /\ l.state = k.state /\ l.healthIn = k.healthIn
      /\ l.beatIn = Stopped /\ l.session = j.session /\ l.wire = j.wire
  BY <1>1, <1>2 DEF Desk
<1> HIDE DEF l
<1> QED BY <1>2, <1>3, <1>4 DEF After, Fits, IsGranted

LEMMA GiveUpAfter ==
  ASSUME NEW k \in Desk, k.active # NoDoc
  PROVE  After(ReleaseDocumentLock([StopHeartbeat(NextRequestId(k)) EXCEPT !.active = NoDoc],
                                   k.active, "view", k.selected), k)
<1> DEFINE n == NextRequestId(k)
           h == StopHeartbeat(n)
           g == [h EXCEPT !.active = NoDoc]
           j == ReleaseDocumentLock(g, k.active, "view", k.selected)
<1>1. n \in Desk /\ n.state = k.state /\ n.healthIn = k.healthIn
  BY OutdateLemma, OutdateWire
<1> HIDE DEF n
<1>2. h \in Desk /\ h.state = k.state /\ h.healthIn = k.healthIn /\ h.beatIn = Stopped
  BY <1>1, StopLemma, StopWire
<1> HIDE DEF h
<1>3. /\ g \in Desk /\ g.active = NoDoc /\ g.state = k.state /\ g.healthIn = k.healthIn
      /\ g.beatIn = Stopped
  BY <1>2 DEF Desk, MaybeDoc
<1> HIDE DEF g
<1>4. k.active \in Docs /\ k.selected \in MaybeDoc
  BY DEF Desk, MaybeDoc
<1>5. j \in Desk /\ j.active = NoDoc /\ j.state = k.state /\ j.beatIn = Stopped
  BY <1>3, <1>4, ReleaseLemma
<1>6. j.healthIn = k.healthIn /\ Fits(j) /\ j.session.op # "acquire"
  BY <1>3, <1>4, ReleaseWire
<1> HIDE DEF j
<1>7. After(j, k)
  BY <1>5, <1>6 DEF After, IsGranted
<1> QED BY <1>7 DEF j, g, h, n

\* A request is outdated and the access changes.
LEMMA OutdateAfter ==
  ASSUME NEW k \in Desk, Calm(k), NEW a \in {"view", "edit"}
  PROVE  After([NextRequestId(k) EXCEPT !.access = a], k)
<1> DEFINE n == NextRequestId(k)
           v == [n EXCEPT !.access = a]
<1>1. n \in Desk /\ SamePage(n, k) /\ n.state = k.state /\ n.session.op = k.session.op
  BY OutdateLemma
<1>2. /\ n.healthIn = k.healthIn /\ n.wire = k.wire
      /\ n.session.doc = k.session.doc /\ n.session.reply = k.session.reply
  BY OutdateWire
<1> HIDE DEF n
<1>3. /\ v \in Desk /\ v.active = k.active /\ v.beatIn = k.beatIn /\ v.state = k.state
      /\ v.healthIn = k.healthIn /\ v.wire = k.wire /\ v.session = n.session
  BY <1>1, <1>2 DEF Desk, SamePage
<1> HIDE DEF v
<1>4. After(v, k)
  BY <1>1, <1>2, <1>3 DEF After, Calm, Fits
<1> QED BY <1>4 DEF v, n

LEMMA OpenAfter ==
  ASSUME NEW k \in Desk, Calm(k)
  PROVE  After(OpenDocumentViewSession(k), k)
<1>1. CASE k.state # "reachable"
  BY <1>1, LocalAfter DEF OpenDocumentViewSession
<1>2. CASE k.state = "reachable" /\ k.active # NoDoc
  BY <1>2, GiveUpAfter DEF OpenDocumentViewSession
<1>3. CASE k.state = "reachable" /\ k.active = NoDoc
  BY <1>3, OutdateAfter DEF OpenDocumentViewSession
<1> QED BY <1>1, <1>2, <1>3

LEMMA ExitAfter ==
  ASSUME NEW k \in Desk, Calm(k), k.selected # NoDoc
  PROVE  After(ExitDocumentEditSession(k), k)
<1>1. CASE k.active = k.selected
  BY <1>1, GiveUpAfter DEF ExitDocumentEditSession
<1>2. CASE k.active # k.selected
  BY <1>2, OutdateAfter DEF ExitDocumentEditSession
<1> QED BY <1>1, <1>2

LEMMA EnterAfter ==
  ASSUME NEW k, Good(k), Calm(k), k.selected # NoDoc
  PROVE  After(EnterDocumentEditSession(k), k)
<1> DEFINE n == NextRequestId(k)
<1>1. k \in Desk /\ k.selected \in Docs /\ k.active \in {NoDoc, k.selected}
  BY DEF Good, Desk, MaybeDoc, Shown
<1>2. CASE k.state # "reachable"
  BY <1>1, <1>2, LocalAfter DEF EnterDocumentEditSession
<1>3. CASE k.state = "reachable" /\ k.active = k.selected /\ k.beatIn # Stopped
  BY <1>1, <1>3, OutdateAfter DEF EnterDocumentEditSession
<1>4. CASE k.state = "reachable" /\ ~(k.active = k.selected /\ k.beatIn # Stopped)
  <2> DEFINE a == AcquireDocumentLock(n, k.selected, TRUE)
  <2>1. EnterDocumentEditSession(k) = a
    BY <1>1, <1>4 DEF EnterDocumentEditSession
  <2>2. k.active = NoDoc /\ k.beatIn = Stopped
    BY <1>1, <1>4 DEF Calm
  <2>3. n \in Desk /\ SamePage(n, k) /\ n.state = k.state /\ n.healthIn = k.healthIn
    BY <1>1, OutdateLemma, OutdateWire
  <2> HIDE DEF n
  <2>4. /\ a \in Desk /\ SamePage(a, n) /\ a.state = n.state /\ a.session.doc = k.selected
    BY <1>1, <2>3, AcquireLemma
  <2>5. a.healthIn = n.healthIn /\ Fits(a) /\ a.session.reply = "waiting"
    BY <1>1, <2>3, AcquireWire
  <2> HIDE DEF a
  <2> QED BY <1>1, <2>1, <2>2, <2>3, <2>4, <2>5 DEF After, IsGranted, SamePage
<1> QED BY <1>2, <1>3, <1>4

-----------------------------------------------------------------------------
(* The steps of a desktop.                                                   *)

LEMMA UserAfter ==
  ASSUME IInv, HoldInv, Steady, NEW c \in Clients, UserStep(c)
  PROVE  /\ up' = up /\ locks' = locks /\ desk[c].state # "crashed"
         /\ \E j : Becomes(c, j) /\ After(j, desk[c])
<1> DEFINE k == desk[c]
<1>1. k \in Desk /\ Good(k) /\ Calm(k)
  BY DEF IInv, DeskInv, HoldInv, Kept
<1>2. up' = up /\ locks' = locks /\ k.state # "crashed"
  BY DEF UserStep, SelectDocument, ActivateWorkspace, EnterEditMode, ExitEditMode,
         RefreshSelectedDocumentAccess, CheckBackendNow, Alive
<1>3. \E j : Becomes(c, j) /\ After(j, k)
  <2>1. ASSUME NEW d \in Docs, SelectDocument(c, d) PROVE \E j : Becomes(c, j) /\ After(j, k)
    <3> DEFINE s == [k EXCEPT !.selected = d]
    <3>1. /\ s \in Desk /\ s.state = k.state /\ s.healthIn = k.healthIn /\ s.active = k.active
          /\ s.beatIn = k.beatIn /\ s.wire = k.wire /\ s.session = k.session
      BY <1>1 DEF Desk, MaybeDoc
    <3>2. Becomes(c, OpenDocumentViewSession(s))
      BY <2>1 DEF SelectDocument
    <3> HIDE DEF s, k
    <3>3. Calm(s)
      BY <1>1, <3>1 DEF Calm, Fits, IsGranted
    <3>4. After(OpenDocumentViewSession(s), s)
      BY <3>1, <3>3, OpenAfter
    <3>5. After(OpenDocumentViewSession(s), k)
      BY <3>1, <3>4 DEF After
    <3> QED BY <3>2, <3>5
  <2>2. CASE ActivateWorkspace(c)
    <3> DEFINE s == [k EXCEPT !.selected = NoDoc, !.access = "view"]
    <3>1. /\ s \in Desk /\ s.state = k.state /\ s.healthIn = k.healthIn /\ s.active = k.active
          /\ s.beatIn = k.beatIn /\ s.wire = k.wire /\ s.session = k.session
      BY <1>1 DEF Desk, MaybeDoc
    <3>2. Becomes(c, s)
      BY <2>2 DEF ActivateWorkspace
    <3> HIDE DEF s, k
    <3>3. After(s, k)
      BY <1>1, <3>1 DEF After, Calm, Fits
    <3> QED BY <3>2, <3>3
  <2>3. CASE EnterEditMode(c)
    BY <1>1, <2>3, EnterAfter DEF EnterEditMode
  <2>4. CASE ExitEditMode(c)
    BY <1>1, <2>4, ExitAfter DEF ExitEditMode
  <2>5. CASE RefreshSelectedDocumentAccess(c)
    <3>1. After(k, k)
      BY <1>1 DEF After, Calm
    <3>2. After(PageRefresh(k), k)
      BY <1>1, <3>1, OpenAfter DEF PageRefresh
    <3> QED BY <2>5, <3>2 DEF RefreshSelectedDocumentAccess
  <2>6. ~CheckBackendNow(c)
    BY DEF CheckBackendNow, Steady
  <2> QED BY <2>1, <2>2, <2>3, <2>4, <2>5, <2>6 DEF UserStep
<1> QED BY <1>2, <1>3

LEMMA UserKeeps ==
  ASSUME IInv, HoldInv, Steady, NEW c \in Clients, UserStep(c)
  PROVE  HoldInv'
  BY UserAfter, AfterKeeps

\* A request about to be sent has no listener that is about a claim.
LEMMA NoneAwaited ==
  ASSUME NEW k \in Desk, Calm(k), k.session.op = "none" \/ k.session.reply # "waiting"
  PROVE  \A i \in DOMAIN k.wire : k.wire[i].to # "session"
<1>1. \A i \in DOMAIN k.wire : k.wire[i] \in Message
  BY DeskFields, ElementOfSeq, LenProperties
<1> QED BY <1>1 DEF Calm, Fits, Message

LEMMA HeartbeatTimerKeeps ==
  ASSUME IInv, HoldInv, Steady, NEW c \in Clients, HeartbeatTimer(c)
  PROVE  HoldInv'
<1> DEFINE o == desk[c]
           age == locks[o.active].age
           k == [o EXCEPT !.beatIn = Beat]
           u == Unattached(k, "beat")
           a == AbortHeartbeatRequest(k)
           m == [op |-> "heartbeat", doc |-> k.active, to |-> "beat"]
           s == [a EXCEPT !.beat = [doc |-> k.active, reply |-> "waiting"], !.wire = Append(@, m)]
<1>1. o \in Desk /\ Kept(c, o, locks) /\ Calm(o) /\ o.state \in {"checking", "reachable"}
  BY DEF IInv, DeskInv, HoldInv, Kept, Calm, HeartbeatTimer, Alive, Desk
<1>2. Beat \in Nat /\ 0 < Beat /\ Beat \in 0 .. Stopped /\ Beat # Stopped /\ 0 # Stopped
      /\ Health \in Nat /\ Beat < Health
  BY EditSessionAssumption DEF Stopped, Steady
<1>3. o.beatIn = 0 /\ o.active \in Docs /\ o.active # NoDoc
  BY <1>1, <1>2 DEF HeartbeatTimer, Calm, Desk, MaybeDoc
<1>4. Owned(c, o.active, locks) /\ Timely(o, age)
  BY <1>1, <1>3 DEF Kept
<1>5. age \in Nat
  <2>1. locks[o.active] \in LockInfo
    BY <1>3, <1>4 DEF Owned, IInv, LocksTypeOK
  <2> QED BY <2>1, LockServiceAssumption DEF LockInfo
<1>6. age <= 2 * Beat /\ (o.state = "checking" => age <= Beat)
  BY <1>2, <1>3, <1>4, <1>5 DEF Timely
<1>7. /\ k \in Desk /\ k.active = o.active /\ k.state = o.state /\ k.healthIn = o.healthIn
      /\ k.session = o.session /\ k.wire = o.wire /\ k.beatIn = Beat
  BY <1>1, <1>2 DEF Desk
<1>8. o.session.op = "none" /\ ~Releases(o.wire) /\ \A i \in DOMAIN o.wire : o.wire[i].to # "session"
  BY <1>1, <1>3, NoneAwaited DEF Calm
<1>9. locks' = locks /\ up' = up /\ \A e \in Clients : Kept(e, desk[e], locks')
  BY DEF HeartbeatTimer, HoldInv
<1>10. Becomes(c, IF k.active = NoDoc \/ k.state # "reachable" THEN k ELSE s)
  BY DEF HeartbeatTimer
<1>11. CASE o.state = "checking"
  <2>1. Becomes(c, k)
    BY <1>7, <1>10, <1>11
  <2> HIDE DEF k
  <2>2. k.healthIn = Health
    BY <1>1, <1>7, <1>11 DEF Calm
  <2> HIDE DEF age, o
  <2>3. Timely(k, age)
    BY <1>2, <1>5, <1>6, <1>7, <1>11, <2>2 DEF Timely
  <2>4. Calm(k)
    BY <1>1, <1>2, <1>3, <1>7 DEF Calm, Fits, IsGranted
  <2>5. Kept(c, k, locks)
    BY <1>3, <1>4, <1>7, <1>8, <2>3, <2>4 DEF Kept, IsGranted, age
  <2> QED BY <1>9, <2>1, <2>5, DeskKeeps
<1>12. CASE o.state = "reachable"
  <2>1. Becomes(c, s)
    BY <1>3, <1>7, <1>10, <1>12
  <2>2. m \in Message
    BY <1>3, <1>7 DEF Message
  <2>3. u \in Desk /\ SamePage(u, k) /\ u.session = k.session /\ u.state = k.state
    BY <1>7, UnattachedLemma
  <2>4. /\ u.healthIn = k.healthIn /\ DOMAIN u.wire = DOMAIN k.wire
        /\ \A i \in DOMAIN u.wire : u.wire[i].op = k.wire[i].op
        /\ \A i \in DOMAIN u.wire : u.wire[i].to = "session" => k.wire[i].to = "session"
    BY <1>7, UnattachedWire
  <2>5. a = [u EXCEPT !.beat = NoHeartbeat]
    BY DEF AbortHeartbeatRequest
  <2>6. a \in Desk /\ SamePage(a, k) /\ a.session = k.session /\ a.state = k.state
    BY <1>7, AbortHeartbeatLemma
  <2>11. m.op = "heartbeat" /\ m.to = "beat" /\ m = [op |-> "heartbeat", doc |-> k.active, to |-> "beat"]
    OBVIOUS
  <2> HIDE DEF k, u, m
  <2>7. a.healthIn = u.healthIn /\ a.wire = u.wire
    BY <2>3, <2>5 DEF Desk
  <2> HIDE DEF a
  <2>8. /\ s.active = k.active /\ s.beatIn = Beat /\ s.state = k.state /\ s.healthIn = k.healthIn
        /\ s.session = k.session /\ s.wire = Append(u.wire, m)
    BY <1>7, <2>3, <2>4, <2>6, <2>7 DEF Desk, SamePage
  <2> HIDE DEF s
  <2>9. /\ Len(u.wire) \in Nat /\ DOMAIN u.wire = 1 .. Len(u.wire)
        /\ DOMAIN s.wire = 1 .. (Len(u.wire) + 1)
        /\ \A i \in DOMAIN u.wire : s.wire[i] = u.wire[i]
        /\ s.wire[Len(u.wire) + 1] = m
    BY <2>2, <2>3, <2>8, DeskFields, AppendProperties, LenProperties
  <2>10. \A i \in DOMAIN s.wire : i \in DOMAIN u.wire \/ s.wire[i] = m
    BY <2>9
  <2>12. ~Releases(s.wire) /\ \A i \in DOMAIN s.wire : s.wire[i].to # "session"
    <3>1. \A i \in DOMAIN o.wire : o.wire[i].op # "release" /\ o.wire[i].to # "session"
      BY <1>8 DEF Releases
    <3>2. k.wire = o.wire
      BY <1>7
    <3> HIDE DEF o
    <3>3. \A i \in DOMAIN u.wire : u.wire[i].op # "release" /\ u.wire[i].to # "session"
      BY <2>4, <3>1, <3>2
    <3>4. \A i \in DOMAIN s.wire : s.wire[i].op # "release" /\ s.wire[i].to # "session"
      BY <2>9, <2>10, <2>11, <3>3
    <3> QED BY <3>4 DEF Releases
  <2>13. Pending(s)
    BY <2>8, <2>9, <2>11 DEF Pending
  <2> HIDE DEF age, o
  <2>14. Timely(s, age)
    BY <1>6, <2>8, <2>13 DEF Timely
  <2>15. Calm(s)
    BY <1>1, <1>2, <1>3, <1>7, <1>8, <2>8, <2>12 DEF Calm, Fits, IsGranted
  <2>16. Kept(c, s, locks)
    BY <1>3, <1>4, <1>7, <1>8, <2>8, <2>14, <2>15 DEF Kept, IsGranted, age
  <2> QED BY <1>9, <2>1, <2>16, DeskKeeps
<1> QED BY <1>1, <1>11, <1>12

LEMMA HeartbeatAnsweredKeeps ==
  ASSUME IInv, HoldInv, NEW c \in Clients, HeartbeatAnswered(c)
  PROVE  HoldInv'
<1> DEFINE o == desk[c]
           d == o.beat.doc
           k == [o EXCEPT !.beat = NoHeartbeat]
           h == StopHeartbeat(k)
           s == [h EXCEPT !.active = NoDoc, !.access = IF k.selected = d THEN "view" ELSE @]
<1>1. o \in Desk /\ Calm(o) /\ o.state # "crashed" /\ up' = up /\ locks' = locks
  BY DEF IInv, DeskInv, HoldInv, Kept, HeartbeatAnswered, Alive
<1>2. /\ k \in Desk /\ k.active = o.active /\ k.state = o.state /\ k.healthIn = o.healthIn
      /\ k.session = o.session /\ k.wire = o.wire /\ k.beatIn = o.beatIn
  BY <1>1 DEF Desk, NoHeartbeat, MaybeDoc
<1>3. Becomes(c, k) \/ Becomes(c, LockLost(k, d))
  BY DEF HeartbeatAnswered
<1>4. LockLost(k, d) = s
  BY DEF LockLost
<1> HIDE DEF k, d, o
<1>5. /\ h \in Desk /\ h.state = k.state /\ h.session = k.session /\ h.healthIn = k.healthIn
      /\ h.wire = k.wire /\ h.beatIn = Stopped
  BY <1>2, StopLemma, StopWire
<1> HIDE DEF h
<1>6. /\ s \in Desk /\ s.active = NoDoc /\ s.state = k.state /\ s.healthIn = k.healthIn
      /\ s.session = k.session /\ s.wire = k.wire /\ s.beatIn = Stopped
  BY <1>5 DEF Desk, MaybeDoc
<1> HIDE DEF s
<1>7. After(k, o)
  BY <1>1, <1>2 DEF After, Calm, Fits
<1>8. After(s, o)
  BY <1>1, <1>2, <1>6 DEF After, Calm, Fits, IsGranted
<1> QED BY <1>1, <1>3, <1>4, <1>7, <1>8, AfterKeeps DEF o

\* An answer to the request of session_reply_ after which there is no claim.
LEMMA AnsweredAfter ==
  ASSUME NEW o \in Desk, Calm(o), o.session.op # "none", o.session.reply # "waiting",
         NEW k, k = [o EXCEPT !.session = NoRequest]
  PROVE  /\ k \in Desk /\ k.active = NoDoc /\ k.beatIn = Stopped /\ k.session = NoRequest
         /\ k.wire = o.wire /\ k.state = o.state /\ k.healthIn = o.healthIn
         /\ After(k, o)
         /\ After([k EXCEPT !.access = "view"], o)
         /\ After(LocalEditing(k), o)
<1> DEFINE v == [k EXCEPT !.access = "view"]
<1>1. NoRequest \in SessionRequest /\ NoRequest.op = "none"
  BY DEF NoRequest, SessionRequest, MaybeDoc
<1>2. o.active = NoDoc /\ o.beatIn = Stopped
  BY DEF Calm
<1>3. /\ k \in Desk /\ k.active = NoDoc /\ k.beatIn = Stopped /\ k.session = NoRequest
      /\ k.wire = o.wire /\ k.state = o.state /\ k.healthIn = o.healthIn
  BY <1>1, <1>2 DEF Desk
<1>4. /\ v \in Desk /\ v.active = NoDoc /\ v.beatIn = Stopped /\ v.session = NoRequest
      /\ v.wire = o.wire /\ v.state = o.state /\ v.healthIn = o.healthIn
  BY <1>3 DEF Desk
<1> HIDE DEF v
<1>5. \A i \in DOMAIN o.wire : o.wire[i].to # "session"
  BY NoneAwaited
<1>6. After(k, o)
  BY <1>1, <1>3, <1>5 DEF After, Fits, IsGranted
<1>7. After(v, o)
  BY <1>1, <1>4, <1>5 DEF After, Fits, IsGranted
<1>8. After(LocalEditing(k), k)
  BY <1>3, LocalAfter
<1>9. After(LocalEditing(k), o)
  BY <1>1, <1>3, <1>8 DEF After, IsGranted
<1> QED BY <1>3, <1>6, <1>7, <1>9 DEF v

LEMMA ReleaseAnsweredKeeps ==
  ASSUME IInv, HoldInv, NEW c \in Clients, ReleaseAnswered(c)
  PROVE  HoldInv'
<1> DEFINE r == desk[c].session
           k == [desk[c] EXCEPT !.session = NoRequest]
<1>1. desk[c] \in Desk /\ Calm(desk[c]) /\ desk[c].state # "crashed" /\ up' = up /\ locks' = locks
  BY DEF IInv, DeskInv, HoldInv, Kept, ReleaseAnswered, Alive
<1>2. r \in SessionRequest /\ r.op = "release" /\ r.reply # "waiting" /\ r.then # "acquire"
  BY <1>1 DEF ReleaseAnswered, Desk, IInv, DeskInv, Good, Unchained
<1>3. Becomes(c, Continue(k, r.fresh, r.then, r.target))
  BY DEF ReleaseAnswered
<1>4. k = [desk[c] EXCEPT !.session = NoRequest]
  OBVIOUS
<1> HIDE DEF k
<1>5. After(k, desk[c]) /\ After([k EXCEPT !.access = "view"], desk[c])
  BY <1>1, <1>2, <1>4, AnsweredAfter
<1>6. Continue(k, r.fresh, r.then, r.target) \in {k, [k EXCEPT !.access = "view"]}
  BY <1>2 DEF Continue, SessionRequest
<1> QED BY <1>1, <1>3, <1>5, <1>6, AfterKeeps

LEMMA AcquireAnsweredKeeps ==
  ASSUME IInv, HoldInv, NEW c \in Clients, AcquireAnswered(c)
  PROVE  HoldInv'
<1> DEFINE o == desk[c]
           r == o.session
           k == [o EXCEPT !.session = NoRequest]
           e == [k EXCEPT !.active = r.doc, !.access = "edit"]
           s == StartHeartbeat(e)
<1>1. /\ o \in Desk /\ Kept(c, o, locks) /\ Calm(o) /\ o.state # "crashed"
      /\ up' = up /\ locks' = locks
  BY DEF IInv, DeskInv, HoldInv, Kept, AcquireAnswered, Alive
<1>2. r \in SessionRequest /\ r.op = "acquire" /\ r.reply # "waiting"
  BY <1>1 DEF AcquireAnswered, Desk
<1>3. k = [o EXCEPT !.session = NoRequest]
  OBVIOUS
<1>4. \/ Becomes(c, k) \/ Becomes(c, LocalEditing(k)) \/ Becomes(c, [k EXCEPT !.access = "view"])
      \/ r.reply = "granted" /\ Becomes(c, s)
  BY <1>2 DEF AcquireAnswered
<1> HIDE DEF k
<1>5. /\ k \in Desk /\ k.active = NoDoc /\ k.beatIn = Stopped /\ k.session = NoRequest
      /\ k.wire = o.wire /\ k.state = o.state /\ k.healthIn = o.healthIn
      /\ After(k, o) /\ After([k EXCEPT !.access = "view"], o) /\ After(LocalEditing(k), o)
  BY <1>1, <1>2, <1>3, AnsweredAfter
<1>6. CASE r.reply = "granted" /\ Becomes(c, s)
  <2>1. IsGranted(o) /\ r.doc \in Docs /\ Owned(c, r.doc, locks) /\ locks[r.doc].age = 0
        /\ ~Releases(o.wire)
    BY <1>1, <1>2, <1>6 DEF IsGranted, Kept, Calm
  <2>2. \A i \in DOMAIN o.wire : o.wire[i].to # "session"
    BY <1>1, <1>2, NoneAwaited
  <2>3. Beat \in 0 .. Stopped /\ Beat # Stopped /\ Beat \in Nat
    BY EditSessionAssumption DEF Stopped
  <2>7. r.doc # NoDoc
    BY <2>1, EditSessionAssumption
  <2> HIDE DEF r
  <2>4. /\ e \in Desk /\ e.active = r.doc /\ e.beatIn = Stopped /\ e.session = NoRequest
        /\ e.wire = o.wire /\ e.state = o.state /\ e.healthIn = o.healthIn
    BY <1>5, <2>1 DEF Desk, MaybeDoc
  <2> HIDE DEF e
  <2>5. /\ s.active = r.doc /\ s.beatIn = Beat /\ s.session = NoRequest
        /\ s.wire = o.wire /\ s.state = o.state /\ s.healthIn = o.healthIn
    BY <2>3, <2>4 DEF Desk, StartHeartbeat
  <2> HIDE DEF s, o
  <2>6. Timely(s, locks[r.doc].age)
    BY <2>1, <2>3, <2>5 DEF Timely
  <2>8. Calm(s) /\ ~IsGranted(s)
    BY <1>1, <2>1, <2>2, <2>3, <2>5, <2>7 DEF Calm, Fits, IsGranted, NoRequest
  <2>9. Kept(c, s, locks)
    BY <2>1, <2>5, <2>6, <2>8 DEF Kept
  <2> QED BY <1>1, <1>6, <2>9, DeskKeeps DEF HoldInv
<1> QED BY <1>1, <1>5, <1>4, <1>6, AfterKeeps

LEMMA HealthKeeps ==
  ASSUME IInv, HoldInv, NEW c \in Clients, HealthTimer(c) \/ HealthAnswered(c)
  PROVE  HoldInv'
<1> DEFINE o == desk[c]
<1>1. o \in Desk /\ Kept(c, o, locks) /\ up[c]
  BY DEF IInv, DeskInv, HoldInv
<1>2. locks' = locks /\ up' = up
  BY DEF HealthTimer, HealthAnswered
<1>3. ASSUME NEW j, Becomes(c, j), Kept(c, j, locks) PROVE HoldInv'
  BY <1>2, <1>3, DeskKeeps DEF HoldInv
<1>4. CASE HealthTimer(c)
  <2> DEFINE j == [o EXCEPT !.state = "checking", !.healthIn = Health]
  <2>1. o.healthIn = 0 /\ o.state # "crashed" /\ Becomes(c, j)
    BY <1>4 DEF HealthTimer, Alive
  <2>2. /\ j.active = o.active /\ j.beatIn = o.beatIn /\ j.session = o.session /\ j.wire = o.wire
        /\ j.state = "checking" /\ j.healthIn = Health
    BY <1>1 DEF Desk
  <2>3. o.beatIn \in Nat
    BY <1>1, EditSessionAssumption DEF Desk, Stopped
  <2> HIDE DEF j, o
  <2>4. Calm(j)
    BY <1>1, <2>2 DEF Kept, Calm, Fits, IsGranted
  <2>5. Kept(c, j, locks)
    BY <1>1, <2>1, <2>2, <2>3, <2>4 DEF Kept, Timely, Pending, IsGranted
  <2> QED BY <1>3, <2>1, <2>5
<1>5. CASE HealthAnswered(c)
  <2> DEFINE j == [o EXCEPT !.state = "reachable"]
  <2>1. o.state = "checking" /\ Becomes(c, j)
    BY <1>1, <1>5 DEF HealthAnswered
  <2>2. /\ j.active = o.active /\ j.beatIn = o.beatIn /\ j.session = o.session /\ j.wire = o.wire
        /\ j.state = "reachable" /\ j.healthIn = o.healthIn
    BY <1>1 DEF Desk
  <2> HIDE DEF j, o
  <2>3. Calm(j)
    BY <1>1, <2>2 DEF Kept, Calm, Fits, IsGranted
  <2>4. Kept(c, j, locks)
    BY <1>1, <2>1, <2>2, <2>3 DEF Kept, Timely, Pending, IsGranted
  <2> QED BY <1>3, <2>1, <2>4
<1> QED BY <1>4, <1>5

-----------------------------------------------------------------------------
(* The requests at the backend.                                              *)

\* A lock that has not run out only changes by a request of its owner about it.
LEMMA LockStays ==
  ASSUME LocksTypeOK, NEW d \in Docs, NEW e \in Docs, NEW o \in Owners,
         locks[d] # Free, ~IsExpired(locks[d]),
         Acquire(e, o) \/ Heartbeat(e, o) \/ Release(e, o),
         e # d \/ o # locks[d].owner
  PROVE  locks'[d] = locks[d]
<1>1. Pruned[d] = locks[d] /\ Pruned \in [Docs -> LockInfo \cup {Free}]
  BY LocksLemma DEF Pruned
<1>2. CASE e # d
  BY <1>1, <1>2 DEF Acquire, Heartbeat, Release, Refreshed
<1>3. CASE e = d /\ o # locks[d].owner
  <2>1. ~CanAcquire(e, o) /\ ~CanHeartbeat(e, o) /\ ~CanRelease(e, o)
    BY <1>1, <1>3 DEF CanAcquire, CanHeartbeat, CanRelease, IsOwnedBy
  <2> QED BY <1>1, <2>1 DEF Acquire, Heartbeat, Release
<1> QED BY <1>2, <1>3

\* A request of the owner for its lock renews the lease; a granted lock is new.
LEMMA LockRenewed ==
  ASSUME LocksTypeOK, NEW d \in Docs, NEW o \in Owners,
         \/ Acquire(d, o) /\ CanAcquire(d, o)
         \/ /\ Acquire(d, o) \/ Heartbeat(d, o)
            /\ locks[d] # Free /\ ~IsExpired(locks[d]) /\ locks[d].owner = o
  PROVE  locks'[d] # Free /\ locks'[d].owner = o /\ locks'[d].age = 0
<1>1. Pruned \in [Docs -> LockInfo \cup {Free}]
  BY LocksLemma
<1>2. locks' = Refreshed(d, o)
  <2>1. locks[d] # Free /\ ~IsExpired(locks[d]) => Pruned[d] = locks[d]
    BY DEF Pruned
  <2> QED BY <2>1 DEF Acquire, Heartbeat, CanAcquire, CanHeartbeat, IsOwnedBy
<1>3. locks'[d] = [owner |-> o, age |-> 0]
  BY <1>1, <1>2 DEF Refreshed
<1>4. [owner |-> o, age |-> 0] \in LockInfo
  BY LockServiceAssumption DEF LockInfo
<1> QED BY <1>3, <1>4, LockServiceAssumption

LEMMA SliceLemma ==
  ASSUME NEW w \in Seq(Message), NEW p \in Int, NEW q \in Int, 1 <= p, q <= Len(w), p <= q + 1
  PROVE  /\ SubSeq(w, p, q) \in Seq(Message) /\ Len(SubSeq(w, p, q)) = q - p + 1
         /\ \A n \in 1 .. q - p + 1 : SubSeq(w, p, q)[n] = w[p + n - 1]
<1>1. \A n \in p .. q : n \in 1 .. Len(w)
  BY LenProperties
<1>2. \A n \in p .. q : w[n] \in Message
  BY <1>1, ElementOfSeq
<1> QED BY <1>2, SubSeqProperties

LEMMA WithoutWire ==
  ASSUME NEW w \in Seq(Message), NEW i \in 1 .. Len(w)
  PROVE  LET v == Without(w, i)
         IN  /\ DOMAIN v = 1 .. (Len(w) - 1)
             /\ \A n \in 1 .. (Len(w) - 1) : v[n] = w[IF n < i THEN n ELSE n + 1]
<1> DEFINE a == SubSeq(w, 1, i - 1)
           b == SubSeq(w, i + 1, Len(w))
<1>1. Len(w) \in Nat /\ \A n \in 1 .. Len(w) : w[n] \in Message
  BY LenProperties, ElementOfSeq
<1>2. i - 1 \in Int /\ i + 1 \in Int /\ Len(w) \in Int /\ 1 \in Int
  BY <1>1
<1>3. a \in Seq(Message) /\ Len(a) = i - 1 /\ \A n \in 1 .. Len(a) : a[n] = w[n]
  <2>1. PICK p \in Int : p = i - 1
    BY <1>2
  <2>2. /\ a \in Seq(Message) /\ Len(a) = p - 1 + 1
        /\ \A n \in 1 .. p - 1 + 1 : a[n] = w[1 + n - 1]
    BY <1>1, <1>2, <2>1, SliceLemma
  <2> HIDE DEF a
  <2>3. Len(a) = p /\ \A n \in 1 .. p : 1 + n - 1 = n /\ n \in 1 .. p - 1 + 1
    BY <2>1, <2>2
  <2> QED BY <2>1, <2>2, <2>3
<1>4. b \in Seq(Message) /\ Len(b) = Len(w) - i /\ \A n \in 1 .. Len(b) : b[n] = w[i + n]
  <2>1. PICK p \in Int : p = i + 1
    BY <1>2
  <2>2. /\ b \in Seq(Message) /\ Len(b) = Len(w) - p + 1
        /\ \A n \in 1 .. Len(w) - p + 1 : b[n] = w[p + n - 1]
    BY <1>1, <1>2, <2>1, SliceLemma
  <2> HIDE DEF b
  <2>3. Len(b) = Len(w) - i /\ \A n \in 1 .. Len(w) - i : p + n - 1 = i + n /\ n \in 1 .. Len(w) - p + 1
    BY <1>1, <2>1, <2>2
  <2> QED BY <2>2, <2>3
<1> HIDE DEF a, b
<1>5. /\ a \o b \in Seq(Message) /\ Len(a \o b) = Len(a) + Len(b)
      /\ \A n \in 1 .. Len(a) + Len(b) : (a \o b)[n] = IF n <= Len(a) THEN a[n] ELSE b[n - Len(a)]
  BY <1>3, <1>4, ConcatProperties
<1>6. DOMAIN (a \o b) = 1 .. (Len(w) - 1)
  BY <1>1, <1>3, <1>4, <1>5, LenProperties
<1>7. \A n \in 1 .. (Len(w) - 1) : (a \o b)[n] = w[IF n < i THEN n ELSE n + 1]
  <2> TAKE n \in 1 .. (Len(w) - 1)
  <2>1. CASE n < i
    BY <1>1, <1>3, <1>5, <2>1
  <2>2. CASE ~(n < i)
    <3>1. n \in 1 .. Len(a) + Len(b) /\ ~(n <= Len(a)) /\ n - Len(a) \in 1 .. Len(b)
          /\ i + (n - Len(a)) = n + 1
      BY <1>1, <1>3, <1>4, <2>2
    <3>2. (a \o b)[n] = b[n - Len(a)] /\ b[n - Len(a)] = w[i + (n - Len(a))]
      BY <1>4, <1>5, <3>1
    <3> QED BY <2>2, <3>1, <3>2
  <2> QED BY <2>1, <2>2
<1>8. Without(w, i) = a \o b
  BY DEF Without, a, b
<1> QED BY <1>6, <1>7, <1>8

\* A request leaves the wire.
LEMMA RestWire ==
  ASSUME NEW k \in Desk, Calm(k), NEW i \in 1 .. Len(k.wire)
  PROVE  LET j == [k EXCEPT !.wire = Without(@, i)]
         IN  /\ Fits(j)
             /\ ~Releases(k.wire) => ~Releases(j.wire)
             /\ Pending(k) => \/ Pending(j)
                              \/ k.wire[i] = [op |-> "heartbeat", doc |-> k.active, to |-> "beat"]
             /\ k.wire[i].to = "session" =>
                  /\ \A n \in DOMAIN j.wire : j.wire[n].to # "session"
                  /\ i = 1 => ~Releases(j.wire)
<1> DEFINE j == [k EXCEPT !.wire = Without(@, i)]
           at(n) == IF n < i THEN n ELSE n + 1
<1>1. k.wire \in Seq(Message) /\ DOMAIN k.wire = 1 .. Len(k.wire) /\ Len(k.wire) \in Nat
  BY DeskFields, LenProperties
<1>2. \A n \in DOMAIN k.wire : k.wire[n] \in Message
  BY <1>1, ElementOfSeq
<1>3. j.wire = Without(k.wire, i) /\ j.session = k.session /\ j.active = k.active
  BY DEF Desk
<1> HIDE DEF j
<1>4. /\ DOMAIN j.wire = 1 .. (Len(k.wire) - 1)
      /\ \A n \in DOMAIN j.wire : j.wire[n] = k.wire[at(n)]
  BY <1>1, <1>3, WithoutWire
<1>5. /\ \A n \in DOMAIN j.wire : at(n) \in DOMAIN k.wire /\ at(n) # i
      /\ \A m, n \in DOMAIN j.wire : m < n => at(m) < at(n)
      /\ \A m \in DOMAIN k.wire : m # i => \E n \in DOMAIN j.wire : at(n) = m
  <2>1. \A n \in DOMAIN j.wire : at(n) \in DOMAIN k.wire /\ at(n) # i
    BY <1>1, <1>4
  <2>2. \A m, n \in DOMAIN j.wire : m < n => at(m) < at(n)
    BY <1>1, <1>4
  <2>3. ASSUME NEW m \in DOMAIN k.wire, m # i PROVE \E n \in DOMAIN j.wire : at(n) = m
    <3>1. CASE m < i
      <4>1. m \in DOMAIN j.wire /\ at(m) = m
        BY <1>1, <1>4, <3>1
      <4> QED BY <4>1
    <3>2. CASE m > i
      <4>1. m - 1 \in DOMAIN j.wire /\ at(m - 1) = m
        BY <1>1, <1>4, <3>2
      <4> QED BY <4>1
    <3> QED BY <1>1, <2>3, <3>1, <3>2
  <2> QED BY <2>1, <2>2, <2>3
<1> HIDE DEF at
<1>6. Fits(j)
  <2> SUFFICES ASSUME NEW m \in DOMAIN j.wire, j.wire[m].to = "session"
               PROVE  /\ j.session.op = j.wire[m].op /\ j.session.doc = j.wire[m].doc
                      /\ j.session.reply = "waiting"
                      /\ \A n \in DOMAIN j.wire : n > m => j.wire[n].op = "heartbeat"
    BY DEF Fits
  <2>1. k.wire[at(m)].to = "session" /\ at(m) \in DOMAIN k.wire /\ j.wire[m] = k.wire[at(m)]
    BY <1>4, <1>5
  <2>2. /\ k.session.op = k.wire[at(m)].op /\ k.session.doc = k.wire[at(m)].doc
        /\ k.session.reply = "waiting"
        /\ \A n \in DOMAIN k.wire : n > at(m) => k.wire[n].op = "heartbeat"
    BY <2>1 DEF Calm, Fits
  <2>3. ASSUME NEW n \in DOMAIN j.wire, n > m PROVE j.wire[n].op = "heartbeat"
    <3>1. m < n /\ m \in Nat /\ n \in Nat
      BY <1>1, <1>4, <2>3
    <3>2. at(n) \in DOMAIN k.wire /\ at(m) \in DOMAIN k.wire /\ at(m) < at(n)
      BY <1>5, <3>1
    <3>3. at(n) > at(m)
      BY <1>1, <3>2
    <3> QED BY <1>4, <2>2, <3>2, <3>3
  <2> QED BY <1>3, <2>1, <2>2, <2>3
<1>7. ~Releases(k.wire) => ~Releases(j.wire)
  BY <1>4, <1>5 DEF Releases
<1>8. ASSUME Pending(k), k.wire[i] # [op |-> "heartbeat", doc |-> k.active, to |-> "beat"]
      PROVE  Pending(j)
  <2>1. PICK m \in DOMAIN k.wire : k.wire[m] = [op |-> "heartbeat", doc |-> k.active, to |-> "beat"]
    BY <1>8 DEF Pending
  <2>2. PICK n \in DOMAIN j.wire : at(n) = m
    BY <1>5, <1>8, <2>1
  <2> QED BY <1>3, <1>4, <2>1, <2>2 DEF Pending
<1>9. ASSUME k.wire[i].to = "session"
      PROVE  /\ \A n \in DOMAIN j.wire : j.wire[n].to # "session"
             /\ i = 1 => ~Releases(j.wire)
  <2>1. i \in DOMAIN k.wire /\ k.wire[i].op # "heartbeat"
    BY <1>1, <1>2, <1>9 DEF Message
  <2>2. \A n \in DOMAIN k.wire : n > i => k.wire[n].op = "heartbeat"
    BY <1>9, <2>1 DEF Calm, Fits
  <2>3. ASSUME NEW n \in DOMAIN j.wire, j.wire[n].to = "session" PROVE FALSE
    <3>1. at(n) \in DOMAIN k.wire /\ at(n) # i /\ k.wire[at(n)].to = "session"
      BY <1>4, <1>5, <2>3
    <3>2. k.wire[at(n)].op # "heartbeat"
      BY <1>2, <3>1 DEF Message
    <3>3. ~(i > at(n))
      BY <2>1, <3>1 DEF Calm, Fits
    <3>4. at(n) > i
      BY <1>1, <3>1, <3>3
    <3> QED BY <2>2, <3>1, <3>2, <3>4
  <2>4. ASSUME i = 1, NEW n \in DOMAIN j.wire PROVE j.wire[n].op # "release"
    <3>1. at(n) \in DOMAIN k.wire /\ at(n) # i
      BY <1>5
    <3>2. at(n) > i
      BY <1>1, <2>4, <3>1
    <3>3. k.wire[at(n)].op = "heartbeat"
      BY <2>2, <3>1, <3>2
    <3> QED BY <1>4, <3>3
  <2> QED BY <2>3, <2>4 DEF Releases
<1> QED BY <1>6, <1>7, <1>8, <1>9 DEF j

\* What an answer does to the desktop that awaits it.
LEMMA AnswerFields ==
  ASSUME NEW k \in Desk, NEW i \in 1 .. Len(k.wire), NEW reply
  PROVE  LET j == Answer(k, i, reply)
         IN  /\ j.active = k.active /\ j.beatIn = k.beatIn /\ j.state = k.state
             /\ j.healthIn = k.healthIn /\ j.wire = Without(k.wire, i)
             /\ j.session.op = k.session.op /\ j.session.doc = k.session.doc
             /\ j.session.reply = IF k.wire[i].to = "session" THEN reply ELSE k.session.reply
             /\ k.wire[i].to # "session" => j.session = k.session
<1> DEFINE rest == [k EXCEPT !.wire = Without(@, i)]
           r == [k.session EXCEPT !.reply = reply]
           h == [k.beat EXCEPT !.reply = reply]
<1>1. k.wire[i] \in Message /\ k.session \in SessionRequest
  BY DeskFields, ElementOfSeq
<1>2. r.op = k.session.op /\ r.doc = k.session.doc /\ r.reply = reply
  BY <1>1 DEF SessionRequest
<1>3. /\ [rest EXCEPT !.session.reply = reply] = [rest EXCEPT !.session = r]
      /\ [rest EXCEPT !.beat.reply = reply] = [rest EXCEPT !.beat = h]
  BY DEF Desk
<1>4. Answer(k, i, reply) = IF k.wire[i].to = "session" THEN [rest EXCEPT !.session = r]
                            ELSE IF k.wire[i].to = "beat" THEN [rest EXCEPT !.beat = h]
                            ELSE rest
  BY <1>1, <1>3 DEF Answer, Message
<1> HIDE DEF r, h
<1> QED BY <1>2, <1>4 DEF Desk

LEMMA AnswerKeeps ==
  ASSUME NEW c \in Clients, NEW k \in Desk, NEW i \in 1 .. Len(k.wire), NEW reply, NEW table,
         k.wire[i].to = "session" => i = 1 /\ reply # "waiting",
         Kept(c, k, table),
         k.wire[i].to = "session" /\ k.session.op = "acquire" /\ reply = "granted" =>
           Owned(c, k.session.doc, table) /\ table[k.session.doc].age = 0,
         k.active # NoDoc /\ k.wire[i] = [op |-> "heartbeat", doc |-> k.active, to |-> "beat"] =>
           table[k.active].age = 0
  PROVE  Kept(c, Answer(k, i, reply), table)
<1> DEFINE j == Answer(k, i, reply)
           rest == [k EXCEPT !.wire = Without(@, i)]
<1>1. /\ j.active = k.active /\ j.beatIn = k.beatIn /\ j.state = k.state
      /\ j.healthIn = k.healthIn /\ j.wire = Without(k.wire, i)
      /\ j.session.op = k.session.op /\ j.session.doc = k.session.doc
      /\ j.session.reply = IF k.wire[i].to = "session" THEN reply ELSE k.session.reply
      /\ k.wire[i].to # "session" => j.session = k.session
  BY AnswerFields
<1> HIDE DEF j
<1>2. Calm(k) /\ k.wire[i] \in Message /\ k.beatIn \in 0 .. Stopped
  BY DeskFields, ElementOfSeq DEF Kept
<1>3. rest.wire = j.wire /\ rest.session = k.session /\ rest.active = k.active
  BY <1>1 DEF Desk
<1>4. /\ Fits(rest)
      /\ ~Releases(k.wire) => ~Releases(rest.wire)
      /\ Pending(k) => \/ Pending(rest)
                       \/ k.wire[i] = [op |-> "heartbeat", doc |-> k.active, to |-> "beat"]
      /\ k.wire[i].to = "session" =>
           /\ \A n \in DOMAIN rest.wire : rest.wire[n].to # "session"
           /\ i = 1 => ~Releases(rest.wire)
  BY <1>2, RestWire
<1> HIDE DEF rest
<1>5. k.wire[i].to = "session" => k.session.op \in {"acquire", "release"} /\ k.session.reply = "waiting"
  <2>1. i \in DOMAIN k.wire
    BY DeskFields, LenProperties
  <2> QED BY <1>2, <2>1 DEF Message, Calm, Fits
<1>6. Fits(j)
  <2>1. CASE k.wire[i].to = "session"
    BY <1>3, <1>4, <2>1 DEF Fits
  <2>2. CASE k.wire[i].to # "session"
    BY <1>1, <1>3, <1>4, <2>2 DEF Fits
  <2> QED BY <2>1, <2>2
<1>7. IsGranted(j) => \/ IsGranted(k)
                      \/ k.wire[i].to = "session" /\ k.session.op = "acquire" /\ reply = "granted"
  BY <1>1 DEF IsGranted
<1>8. j.active # NoDoc \/ IsGranted(j) => ~Releases(j.wire)
  BY <1>1, <1>2, <1>3, <1>4, <1>7 DEF Calm
<1>9. Calm(j)
  BY <1>1, <1>2, <1>5, <1>6, <1>8 DEF Calm, NoRequest
<1>10. IsGranted(j) => Owned(c, j.session.doc, table) /\ table[j.session.doc].age = 0
  BY <1>1, <1>7 DEF Kept
<1>11. ASSUME j.active # NoDoc
       PROVE  Owned(c, j.active, table) /\ Timely(j, table[j.active].age)
  <2>1. Owned(c, k.active, table) /\ Timely(k, table[k.active].age)
    BY <1>1, <1>11 DEF Kept
  <2>2. CASE k.wire[i] = [op |-> "heartbeat", doc |-> k.active, to |-> "beat"]
    <3>1. table[k.active].age = 0
      BY <1>1, <1>11, <2>2
    <3>2. k.beatIn <= Beat
      BY <1>1, <1>2, <1>11, EditSessionAssumption DEF Calm, Stopped
    <3> QED BY <1>1, <1>2, <2>1, <3>1, <3>2, EditSessionAssumption DEF Timely, Stopped
  <2>3. CASE k.wire[i] # [op |-> "heartbeat", doc |-> k.active, to |-> "beat"]
    <3>1. Pending(k) => Pending(j)
      BY <1>1, <1>3, <1>4, <2>3 DEF Pending
    <3> QED BY <1>1, <2>1, <3>1 DEF Timely
  <2> QED BY <2>2, <2>3
<1> QED BY <1>9, <1>10, <1>11 DEF Kept, j

\* A lock of that age has not run out.
LEMMA TimelyLemma ==
  ASSUME LocksTypeOK, Steady, NEW c \in Clients, NEW k \in Desk, Calm(k), k.active \in Docs,
         k.active # NoDoc, Owned(c, k.active, locks), Timely(k, locks[k.active].age)
  PROVE  locks[k.active].age <= 2 * Beat /\ ~IsExpired(locks[k.active])
<1>1. Beat \in Nat /\ 0 < Beat /\ Lease \in Nat /\ (Lease = 0 \/ 2 * Beat < Lease)
  BY EditSessionAssumption, LockServiceAssumption DEF Steady
<1>2. locks[k.active].age \in Nat
  <2>1. locks[k.active] \in LockInfo
    BY DEF Owned, LocksTypeOK
  <2> QED BY <1>1, <2>1 DEF LockInfo
<1>3. k.beatIn \in Nat /\ k.beatIn <= Beat
  BY <1>1, DeskFields DEF Calm, Stopped
<1>4. locks[k.active].age <= 2 * Beat
  BY <1>1, <1>2, <1>3 DEF Timely
<1> QED BY <1>1, <1>2, <1>4 DEF IsExpired

\* The locks of the desktops stand while the backend handles a request.
LEMMA TableKeeps ==
  ASSUME IInv, Steady, NEW e \in Clients, Kept(e, desk[e], locks),
         NEW c \in Clients, NEW d \in Docs,
         \/ Acquire(d, OwnerOf[c]) \/ Heartbeat(d, OwnerOf[c])
         \/ /\ Release(d, OwnerOf[c])
            /\ e = c => desk[e].active = NoDoc /\ ~IsGranted(desk[e])
  PROVE  Kept(e, desk[e], locks')
<1> DEFINE k == desk[e]
<1>1. k \in Desk /\ Calm(k) /\ k.beatIn \in 0 .. Stopped
  BY DeskFields DEF IInv, DeskInv, Kept
<1>2. OwnerOf[c] \in Owners /\ OwnerOf[e] \in Owners /\ (OwnerOf[c] = OwnerOf[e] => c = e)
  BY EditSessionAssumption DEF Steady
<1>3. Beat \in Nat /\ 0 < Beat /\ Lease \in Nat /\ (Lease = 0 \/ 2 * Beat < Lease)
  BY EditSessionAssumption, LockServiceAssumption DEF Steady
<1>4. ASSUME NEW b \in Docs, Owned(e, b, locks), locks[b].age <= 2 * Beat,
             e = c => ~Release(d, OwnerOf[c]) \/ Acquire(d, OwnerOf[c]) \/ Heartbeat(d, OwnerOf[c])
      PROVE  Owned(e, b, locks') /\ (locks'[b].age = locks[b].age \/ locks'[b].age = 0)
  <2>1. locks[b] \in LockInfo /\ locks[b].age \in Nat
    <3>1. locks[b] \in LockInfo
      BY <1>4 DEF Owned, IInv, LocksTypeOK
    <3> QED BY <3>1, <1>3 DEF LockInfo
  <2>2. ~IsExpired(locks[b])
    BY <1>3, <1>4, <2>1 DEF IsExpired
  <2>3. CASE d # b \/ c # e
    <3>1. d # b \/ OwnerOf[c] # locks[b].owner
      BY <1>2, <1>4, <2>3 DEF Owned
    <3>2. locks'[b] = locks[b]
      BY <1>2, <1>4, <2>2, <3>1, LockStays DEF Owned, IInv
    <3> QED BY <1>4, <3>2 DEF Owned
  <2>4. CASE d = b /\ c = e
    <3>1. locks'[b] # Free /\ locks'[b].owner = OwnerOf[e] /\ locks'[b].age = 0
      BY <1>2, <1>4, <2>2, <2>4, LockRenewed DEF Owned, IInv
    <3> QED BY <3>1 DEF Owned
  <2> QED BY <2>3, <2>4
<1>5. ASSUME IsGranted(k)
      PROVE  Owned(e, k.session.doc, locks') /\ locks'[k.session.doc].age = 0
  <2>1. k.session.doc \in Docs /\ Owned(e, k.session.doc, locks) /\ locks[k.session.doc].age = 0
    BY <1>1, <1>5 DEF Kept, Calm, IsGranted
  <2>2. 0 <= 2 * Beat
    BY <1>3
  <2> QED BY <1>4, <1>5, <2>1, <2>2
<1>6. ASSUME k.active # NoDoc
      PROVE  Owned(e, k.active, locks') /\ Timely(k, locks'[k.active].age)
  <2>1. k.active \in Docs /\ Owned(e, k.active, locks) /\ Timely(k, locks[k.active].age)
    BY <1>1, <1>6 DEF Kept, Desk, MaybeDoc
  <2>2. k.beatIn \in Nat /\ k.beatIn <= Beat
    BY <1>1, <1>3, <1>6 DEF Calm, Stopped
  <2>3. locks[k.active].age <= 2 * Beat
    BY <1>1, <1>6, <2>1, TimelyLemma DEF IInv
  <2>4. Owned(e, k.active, locks') /\ (locks'[k.active].age = locks[k.active].age \/ locks'[k.active].age = 0)
    BY <1>4, <1>6, <2>1, <2>3
  <2>5. Timely(k, 0)
    BY <1>3, <2>2 DEF Timely
  <2> QED BY <2>1, <2>4, <2>5
<1> QED BY <1>1, <1>5, <1>6 DEF Kept

LEMMA RequestKeeps ==
  ASSUME IInv, HoldInv, Steady, NEW c \in Clients, NetworkStep(c)
  PROVE  HoldInv'
<1> DEFINE k == desk[c]
<1>1. k \in Desk /\ Calm(k) /\ Kept(c, k, locks) /\ up[c]
  BY DEF IInv, DeskInv, HoldInv, Kept
<1>2. PICK i \in 1 .. MaxWire : HandleRequest(c, i) \/ LoseRequest(c, i)
  BY DEF NetworkStep
<1>3. i \in 1 .. Len(k.wire) /\ k.wire[i] \in Message
  BY <1>1, <1>2, DeskFields, ElementOfSeq DEF HandleRequest, LoseRequest
<1>4. up' = up
  BY <1>2 DEF HandleRequest, LoseRequest
<1>5. CASE LoseRequest(c, i)
  <2>1. k.wire[i].to = "nobody" /\ locks' = locks /\ Becomes(c, Answer(k, i, "failed"))
    BY <1>1, <1>5 DEF LoseRequest
  <2> HIDE DEF k
  <2>2. k.wire[i] # [op |-> "heartbeat", doc |-> k.active, to |-> "beat"]
    BY <2>1
  <2>3. Kept(c, Answer(k, i, "failed"), locks)
    BY <1>1, <1>3, <2>1, <2>2, AnswerKeeps
  <2> QED BY <1>4, <2>1, <2>3, DeskKeeps DEF HoldInv
<1>6. CASE HandleRequest(c, i)
  <2> DEFINE m == k.wire[i]
             o == OwnerOf[c]
  <2>1. i = 1
    BY <1>6 DEF HandleRequest, InOrder, Steady
  <2>2. PICK reply \in {"granted", "denied", "ok", "lost", "released"} :
          /\ Becomes(c, Answer(k, i, reply))
          /\ \/ m.op = "acquire" /\ Acquire(m.doc, o) /\ (reply = "granted" => CanAcquire(m.doc, o))
             \/ m.op = "heartbeat" /\ Heartbeat(m.doc, o)
             \/ m.op = "release" /\ Release(m.doc, o)
    BY <1>6 DEF HandleRequest
  <2>3. m.doc \in Docs /\ o \in Owners
    BY <1>3, EditSessionAssumption DEF Message
  <2>4. i \in DOMAIN k.wire
    BY <1>1, <1>3, DeskFields, LenProperties
  <2>5. m.op = "release" => k.active = NoDoc /\ ~IsGranted(k)
    BY <1>1, <2>4 DEF Calm, Releases
  <2>6. ASSUME NEW e \in Clients PROVE Kept(e, desk[e], locks')
    <3>1. Kept(e, desk[e], locks)
      BY DEF HoldInv
    <3> QED BY <2>2, <2>3, <2>5, <3>1, TableKeeps
  <2>7. m.to = "session" /\ k.session.op = "acquire" /\ reply = "granted" =>
          Owned(c, k.session.doc, locks') /\ locks'[k.session.doc].age = 0
    <3>1. m.to = "session" => k.session.op = m.op /\ k.session.doc = m.doc
      BY <1>1, <2>4 DEF Calm, Fits
    <3> HIDE DEF m, k
    <3> QED BY <2>2, <2>3, <3>1, LockRenewed DEF Owned, IInv
  <2>8. k.active # NoDoc /\ m = [op |-> "heartbeat", doc |-> k.active, to |-> "beat"] =>
          locks'[k.active].age = 0
    <3> SUFFICES ASSUME k.active # NoDoc, m = [op |-> "heartbeat", doc |-> k.active, to |-> "beat"]
                 PROVE  locks'[k.active].age = 0
      OBVIOUS
    <3>1. m.op = "heartbeat" /\ m.doc = k.active
      OBVIOUS
    <3>2. Heartbeat(k.active, o) /\ k.active \in Docs
      BY <2>2, <2>3, <3>1
    <3>3. Owned(c, k.active, locks) /\ Timely(k, locks[k.active].age)
      BY <1>1 DEF Kept
    <3>4. ~IsExpired(locks[k.active])
      BY <1>1, <3>2, <3>3, TimelyLemma DEF IInv
    <3> QED BY <2>3, <3>2, <3>3, <3>4, LockRenewed DEF Owned, IInv
  <2> HIDE DEF k
  <2>9. Kept(c, Answer(k, i, reply), locks')
    BY <1>1, <1>3, <2>1, <2>2, <2>6, <2>7, <2>8, AnswerKeeps DEF k
  <2> QED BY <1>4, <2>2, <2>6, <2>9, DeskKeeps
<1> QED BY <1>2, <1>5, <1>6

-----------------------------------------------------------------------------
(* Crashes and time.                                                         *)

LEMMA CrashKeeps ==
  ASSUME IInv, HoldInv, NEW c \in Clients, Crash(c)
  PROVE  HoldInv'
<1> DEFINE h == StopHeartbeat(desk[c])
           a == AbortSessionRequest(h)
           u == Unattached(a, "beat")
           b == AbortHeartbeatRequest(a)
           s == [b EXCEPT !.state = "crashed", !.active = NoDoc, !.selected = NoDoc,
                          !.access = "view", !.healthIn = Health]
<1>1. desk[c] \in Desk /\ Becomes(c, s) /\ locks' = locks /\ up' = up
  BY DEF IInv, DeskInv, Crash
<1>2. h \in Desk /\ h.beatIn = Stopped
  BY <1>1, StopLemma, StopWire
<1> HIDE DEF h
<1>3. a \in Desk /\ a.session = NoRequest /\ a.beatIn = Stopped
      /\ \A i \in DOMAIN a.wire : a.wire[i].to # "session"
  BY <1>2, AbortSessionLemma, AbortSessionWire DEF SamePage
<1> HIDE DEF a
<1>4. u \in Desk /\ \A i \in DOMAIN u.wire : u.wire[i].to # "session"
  BY <1>3, UnattachedLemma, UnattachedWire
<1>5. b = [u EXCEPT !.beat = NoHeartbeat]
  BY DEF AbortHeartbeatRequest
<1>6. b \in Desk /\ b.session = NoRequest /\ b.beatIn = Stopped
  BY <1>3, AbortHeartbeatLemma DEF SamePage
<1> HIDE DEF u
<1>7. b.wire = u.wire
  BY <1>4, <1>5 DEF Desk
<1> HIDE DEF b
<1>8. /\ s.state = "crashed" /\ s.active = NoDoc /\ s.healthIn = Health /\ s.beatIn = Stopped
      /\ s.session = NoRequest /\ s.wire = u.wire
  BY <1>6, <1>7 DEF Desk
<1> HIDE DEF s
<1>9. Kept(c, s, locks)
  BY <1>4, <1>8 DEF Kept, Calm, Fits, IsGranted, NoRequest
<1> QED BY <1>1, <1>9, DeskKeeps DEF HoldInv

LEMMA RelaunchKeeps ==
  ASSUME IInv, HoldInv, NEW c \in Clients, Relaunch(c)
  PROVE  HoldInv'
<1> DEFINE k == desk[c]
           s == [k EXCEPT !.state = "checking"]
<1>1. k \in Desk /\ Calm(k) /\ Becomes(c, s) /\ locks' = locks /\ up' = up /\ k.state = "crashed"
  BY DEF IInv, DeskInv, HoldInv, Kept, Relaunch, Alive
<1> HIDE DEF k
<1>2. /\ s.state = "checking" /\ s.active = k.active /\ s.healthIn = k.healthIn
      /\ s.beatIn = k.beatIn /\ s.session = k.session /\ s.wire = k.wire
  BY <1>1 DEF Desk
<1> HIDE DEF s
<1>3. Kept(c, s, locks)
  BY <1>1, <1>2 DEF Kept, Calm, Fits, IsGranted, NoRequest
<1> QED BY <1>1, <1>3, DeskKeeps DEF HoldInv

LEMMA TickKeeps ==
  ASSUME IInv, HoldInv, Tick
  PROVE  HoldInv'
<1>1. up' = up /\ \A d \in Docs : locks'[d] = IF locks[d] = Free THEN Free ELSE Aged(locks[d])
  BY DEF Tick, Elapse
<1>2. ASSUME NEW c \in Clients PROVE Kept(c, desk'[c], locks')
  <2> DEFINE k == desk[c]
             s == [k EXCEPT !.healthIn = @ - 1, !.beatIn = IF @ = Stopped THEN @ ELSE @ - 1]
  <2>1. k \in Desk /\ Calm(k) /\ Kept(c, k, locks)
    BY DEF IInv, DeskInv, HoldInv, Kept
  <2>2. CASE ~Alive(c)
    <3>1. desk'[c] = k
      BY <2>2 DEF Tick
    <3>2. k.active = NoDoc /\ k.session = NoRequest
      BY <2>1, <2>2 DEF Alive, Calm
    <3> QED BY <2>1, <3>1, <3>2 DEF Kept, IsGranted, NoRequest
  <2>3. CASE Alive(c)
    <3>1. desk'[c] = s
      BY <2>3 DEF Tick
    <3>2. /\ k.wire = <<>> /\ k.session = NoRequest /\ k.beatIn # 0 /\ k.healthIn # 0
          /\ k.state \notin {"checking", "crashed"}
      BY <2>3 DEF Tick, Quiet, Alive
    <3>3. k.healthIn \in Nat /\ k.beatIn \in Nat /\ k.beatIn <= Stopped /\ Beat \in Nat /\ Stopped = Beat + 1
      BY <2>1, EditSessionAssumption DEF Desk, Stopped
    <3> HIDE DEF k
    <3>4. /\ s.active = k.active /\ s.state = k.state /\ s.session = NoRequest /\ s.wire = <<>>
          /\ s.healthIn = k.healthIn - 1
          /\ s.beatIn = IF k.beatIn = Stopped THEN k.beatIn ELSE k.beatIn - 1
      BY <2>1, <3>2 DEF Desk
    <3> HIDE DEF s
    <3>5. Fits(s) /\ ~Releases(s.wire) /\ ~Pending(k) /\ ~IsGranted(s)
      BY <3>2, <3>4 DEF Fits, Releases, Pending, IsGranted, NoRequest
    <3>6. Calm(s)
      BY <2>1, <3>2, <3>3, <3>4, <3>5 DEF Calm, NoRequest
    <3>7. ASSUME s.active # NoDoc
          PROVE  Owned(c, s.active, locks') /\ Timely(s, locks'[s.active].age)
      <4> DEFINE lock == locks[k.active]
      <4>1. Owned(c, k.active, locks) /\ Timely(k, lock.age) /\ k.active \in Docs
            /\ k.beatIn # Stopped
        BY <2>1, <3>4, <3>7 DEF Kept, Calm, Desk, MaybeDoc
      <4>2. lock \in LockInfo /\ locks'[k.active] = Aged(lock)
        BY <1>1, <4>1 DEF Owned, IInv, LocksTypeOK
      <4>3. lock.age \in Nat /\ Lease \in Nat
        BY <4>2, LockServiceAssumption DEF LockInfo
      <4>4. Aged(lock) \in LockInfo /\ Aged(lock).owner = lock.owner
            /\ Aged(lock).age \in {lock.age, lock.age + 1}
        BY <4>2, LockServiceAssumption DEF Aged, LockInfo
      <4>5. Owned(c, k.active, locks')
        BY <4>1, <4>2, <4>4, LockServiceAssumption DEF Owned
      <4> DEFINE age == locks'[k.active].age
      <4>6. age \in {lock.age, lock.age + 1} /\ Timely(k, lock.age)
        BY <4>1, <4>2, <4>4
      <4> HIDE DEF age, lock
      <4>7. age \in Nat /\ age <= lock.age + 1
        BY <4>3, <4>6
      <4>8. Timely(s, age)
        BY <3>2, <3>3, <3>4, <3>5, <4>1, <4>3, <4>6, <4>7 DEF Timely
      <4> QED BY <3>4, <4>5, <4>8 DEF age
    <3> QED BY <3>1, <3>5, <3>6, <3>7 DEF Kept
  <2> QED BY <2>2, <2>3
<1> QED BY <1>1, <1>2 DEF HoldInv

-----------------------------------------------------------------------------
LEMMA HoldInit == Init => HoldInv
<1> SUFFICES ASSUME Init PROVE HoldInv
  OBVIOUS
<1>1. ASSUME NEW c \in Clients PROVE up[c] /\ Kept(c, desk[c], locks)
  <2>1. /\ desk[c].state = "checking" /\ desk[c].healthIn = Health /\ desk[c].active = NoDoc
        /\ desk[c].beatIn = Stopped /\ desk[c].session = NoRequest /\ desk[c].wire = <<>>
    BY DEF Init
  <2>2. Fits(desk[c])
    BY <2>1 DEF Fits
  <2> QED BY <2>1, <2>2 DEF Init, Kept, Calm, IsGranted, NoRequest
<1> QED BY <1>1 DEF HoldInv

LEMMA HoldNext == IInv /\ HoldInv /\ Steady /\ [Next]_vars => HoldInv'
<1> SUFFICES ASSUME IInv, HoldInv, Steady, [Next]_vars PROVE HoldInv'
  OBVIOUS
<1>1. ASSUME NEW c \in Clients, ClientStep(c) PROVE HoldInv'
  BY <1>1, HeartbeatTimerKeeps, HeartbeatAnsweredKeeps, AcquireAnsweredKeeps,
     ReleaseAnsweredKeeps, HealthKeeps DEF ClientStep
<1>2. CASE EnvironmentStep
  <2>1. ASSUME NEW c \in Clients PROVE ~LoseAnswer(c) /\ ~Partition(c) /\ ~Heal(c)
    BY DEF LoseAnswer, Partition, Heal, HoldInv, Steady
  <2>2. ~ServerRestart /\ \A d \in Docs : ~AdminForceRelease(d)
    BY DEF ServerRestart, AdminForceRelease, Steady
  <2> QED BY <1>2, <2>1, <2>2, CrashKeeps, RelaunchKeeps DEF EnvironmentStep
<1>3. CASE UNCHANGED vars
  BY <1>3 DEF vars, HoldInv
<1> QED BY <1>1, <1>2, <1>3, UserKeeps, RequestKeeps, TickKeeps DEF Next

\* A desktop that believes to hold the lock of a document is its owner in the
\* lock table and the lease has not run out, for any number of desktops,
\* documents and outstanding requests and any intervals that fit the lease
\* (SendHeartbeat, RefreshHealth, PruneExpiredLocked).
THEOREM ClaimHeldCorrect == Steady /\ Spec => []ClaimIsHeld
<1>1. IInv /\ HoldInv /\ Steady => ClaimIsHeld
  <2> SUFFICES ASSUME IInv, HoldInv, Steady, NEW c \in Clients, desk[c].active # NoDoc
               PROVE  Holds(c, desk[c].active)
    BY DEF ClaimIsHeld
  <2>1. desk[c] \in Desk /\ Calm(desk[c]) /\ Owned(c, desk[c].active, locks)
        /\ Timely(desk[c], locks[desk[c].active].age) /\ desk[c].active \in Docs
    BY DEF HoldInv, Kept, IInv, DeskInv, Desk, MaybeDoc
  <2>2. ~IsExpired(locks[desk[c].active])
    BY <2>1, TimelyLemma DEF IInv
  <2> QED BY <2>1, <2>2 DEF Holds, Owned
<1> DEFINE Inv == IInv /\ HoldInv /\ Steady
<1>2. Steady /\ Init => Inv
  BY InitLemma, HoldInit
<1>3. Inv /\ [Next]_vars => Inv'
  BY NextLemma, HoldNext DEF Steady
<1> QED BY <1>1, <1>2, <1>3, PTL DEF Spec

-----------------------------------------------------------------------------
(* One lock per page: every step implements a step of PageLock.              *)

Claimed(table, d) == {c \in Clients : table[c].active = d}

\* What a step does to the claims: those of all desktops but one stay, and that one
\* stays as well, ends, or begins where there was none.
ClaimMoves ==
  \E c \in Clients :
    /\ \A e \in Clients \ {c} : desk'[e].active = desk[e].active
    /\ \/ desk'[c].active = desk[c].active
       \/ desk'[c].active = NoDoc
       \/ desk[c].active = NoDoc

LEMMA BecomesMoves ==
  ASSUME IInv, NEW c \in Clients, NEW j, Becomes(c, j),
         j.active = desk[c].active \/ j.active = NoDoc \/ desk[c].active = NoDoc
  PROVE  ClaimMoves
<1>1. desk' = [desk EXCEPT ![c] = j] /\ desk \in [Clients -> Desk]
  BY DEF Becomes, IInv, DeskInv
<1> QED BY <1>1 DEF ClaimMoves

LEMMA ClientMoves ==
  ASSUME IInv, HoldInv, NEW c \in Clients, ClientStep(c)
  PROVE  ClaimMoves
<1>1. desk[c] \in Desk /\ Calm(desk[c]) /\ up[c]
  BY DEF IInv, DeskInv, HoldInv, Kept
<1>2. CASE HeartbeatTimer(c)
  <2> DEFINE k == [desk[c] EXCEPT !.beatIn = Beat]
             a == AbortHeartbeatRequest(k)
             s == [a EXCEPT !.beat = [doc |-> k.active, reply |-> "waiting"],
                            !.wire = Append(@, [op |-> "heartbeat", doc |-> k.active, to |-> "beat"])]
  <2>1. Becomes(c, k) \/ Becomes(c, s)
    BY <1>2 DEF HeartbeatTimer
  <2>2. Beat \in 0 .. Stopped
    BY EditSessionAssumption DEF Stopped
  <2>3. k \in Desk /\ k.active = desk[c].active
    BY <1>1, <2>2 DEF Desk
  <2> HIDE DEF k
  <2>4. a \in Desk /\ a.active = k.active
    BY <2>3, AbortHeartbeatLemma DEF SamePage
  <2> HIDE DEF a
  <2>5. s.active = a.active
    BY <2>4 DEF Desk
  <2> HIDE DEF s
  <2> QED BY <2>1, <2>3, <2>4, <2>5, BecomesMoves
<1>3. CASE HeartbeatAnswered(c)
  <2> DEFINE d == desk[c].beat.doc
             k == [desk[c] EXCEPT !.beat = NoHeartbeat]
  <2>1. Becomes(c, k) \/ Becomes(c, LockLost(k, d))
    BY <1>3 DEF HeartbeatAnswered
  <2>2. k \in Desk /\ k.active = desk[c].active
    BY <1>1 DEF Desk, NoHeartbeat, MaybeDoc
  <2> HIDE DEF k
  <2>3. StopHeartbeat(k) \in Desk
    BY <2>2, StopLemma
  <2>4. LockLost(k, d).active = NoDoc
    BY <2>3 DEF LockLost, Desk
  <2> QED BY <2>1, <2>2, <2>4, BecomesMoves
<1>4. CASE AcquireAnswered(c) \/ ReleaseAnswered(c)
  <2>1. desk[c].active = NoDoc
    BY <1>1, <1>4 DEF Calm, AcquireAnswered, ReleaseAnswered
  <2>2. \E j : Becomes(c, j)
    BY <1>4 DEF AcquireAnswered, ReleaseAnswered
  <2> QED BY <2>1, <2>2, BecomesMoves
<1>5. CASE HealthTimer(c) \/ HealthAnswered(c)
  <2> DEFINE j == [desk[c] EXCEPT !.state = "checking", !.healthIn = Health]
             k == [desk[c] EXCEPT !.state = "reachable"]
  <2>1. Becomes(c, j) \/ Becomes(c, k)
    BY <1>1, <1>5 DEF HealthTimer, HealthAnswered
  <2>2. j.active = desk[c].active /\ k.active = desk[c].active
    BY <1>1 DEF Desk
  <2> HIDE DEF j, k
  <2> QED BY <2>1, <2>2, BecomesMoves
<1> QED BY <1>2, <1>3, <1>4, <1>5 DEF ClientStep

LEMMA NetworkMoves ==
  ASSUME IInv, NEW c \in Clients, NetworkStep(c)
  PROVE  ClaimMoves
<1>1. PICK i \in 1 .. MaxWire : HandleRequest(c, i) \/ LoseRequest(c, i)
  BY DEF NetworkStep
<1>2. i \in 1 .. Len(desk[c].wire) /\ \E reply : Becomes(c, Answer(desk[c], i, reply))
  BY <1>1 DEF HandleRequest, LoseRequest
<1>3. desk[c] \in Desk
  BY DEF IInv, DeskInv
<1> QED BY <1>2, <1>3, AnswerFields, BecomesMoves

LEMMA EnvironmentMoves ==
  ASSUME IInv, HoldInv, Steady, NEW c \in Clients, Crash(c) \/ Relaunch(c)
  PROVE  ClaimMoves
<1> DEFINE h == StopHeartbeat(desk[c])
           a == AbortSessionRequest(h)
           b == AbortHeartbeatRequest(a)
           s == [b EXCEPT !.state = "crashed", !.active = NoDoc, !.selected = NoDoc,
                          !.access = "view", !.healthIn = Health]
           k == [desk[c] EXCEPT !.state = "checking"]
<1>1. desk[c] \in Desk /\ (Becomes(c, s) \/ Becomes(c, k))
  BY DEF IInv, DeskInv, Crash, Relaunch
<1>2. k.active = desk[c].active
  BY <1>1 DEF Desk
<1> HIDE DEF k
<1>3. b \in Desk
  <2>1. h \in Desk
    BY <1>1, StopLemma
  <2> HIDE DEF h
  <2>2. a \in Desk
    BY <2>1, AbortSessionLemma
  <2> HIDE DEF a
  <2> QED BY <2>2, AbortHeartbeatLemma
<1> HIDE DEF b
<1>4. s.active = NoDoc
  BY <1>3 DEF Desk
<1> HIDE DEF s
<1> QED BY <1>1, <1>2, <1>4, BecomesMoves

\* Time passes without a change of claims.
LEMMA TickMoves ==
  ASSUME IInv, Tick, NEW c \in Clients
  PROVE  desk'[c].active = desk[c].active
<1> DEFINE k == desk[c]
           s == [k EXCEPT !.healthIn = @ - 1, !.beatIn = IF @ = Stopped THEN @ ELSE @ - 1]
<1>1. k \in Desk /\ desk'[c] = IF ~Alive(c) THEN k ELSE s
  BY DEF IInv, DeskInv, Tick
<1> HIDE DEF k
<1>2. s.active = k.active
  BY <1>1 DEF Desk
<1> QED BY <1>1, <1>2 DEF k

LEMMA StepMoves ==
  ASSUME IInv, HoldInv, Steady, [Next]_vars
  PROVE  ClaimMoves \/ \A c \in Clients : desk'[c].active = desk[c].active
<1>1. ASSUME NEW c \in Clients, UserStep(c) PROVE ClaimMoves
  BY <1>1, UserAfter, BecomesMoves DEF After
<1>2. CASE EnvironmentStep
  <2>1. ASSUME NEW c \in Clients PROVE ~LoseAnswer(c) /\ ~Partition(c) /\ ~Heal(c)
    BY DEF LoseAnswer, Partition, Heal, HoldInv, Steady
  <2>2. ~ServerRestart /\ \A d \in Docs : ~AdminForceRelease(d)
    BY DEF ServerRestart, AdminForceRelease, Steady
  <2> QED BY <1>2, <2>1, <2>2, EnvironmentMoves DEF EnvironmentStep
<1>3. CASE UNCHANGED vars
  BY <1>3 DEF vars
<1> QED BY <1>1, <1>2, <1>3, ClientMoves, NetworkMoves, TickMoves DEF Next

\* Two claims on one page are claims of one user: both have its lock.
LEMMA ClaimsAgree ==
  ASSUME HoldInv, NEW c \in Clients, NEW e \in Clients,
         desk[c].active # NoDoc, desk[c].active = desk[e].active
  PROVE  OwnerOf[c] = OwnerOf[e]
  BY DEF HoldInv, Kept, Owned

LEMMA LockInit == Init => Lock!LInit
<1> SUFFICES ASSUME Init PROVE Lock!LInit
  OBVIOUS
<1>1. \A c \in Clients : desk[c].active = NoDoc
  BY DEF Init
<1> QED BY <1>1, EditSessionAssumption DEF Lock!LInit

\* The claims on page d are those of the table, before the step and after it.
LEMMA LockNext ==
  ASSUME IInv, HoldInv, HoldInv', IInv', Steady, [Next]_vars
  PROVE  [Lock!LNext]_([d \in Docs |-> {c \in Clients : desk[c].active = d}])
<1> DEFINE old == [d \in Docs |-> Claimed(desk, d)]
           new == [d \in Docs |-> Claimed(desk', d)]
<1>1. /\ old = [d \in Docs |-> {c \in Clients : desk[c].active = d}]
      /\ new = [d \in Docs |-> {c \in Clients : desk'[c].active = d}]
  BY DEF Claimed
<1>2. \A c \in Clients : desk[c].active \in Docs \cup {NoDoc} /\ desk'[c].active \in Docs \cup {NoDoc}
  BY DEF IInv, DeskInv, Desk, MaybeDoc
<1>3. CASE \A c \in Clients : desk'[c].active = desk[c].active
  <2>1. new = old
    BY <1>3 DEF Claimed
  <2> QED BY <1>1, <2>1
<1>4. CASE ClaimMoves
  <2>1. PICK c \in Clients :
          /\ \A e \in Clients \ {c} : desk'[e].active = desk[e].active
          /\ \/ desk'[c].active = desk[c].active
             \/ desk'[c].active = NoDoc
             \/ desk[c].active = NoDoc
    BY <1>4 DEF ClaimMoves
  <2>2. CASE desk'[c].active = desk[c].active
    BY <1>3, <2>1, <2>2
  <2>3. CASE desk'[c].active = NoDoc /\ desk[c].active # NoDoc
    <3>0. PICK d \in Docs : d = desk[c].active
      BY <1>2, <2>3
    <3>1. c \in old[d]
      BY <3>0, <2>3 DEF Claimed
    <3>2. new = [old EXCEPT ![d] = @ \ {c}]
      <4>1. ASSUME NEW e \in Docs
            PROVE  Claimed(desk', e) = IF e = d THEN Claimed(desk, e) \ {c} ELSE Claimed(desk, e)
        BY <3>0, <2>1, <2>3, EditSessionAssumption DEF Claimed
      <4> QED BY <3>1, <4>1
    <3> HIDE DEF old, new
    <3>3. Lock!GiveUp(c, d)
      BY <1>1, <3>1, <3>2 DEF Lock!GiveUp
    <3>5. Lock!LNext
      BY <3>1, <3>3 DEF Lock!LNext
    <3> QED BY <3>5
  <2>4. CASE desk'[c].active # NoDoc /\ desk[c].active = NoDoc
    <3>0. PICK d \in Docs : d = desk'[c].active
      BY <1>2, <2>4
    <3>1. \A e \in Docs : c \notin old[e]
      BY <2>4, EditSessionAssumption DEF Claimed
    <3>2. new = [old EXCEPT ![d] = @ \cup {c}]
      <4>1. ASSUME NEW e \in Docs
            PROVE  Claimed(desk', e) = IF e = d THEN Claimed(desk, e) \cup {c} ELSE Claimed(desk, e)
        BY <3>0, <2>1, <2>4, EditSessionAssumption DEF Claimed
      <4> QED BY <3>1, <4>1
    <3>3. ASSUME NEW o \in old[d] PROVE OwnerOf[o] = OwnerOf[c]
      <4>1. o \in Clients /\ desk[o].active = d
        BY <3>1 DEF Claimed
      <4>2. desk'[o].active = d
        BY <2>1, <2>4, <4>1, EditSessionAssumption
      <4>3. Owned(o, d, locks') /\ Owned(c, d, locks')
        BY <3>0, <2>4, <4>1, <4>2 DEF HoldInv, Kept
      <4> QED BY <4>3 DEF Owned
    <3> HIDE DEF old, new
    <3>4. Lock!Take(c, d)
      BY <1>1, <3>1, <3>2, <3>3 DEF Lock!Take
    <3>5. Lock!LNext
      BY <3>1, <3>4 DEF Lock!LNext
    <3> QED BY <3>5
  <2> QED BY <2>1, <2>2, <2>3, <2>4
<1> QED BY <1>3, <1>4, StepMoves

\* Seen from the claims, the protocol is one lock per page that a desktop takes only
\* when no other user has it and that nobody else takes away, for any number of
\* desktops, pages and outstanding requests (BackendClient, LockService).
THEOREM PageLockCorrect == Steady /\ Spec => ImplementsPageLock
<1> DEFINE Inv == IInv /\ HoldInv /\ Steady
<1>1. Steady /\ Init => Inv /\ Lock!LInit
  BY InitLemma, HoldInit, LockInit
<1>2. Inv /\ [Next]_vars => Inv'
  BY NextLemma, HoldNext DEF Steady
<1>3. Inv /\ Inv' /\ [Next]_vars =>
        [Lock!LNext]_([d \in Docs |-> {c \in Clients : desk[c].active = d}])
  BY LockNext
<1> QED BY <1>1, <1>2, <1>3, PTL DEF Spec, ImplementsPageLock, Lock!LSpec

\* "Only one user can edit a document at the same time": two desktops that believe
\* to hold the lock of one page are of one user (ADR-003-collaboration-strategy.adoc).
THEOREM OneClaimCorrect == Steady /\ Spec => []OneClaim
<1> DEFINE Inv == IInv /\ HoldInv /\ Steady
<1>1. Steady /\ Init => Inv
  BY InitLemma, HoldInit
<1>2. Inv /\ [Next]_vars => Inv'
  BY NextLemma, HoldNext DEF Steady
<1>3. Inv => OneClaim
  BY ClaimsAgree DEF OneClaim
<1> QED BY <1>1, <1>2, <1>3, PTL DEF Spec
=============================================================================
