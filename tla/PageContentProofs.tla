-------------------------- MODULE PageContentProofs --------------------------
(***************************************************************************)
(* The contents of pages, in the editor and in the merge window.           *)
(*                                                                         *)
(* The web editor and the bridge agree when nothing is under way, and what *)
(* is overwritten is kept, for any pages, workspaces and number of signals *)
(* and calls under way, with every storage error.  Every message on the    *)
(* wire is about a page that is stored, so that what a save overwrites is a*)
(* text and can become a revision; and the messages on the way to the      *)
(* editor end in the state of the bridge.                                  *)
(*                                                                         *)
(* The merge window stores what it shows, for any two sides that are valid *)
(* pages and any choices: the blocks have a total order, so that sorting   *)
(* them neither loses nor repeats one.                                     *)
(***************************************************************************)
EXTENDS EditorBridge, ConflictMerge, SequenceTheorems, FiniteSetTheorems, TLAPS

-----------------------------------------------------------------------------
(* The editor.                                                              *)

\* The pages that are stored when the store holds table.
Stored(table) == {d \in Docs : table[d] # Absent}

\* The messages there can be if P are the pages that are stored.
Signals(P) ==
  [op : {"open"}, doc : P, text : {Absent}, editable : BOOLEAN]
    \cup [op : {"loaded"}, doc : P, text : Text, editable : BOOLEAN]
    \cup [op : {"access"}, doc : {NoDoc}, text : {Absent}, editable : BOOLEAN]
    \cup [op : {"cleared"}, doc : {NoDoc}, text : {Absent}, editable : {TRUE}]

Calls(P) ==
  [op : {"save"}, doc : P, text : Text, then : P \cup {NoDoc}]
    \cup [op : {"open"}, doc : P, text : {Absent}, then : {NoDoc}]

\* The store and the three parties keep to the pages of P.
StoreOK ==
  /\ content \in [Docs -> Text \cup {Absent}]
  /\ revs \in [Docs -> Seq(Text)]
  /\ conflicts \subseteq Docs
  /\ stash \in [Docs -> {"none", "stashed", "taken", "saved"}]
  /\ texts \in 0 .. MaxTexts /\ faults \in 0 .. MaxFaults

PageOK(P, g) == g \in [selected : P \cup {NoDoc}, ask : BOOLEAN] /\ (g.ask => g.selected # NoDoc)

BridgeOK(P, b) ==
  b \in [ws : Workspaces, current : P \cup {NoDoc}, editable : BOOLEAN,
         conflict : BOOLEAN, pending : BOOLEAN]

JsOK(P, k) ==
  /\ k \in [shown : P \cup {NoDoc}, text : Text \cup {Absent}, editable : BOOLEAN,
            timer : P \cup {NoDoc}]
  /\ k.text = Absent => k.shown = NoDoc /\ k.timer = NoDoc

WireOK(P, x) == x \in [toJs : Seq(Signals(P)), toCpp : Seq(Calls(P))]

PartiesOK(P, g, b, k, x) == PageOK(P, g) /\ BridgeOK(P, b) /\ JsOK(P, k) /\ WireOK(P, x)

\* The signals under way end in the page and the access of the bridge.
Shows == {"loaded", "cleared"}
Switches == {"loaded", "cleared", "access"}

NoneOf(w, ops) == \A i \in DOMAIN w : w[i].op \notin ops
LastOf(w, ops, i) ==
  i \in DOMAIN w /\ w[i].op \in ops /\ \A n \in DOMAIN w : n > i => w[n].op \notin ops

PageArrives(w, shown, current) ==
  \/ NoneOf(w, Shows) /\ shown = current
  \/ \E i \in DOMAIN w : LastOf(w, Shows, i) /\ w[i].doc = current

AccessArrives(w, held, editable) ==
  \/ NoneOf(w, Switches) /\ held = editable
  \/ \E i \in DOMAIN w : LastOf(w, Switches, i) /\ w[i].editable = editable

Arrives(w, k, b) == PageArrives(w, k.shown, b.current) /\ AccessArrives(w, k.editable, b.editable)

\* The revisions of a page grow past their bound only by failures.
PruneInv == \A d \in Docs : Len(revs[d]) <= Cap + faults

IInv ==
  /\ StoreOK /\ PruneInv
  /\ PartiesOK(Stored(content), page, bridge, js, wire)
  /\ Arrives(wire.toJs, js, bridge)

-----------------------------------------------------------------------------
(* Pages stay stored, so what was said of them stays true.                   *)

LEMMA MoreSignals ==
  ASSUME NEW P, NEW Q, P \subseteq Q
  PROVE  Signals(P) \subseteq Signals(Q) /\ Calls(P) \subseteq Calls(Q)
  BY DEF Signals, Calls

LEMMA MorePages ==
  ASSUME NEW P, NEW Q, P \subseteq Q, NEW g, NEW b, NEW k, NEW x, PartiesOK(P, g, b, k, x)
  PROVE  PartiesOK(Q, g, b, k, x)
<1>1. PageOK(Q, g) /\ BridgeOK(Q, b) /\ JsOK(Q, k)
  BY DEF PartiesOK, PageOK, BridgeOK, JsOK
<1>2. x.toJs \in Seq(Signals(Q)) /\ x.toCpp \in Seq(Calls(Q))
  BY MoreSignals, SeqMonotonic DEF PartiesOK, WireOK
<1> QED BY <1>1, <1>2 DEF PartiesOK, WireOK

\* The last message of a kind on a wire that grows at its end ...
LEMMA GrowLemma ==
  ASSUME NEW S, NEW w \in Seq(S), NEW s \in S, NEW ops
  PROVE  LET v == w \o <<s>>
         IN  /\ v \in Seq(S)
             /\ s.op \in ops => \E i \in DOMAIN v : LastOf(v, ops, i) /\ v[i] = s
             /\ s.op \notin ops =>
                  /\ NoneOf(w, ops) => NoneOf(v, ops)
                  /\ \A i \in DOMAIN w : LastOf(w, ops, i) => LastOf(v, ops, i) /\ v[i] = w[i]
<1> DEFINE v == Append(w, s)
<1>1. w \o <<s>> = v
  BY AppendIsConcat
<1>2. /\ v \in Seq(S) /\ Len(w) \in Nat /\ DOMAIN w = 1 .. Len(w) /\ DOMAIN v = 1 .. (Len(w) + 1)
      /\ \A i \in 1 .. Len(w) : v[i] = w[i]
      /\ v[Len(w) + 1] = s
  BY AppendProperties, LenProperties
<1> HIDE DEF v
<1>3. ASSUME s.op \in ops PROVE \E i \in DOMAIN v : LastOf(v, ops, i) /\ v[i] = s
  <2>1. LastOf(v, ops, Len(w) + 1)
    BY <1>2, <1>3 DEF LastOf
  <2> QED BY <1>2, <2>1
<1>4. ASSUME s.op \notin ops
      PROVE  /\ NoneOf(w, ops) => NoneOf(v, ops)
             /\ \A i \in DOMAIN w : LastOf(w, ops, i) => LastOf(v, ops, i) /\ v[i] = w[i]
  <2>1. \A i \in DOMAIN v : i \in DOMAIN w \/ v[i] = s
    BY <1>2
  <2> QED BY <1>2, <1>4, <2>1 DEF NoneOf, LastOf
<1> QED BY <1>1, <1>2, <1>3, <1>4

\* ... and loses its head.
LEMMA HandleLemma ==
  ASSUME NEW S, NEW w \in Seq(S), w # <<>>, NEW ops
  PROVE  /\ Head(w) \in S /\ Tail(w) \in Seq(S)
         /\ NoneOf(w, ops) => NoneOf(Tail(w), ops) /\ Head(w).op \notin ops
         /\ \A i \in DOMAIN w : LastOf(w, ops, i) =>
              \/ NoneOf(Tail(w), ops) /\ w[i] = Head(w)
              \/ \E n \in DOMAIN Tail(w) : LastOf(Tail(w), ops, n) /\ Tail(w)[n] = w[i]
<1> DEFINE t == Tail(w)
<1>1. /\ Head(w) \in S /\ t \in Seq(S) /\ Len(t) = Len(w) - 1
      /\ \A i \in 1 .. Len(t) : t[i] = w[i + 1]
  BY HeadTailProperties
<1>2. Len(w) \in Nat \ {0} /\ DOMAIN w = 1 .. Len(w) /\ DOMAIN t = 1 .. Len(t) /\ Head(w) = w[1]
  BY <1>1, LenProperties, EmptySeq
<1>3. PICK last \in Nat : DOMAIN t = 1 .. last /\ DOMAIN w = 1 .. (last + 1)
  <2>1. Len(w) - 1 \in Nat /\ Len(w) = Len(w) - 1 + 1
    BY <1>2
  <2> QED BY <1>1, <1>2, <2>1
<1> HIDE DEF t
<1>4. \A n \in DOMAIN t : n \in Nat /\ n + 1 \in DOMAIN w /\ t[n] = w[n + 1]
  <2>1. Len(t) = last
    BY <1>1, <1>2, <1>3
  <2> QED BY <1>1, <1>3, <2>1
<1>5. NoneOf(w, ops) => NoneOf(t, ops) /\ Head(w).op \notin ops
  <2>1. 1 \in DOMAIN w
    BY <1>3
  <2> QED BY <1>2, <1>4, <2>1 DEF NoneOf
<1>6. ASSUME NEW i \in DOMAIN w, LastOf(w, ops, i)
      PROVE  \/ NoneOf(t, ops) /\ w[i] = Head(w)
             \/ \E n \in DOMAIN t : LastOf(t, ops, n) /\ t[n] = w[i]
  <2>1. \A n \in DOMAIN t : n + 1 > i => t[n].op \notin ops
    BY <1>4, <1>6 DEF LastOf
  <2>2. CASE i = 1
    <3>1. \A n \in DOMAIN t : n + 1 > i
      BY <1>3, <2>2
    <3> QED BY <1>2, <2>1, <2>2, <3>1 DEF NoneOf
  <2>3. CASE i # 1
    <3>1. PICK m \in Nat : m + 1 = i /\ m \in 1 .. last
      <4>1. i - 1 \in Nat /\ i - 1 + 1 = i /\ i - 1 \in 1 .. last
        BY <1>3, <2>3
      <4> QED BY <4>1
    <3>2. m \in DOMAIN t /\ t[m] = w[i]
      BY <1>3, <1>4, <3>1
    <3>3. \A n \in DOMAIN t : n > m => n + 1 > i
      BY <1>3, <3>1
    <3>4. LastOf(t, ops, m)
      BY <1>6, <2>1, <3>2, <3>3 DEF LastOf
    <3> QED BY <3>2, <3>4
  <2> QED BY <2>2, <2>3
<1> QED BY <1>1, <1>5, <1>6 DEF t

LEMMA SignalLemma ==
  ASSUME NEW P, NEW x, WireOK(P, x), NEW s \in Signals(P), NEW k, NEW a, NEW b,
         \/ /\ s.op = "open" /\ Arrives(x.toJs, k, a)
            /\ b.current = a.current /\ b.editable = a.editable
         \/ /\ s.op = "access" /\ Arrives(x.toJs, k, a)
            /\ b.current = a.current /\ b.editable = s.editable
         \/ s.op \in Shows /\ b.current = s.doc /\ b.editable = s.editable
  PROVE  x.toJs \o <<s>> \in Seq(Signals(P)) /\ Arrives(x.toJs \o <<s>>, k, b)
<1> DEFINE w == x.toJs
           v == w \o <<s>>
<1>1. w \in Seq(Signals(P)) /\ x.toCpp \in Seq(Calls(P))
  BY DEF WireOK
<1>2. \A ops :
        /\ v \in Seq(Signals(P))
        /\ s.op \in ops => \E i \in DOMAIN v : LastOf(v, ops, i) /\ v[i] = s
        /\ s.op \notin ops =>
             /\ NoneOf(w, ops) => NoneOf(v, ops)
             /\ \A i \in DOMAIN w : LastOf(w, ops, i) => LastOf(v, ops, i) /\ v[i] = w[i]
  BY <1>1, GrowLemma
<1> HIDE DEF v
<1>3. v \in Seq(Signals(P))
  BY <1>2
<1>4. /\ s.op \notin Shows => \A shown, current : PageArrives(w, shown, current) => PageArrives(v, shown, current)
      /\ s.op \notin Switches => \A held, e : AccessArrives(w, held, e) => AccessArrives(v, held, e)
      /\ s.op \in Shows => \A shown : PageArrives(v, shown, s.doc)
      /\ s.op \in Switches => \A held : AccessArrives(v, held, s.editable)
  <2>1. ASSUME NEW ops, s.op \notin ops
        PROVE  /\ NoneOf(w, ops) => NoneOf(v, ops)
               /\ \A i \in DOMAIN w : LastOf(w, ops, i) => i \in DOMAIN v /\ LastOf(v, ops, i) /\ v[i] = w[i]
    BY <1>2, <2>1 DEF LastOf
  <2>2. ASSUME NEW ops, s.op \in ops PROVE \E i \in DOMAIN v : LastOf(v, ops, i) /\ v[i] = s
    BY <1>2, <2>2
  <2>3. ASSUME s.op \notin Shows, NEW shown, NEW current, PageArrives(w, shown, current)
        PROVE  PageArrives(v, shown, current)
    BY <2>1, <2>3 DEF PageArrives
  <2>4. ASSUME s.op \notin Switches, NEW held, NEW e, AccessArrives(w, held, e)
        PROVE  AccessArrives(v, held, e)
    BY <2>1, <2>4 DEF AccessArrives
  <2>5. ASSUME s.op \in Shows, NEW shown PROVE PageArrives(v, shown, s.doc)
    BY <2>2, <2>5 DEF PageArrives
  <2>6. ASSUME s.op \in Switches, NEW held PROVE AccessArrives(v, held, s.editable)
    BY <2>2, <2>6 DEF AccessArrives
  <2> QED BY <2>3, <2>4, <2>5, <2>6
<1>5. Arrives(v, k, b)
  BY <1>4 DEF Arrives, Shows, Switches
<1> QED BY <1>3, <1>5 DEF v

LEMMA EmitLemma ==
  ASSUME NEW P, NEW x, WireOK(P, x), NEW s \in Signals(P), NEW k, NEW a, NEW b,
         \/ /\ s.op = "open" /\ Arrives(x.toJs, k, a)
            /\ b.current = a.current /\ b.editable = a.editable
         \/ /\ s.op = "access" /\ Arrives(x.toJs, k, a)
            /\ b.current = a.current /\ b.editable = s.editable
         \/ s.op \in Shows /\ b.current = s.doc /\ b.editable = s.editable
  PROVE  LET y == [x EXCEPT !.toJs = @ \o <<s>>]
         IN  WireOK(P, y) /\ Arrives(y.toJs, k, b)
<1>1. x.toJs \o <<s>> \in Seq(Signals(P)) /\ Arrives(x.toJs \o <<s>>, k, b)
  BY SignalLemma
<1> QED BY <1>1 DEF WireOK

\* The editor takes a signal: it sets its page and its access to those of the
\* signal, if the signal is about them.
LEMMA TakeLemma ==
  ASSUME NEW P, NEW x, WireOK(P, x), x.toJs # <<>>, NEW k, NEW j, NEW b, Arrives(x.toJs, k, b),
         j.shown = IF Head(x.toJs).op \in Shows THEN Head(x.toJs).doc ELSE k.shown,
         j.editable = IF Head(x.toJs).op \in Switches THEN Head(x.toJs).editable ELSE k.editable
  PROVE  /\ Head(x.toJs) \in Signals(P) /\ Tail(x.toJs) \in Seq(Signals(P))
         /\ Arrives(Tail(x.toJs), j, b)
<1> DEFINE w == x.toJs
           t == Tail(w)
<1>1. w \in Seq(Signals(P))
  BY DEF WireOK
<1>2. \A ops :
        /\ Head(w) \in Signals(P) /\ t \in Seq(Signals(P))
        /\ NoneOf(w, ops) => NoneOf(t, ops) /\ Head(w).op \notin ops
        /\ \A i \in DOMAIN w : LastOf(w, ops, i) =>
             \/ NoneOf(t, ops) /\ w[i] = Head(w)
             \/ \E n \in DOMAIN t : LastOf(t, ops, n) /\ t[n] = w[i]
  BY <1>1, HandleLemma
<1> HIDE DEF t
<1>3. PageArrives(t, j.shown, b.current)
  <2>1. CASE NoneOf(w, Shows) /\ k.shown = b.current
    BY <1>2, <2>1 DEF PageArrives
  <2>2. ASSUME NEW i \in DOMAIN w, LastOf(w, Shows, i), w[i].doc = b.current
        PROVE  PageArrives(t, j.shown, b.current)
    <3>1. w[i].op \in Shows
      BY <2>2 DEF LastOf
    <3>2. \/ NoneOf(t, Shows) /\ w[i] = Head(w)
          \/ \E n \in DOMAIN t : LastOf(t, Shows, n) /\ t[n] = w[i]
      BY <1>2, <2>2
    <3> QED BY <2>2, <3>1, <3>2 DEF PageArrives
  <2> QED BY <2>1, <2>2 DEF Arrives, PageArrives
<1>4. AccessArrives(t, j.editable, b.editable)
  <2>1. CASE NoneOf(w, Switches) /\ k.editable = b.editable
    BY <1>2, <2>1 DEF AccessArrives
  <2>2. ASSUME NEW i \in DOMAIN w, LastOf(w, Switches, i), w[i].editable = b.editable
        PROVE  AccessArrives(t, j.editable, b.editable)
    <3>1. w[i].op \in Switches
      BY <2>2 DEF LastOf
    <3>2. \/ NoneOf(t, Switches) /\ w[i] = Head(w)
          \/ \E n \in DOMAIN t : LastOf(t, Switches, n) /\ t[n] = w[i]
      BY <1>2, <2>2
    <3> QED BY <2>2, <3>1, <3>2 DEF AccessArrives
  <2> QED BY <2>1, <2>2 DEF Arrives, AccessArrives
<1> QED BY <1>2, <1>3, <1>4 DEF Arrives, t

-----------------------------------------------------------------------------
(* The shell page.                                                          *)

LEMMA ActivateLemma ==
  ASSUME NEW Q, PartiesOK(Q, page, bridge, js, wire), Arrives(wire.toJs, js, bridge),
         NEW w \in Workspaces, NEW g, PageOK(Q, g), Activate(w, g)
  PROVE  PartiesOK(Q, page', bridge', js, wire') /\ Arrives(wire'.toJs, js, bridge')
<1>1. CASE page' = g /\ bridge' = bridge /\ wire' = wire
  BY <1>1 DEF PartiesOK
<1>2. CASE /\ page' = g /\ bridge' = [ClearCurrentDocumentSelection(bridge) EXCEPT !.ws = w]
           /\ Emit(<<ClearedSignal>>)
  <2>1. ClearedSignal \in Signals(Q) /\ ClearedSignal.op = "cleared"
        /\ ClearedSignal.doc = NoDoc /\ ClearedSignal.editable = TRUE
    BY DEF ClearedSignal, Signals
  <2>2. BridgeOK(Q, bridge') /\ bridge'.current = NoDoc /\ bridge'.editable = TRUE
    BY <1>2 DEF PartiesOK, BridgeOK, ClearCurrentDocumentSelection
  <2>3. wire' = [wire EXCEPT !.toJs = @ \o <<ClearedSignal>>]
    BY <1>2 DEF Emit
  <2>4. WireOK(Q, wire') /\ Arrives(wire'.toJs, js, bridge')
    BY <2>1, <2>2, <2>3, EmitLemma DEF PartiesOK, Shows
  <2> QED BY <1>2, <2>2, <2>4 DEF PartiesOK
<1> QED BY <1>1, <1>2 DEF Activate

\* What an action that leaves the store alone has to show.
LEMMA PartiesStep ==
  ASSUME IInv, UNCHANGED <<store, texts, faults>>,
         PartiesOK(Stored(content), page', bridge', js', wire'), Arrives(wire'.toJs, js', bridge')
  PROVE  IInv'
  BY DEF IInv, StoreOK, PruneInv, store

LEMMA SelectStep ==
  ASSUME IInv, \/ \E d \in Docs : SelectDocument(d)
               \/ \E w \in Workspaces : SelectWorkspace(w)
               \/ \E e \in BOOLEAN : ViewAnswered(e) \/ SetCurrentDocumentAccess(e)
  PROVE  IInv'
<1> DEFINE P == Stored(content)
<1>1. /\ PartiesOK(P, page, bridge, js, wire) /\ Arrives(wire.toJs, js, bridge)
      /\ UNCHANGED <<store, texts, faults>> /\ js' = js
  BY DEF IInv, SelectDocument, SelectWorkspace, ViewAnswered, SetCurrentDocumentAccess
<1>2. ASSUME NEW d \in Docs, SelectDocument(d) PROVE IInv'
  <2>1. PageOK(P, OpenDocumentWithAccess(d)) /\ WsOf[d] \in Workspaces
    BY <1>2, EditorBridgeAssumption DEF SelectDocument, Stored, PageOK, OpenDocumentWithAccess
  <2>2. Activate(WsOf[d], OpenDocumentWithAccess(d))
    BY <1>2 DEF SelectDocument
  <2> HIDE DEF P
  <2> QED BY <1>1, <2>1, <2>2, ActivateLemma, PartiesStep DEF P
<1>3. ASSUME NEW w \in Workspaces, SelectWorkspace(w) PROVE IInv'
  <2> DEFINE g == [selected |-> NoDoc, ask |-> FALSE]
  <2>1. PageOK(P, g) /\ Activate(w, g)
    BY <1>3 DEF SelectWorkspace, PageOK
  <2> HIDE DEF P, g
  <2> QED BY <1>1, <2>1, ActivateLemma, PartiesStep DEF P
<1>4. ASSUME NEW e \in BOOLEAN, ViewAnswered(e) PROVE IInv'
  <2> DEFINE s == OpenSignal(page.selected)
  <2>1. PageOK(P, page') /\ BridgeOK(P, bridge') /\ page.selected \in P
        /\ bridge'.current = bridge.current /\ bridge'.editable = bridge.editable
    BY <1>1, <1>4 DEF ViewAnswered, PartiesOK, PageOK, BridgeOK
  <2>2. wire' = [wire EXCEPT !.toJs = @ \o <<s>>]
    BY <1>4 DEF ViewAnswered, Emit
  <2> HIDE DEF P
  <2>3. s \in Signals(P) /\ s.op = "open"
    BY <2>1 DEF OpenSignal, Signals
  <2> HIDE DEF s
  <2>4. WireOK(P, wire') /\ Arrives(wire'.toJs, js, bridge')
    BY <1>1, <2>1, <2>2, <2>3, EmitLemma DEF PartiesOK
  <2> QED BY <1>1, <2>1, <2>4, PartiesStep DEF PartiesOK, P
<1>5. ASSUME NEW e \in BOOLEAN, SetCurrentDocumentAccess(e) PROVE IInv'
  <2> DEFINE s == AccessSignal(e)
  <2>1. PageOK(P, page') /\ BridgeOK(P, bridge')
        /\ bridge'.current = bridge.current /\ bridge'.editable = e
    BY <1>1, <1>5 DEF SetCurrentDocumentAccess, PartiesOK, PageOK, BridgeOK
  <2>2. wire' = [wire EXCEPT !.toJs = @ \o <<s>>]
    BY <1>5 DEF SetCurrentDocumentAccess, Emit
  <2> HIDE DEF P
  <2>3. s \in Signals(P) /\ s.op = "access" /\ s.editable = e
    BY DEF AccessSignal, Signals
  <2> HIDE DEF s
  <2>4. WireOK(P, wire') /\ Arrives(wire'.toJs, js, bridge')
    BY <1>1, <2>1, <2>2, <2>3, EmitLemma DEF PartiesOK
  <2> QED BY <1>1, <2>1, <2>4, PartiesStep DEF PartiesOK, P
<1> QED BY <1>2, <1>3, <1>4, <1>5

-----------------------------------------------------------------------------
(* Revisions.                                                               *)

\* The text that is overwritten becomes the newest revision; the list is cut to
\* its bound unless the storage fails.
LEMMA RecordLemma ==
  ASSUME StoreOK, PruneInv, NEW d \in Stored(content), NEW t, RecordDocumentRevision(d, t)
  PROVE  /\ revs' \in [Docs -> Seq(Text)] /\ faults' \in 0 .. MaxFaults
         /\ faults' >= faults
         /\ \A e \in Docs : Len(revs'[e]) <= Cap + faults'
         /\ faults' = faults => revs'[d] # <<>> /\ Head(revs'[d]) = content[d]
<1> DEFINE c == content[d]
           r == revs[d]
           all == <<c>> \o r
           n == IF Len(all) < Cap THEN Len(all) ELSE Cap
           cut == SubSeq(all, 1, n)
<1>1. d \in Docs /\ c \in Text /\ r \in Seq(Text) /\ revs \in [Docs -> Seq(Text)]
  BY DEF StoreOK, Stored
<1>2. /\ Cap \in Nat /\ Cap > 0 /\ MaxFaults \in Nat /\ faults \in Nat /\ faults <= MaxFaults
      /\ \A e \in Docs : Len(revs[e]) \in Nat
  <2>1. \A e \in Docs : revs[e] \in Seq(Text)
    BY <1>1
  <2> QED BY <2>1, EditorBridgeAssumption, LenProperties DEF StoreOK
<1>3. Len(r) \in Nat /\ Len(r) <= Cap + faults
  BY <1>1, <1>2 DEF PruneInv
<1>4. RecordDocumentRevision(d, t) <=>
        \/ revs' = [revs EXCEPT ![d] = cut] /\ UNCHANGED faults
        \/ Fault /\ \E q \in {r, all} : revs' = [revs EXCEPT ![d] = q]
  BY DEF RecordDocumentRevision
<1> HIDE DEF c, r
<1>5. all \in Seq(Text) /\ Len(all) = 1 + Len(r) /\ all[1] = c
  <2>1. <<c>> \in Seq(Text) /\ Len(<<c>>) = 1 /\ <<c>>[1] = c
    BY <1>1
  <2>2. /\ all \in Seq(Text) /\ Len(all) = Len(<<c>>) + Len(r)
        /\ \A i \in 1 .. Len(<<c>>) + Len(r) : all[i] = IF i <= Len(<<c>>) THEN <<c>>[i] ELSE r[i - Len(<<c>>)]
    BY <1>1, <2>1, ConcatProperties
  <2> HIDE DEF all
  <2> QED BY <1>3, <2>1, <2>2
<1> HIDE DEF all
<1>6. n \in 1 .. Len(all) /\ n <= Cap /\ 1 \in 1 .. Len(all)
  BY <1>2, <1>3, <1>5
<1> HIDE DEF n
<1>7. cut \in Seq(Text) /\ Len(cut) = n /\ Head(cut) = c
  <2>1. \A i \in 1 .. n : all[i] \in Text
    <3>1. \A i \in 1 .. n : i \in 1 .. Len(all)
      BY <1>2, <1>3, <1>5, <1>6
    <3> QED BY <1>5, <3>1, ElementOfSeq
  <2>2. n \in Int /\ 1 \in Int /\ 1 <= n /\ n \in 1 .. Len(all)
    BY <1>3, <1>5, <1>6
  <2>3. cut \in Seq(Text) /\ Len(cut) = IF 1 <= n THEN n - 1 + 1 ELSE 0
    BY <2>1, <2>2, SubSeqProperties
  <2>4. Head(cut) = all[1]
    BY <1>5, <1>6, <2>2, HeadTailOfSubSeq
  <2> QED BY <1>5, <2>2, <2>3, <2>4
<1>8. cut # <<>>
  BY <1>6, <1>7, EmptySeq
<1> HIDE DEF cut
<1>9. CASE revs' = [revs EXCEPT ![d] = cut] /\ UNCHANGED faults
  <2>1. revs' \in [Docs -> Seq(Text)] /\ revs'[d] = cut
        /\ \A e \in Docs : e # d => revs'[e] = revs[e]
    BY <1>1, <1>7, <1>9
  <2>2. ASSUME NEW e \in Docs PROVE Len(revs'[e]) <= Cap + faults
    <3>1. CASE e = d
      BY <1>2, <1>3, <1>5, <1>6, <1>7, <2>1, <3>1
    <3>2. CASE e # d
      BY <2>1, <3>2 DEF PruneInv
    <3> QED BY <3>1, <3>2
  <2> QED BY <1>1, <1>2, <1>7, <1>8, <1>9, <2>1, <2>2 DEF c
<1>10. ASSUME Fault, NEW q \in {r, all}, revs' = [revs EXCEPT ![d] = q]
       PROVE  /\ revs' \in [Docs -> Seq(Text)] /\ faults' = faults + 1 /\ faults' \in 0 .. MaxFaults
              /\ \A e \in Docs : Len(revs'[e]) <= Cap + faults'
  <2>1. faults' = faults + 1 /\ faults' \in 0 .. MaxFaults
    BY <1>2, <1>10 DEF Fault
  <2>2. q \in Seq(Text) /\ Len(q) \in Nat /\ Len(q) <= Cap + faults + 1
    BY <1>1, <1>2, <1>3, <1>5, <1>10
  <2>3. revs' \in [Docs -> Seq(Text)] /\ revs'[d] = q
        /\ \A e \in Docs : e # d => revs'[e] = revs[e]
    BY <1>1, <1>10, <2>2
  <2>4. ASSUME NEW e \in Docs PROVE Len(revs'[e]) <= Cap + faults'
    <3>1. CASE e = d
      BY <1>2, <2>1, <2>2, <2>3, <3>1
    <3>2. CASE e # d
      BY <1>2, <2>1, <2>3, <3>2 DEF PruneInv
    <3> QED BY <3>1, <3>2
  <2> QED BY <2>1, <2>3, <2>4
<1> QED BY <1>2, <1>4, <1>9, <1>10

-----------------------------------------------------------------------------
(* The store.                                                               *)

\* A text is stored: the page is among the pages stored, and those there were are.
LEMMA WriteLemma ==
  ASSUME StoreOK, NEW d \in Docs, NEW t \in Text, content' = [content EXCEPT ![d] = t]
  PROVE  /\ content' \in [Docs -> Text \cup {Absent}]
         /\ Stored(content) \subseteq Stored(content') /\ d \in Stored(content')
<1>1. t # Absent
  BY EditorBridgeAssumption DEF Text
<1>2. content' \in [Docs -> Text \cup {Absent}] /\ content'[d] = t
      /\ \A e \in Docs : e # d => content'[e] = content[e]
  BY DEF StoreOK
<1> QED BY <1>1, <1>2 DEF Stored

LEMMA TextLemma ==
  ASSUME StoreOK, NEW d \in Docs
  PROVE  <<d, 0>> \in Text /\ (Write => Fresh(d) \in Text /\ texts' \in 0 .. MaxTexts)
  BY EditorBridgeAssumption DEF StoreOK, Text, Fresh, Write

LEMMA CreateStep ==
  ASSUME IInv, NEW d \in Docs, CreateDocument(d)
  PROVE  IInv'
<1> DEFINE Q == Stored(content')
<1>1. PICK t \in Text : content' = [content EXCEPT ![d] = t]
  BY TextLemma DEF CreateDocument, IInv
<1>2. content' \in [Docs -> Text \cup {Absent}] /\ Stored(content) \subseteq Q /\ d \in Q
  BY <1>1, WriteLemma DEF IInv
<1>3. StoreOK' /\ PruneInv'
  <2>1. revs' = revs /\ conflicts' = conflicts
    BY DEF CreateDocument
  <2>2. texts' \in 0 .. MaxTexts
    BY TextLemma DEF CreateDocument, IInv, StoreOK
  <2>3. faults' \in 0 .. MaxFaults /\ faults' >= faults
    BY EditorBridgeAssumption DEF CreateDocument, IInv, StoreOK, Fault
  <2>4. stash' \in [Docs -> {"none", "stashed", "taken", "saved"}]
    BY DEF CreateDocument, IInv, StoreOK
  <2>5. PruneInv'
    <3>1. \A e \in Docs : Len(revs[e]) \in Nat /\ Len(revs[e]) <= Cap + faults
      BY LenProperties DEF IInv, StoreOK, PruneInv
    <3> QED BY <2>1, <2>3, <3>1, EditorBridgeAssumption DEF PruneInv, IInv, StoreOK
  <2> QED BY <1>2, <2>1, <2>2, <2>3, <2>4, <2>5 DEF StoreOK, IInv
<1>4. js' = js
  BY DEF CreateDocument
<1>5. PartiesOK(Q, page, bridge, js, wire) /\ Arrives(wire.toJs, js, bridge)
  <2> HIDE DEF Q
  <2> QED BY <1>2, MorePages DEF IInv
<1>6. PartiesOK(Q, page', bridge', js, wire') /\ Arrives(wire'.toJs, js, bridge')
  <2>1. CASE UNCHANGED <<page, bridge, wire>>
    BY <1>5, <2>1
  <2>2. CASE Activate(WsOf[d], OpenDocumentWithAccess(d))
    <3>1. WsOf[d] \in Workspaces /\ PageOK(Q, OpenDocumentWithAccess(d))
      BY <1>2, EditorBridgeAssumption DEF PageOK, OpenDocumentWithAccess
    <3> HIDE DEF Q
    <3> QED BY <1>5, <2>2, <3>1, ActivateLemma
  <2> QED BY <2>1, <2>2 DEF CreateDocument
<1> QED BY <1>3, <1>4, <1>6 DEF IInv

\* What an action that leaves the parties alone has to show.
LEMMA StoreStep ==
  ASSUME IInv, StoreOK', PruneInv', Stored(content) \subseteq Stored(content'),
         PartiesOK(Stored(content), page', bridge', js', wire'), Arrives(wire'.toJs, js', bridge')
  PROVE  IInv'
<1> DEFINE P == Stored(content)
           Q == Stored(content')
<1>1. P \subseteq Q /\ PartiesOK(P, page', bridge', js', wire')
  OBVIOUS
<1> HIDE DEF P, Q
<1>2. PartiesOK(Q, page', bridge', js', wire')
  BY <1>1, MorePages
<1> QED BY <1>2 DEF IInv, Q

LEMMA UpdateLemma ==
  ASSUME IInv, NEW d \in Docs, NEW t \in Text, UpdateSnapshot(d, t), UNCHANGED <<conflicts, texts>>
  PROVE  StoreOK' /\ PruneInv' /\ Stored(content) \subseteq Stored(content')
<1>1. CASE UNCHANGED <<content, stash, revs, faults>>
  BY <1>1 DEF IInv, StoreOK, PruneInv
<1>2. CASE Fault /\ UNCHANGED <<content, stash, revs>>
  <2>1. faults' \in 0 .. MaxFaults /\ faults' >= faults
    BY <1>2, EditorBridgeAssumption DEF IInv, StoreOK, Fault
  <2>2. \A e \in Docs : Len(revs[e]) \in Nat /\ Len(revs[e]) <= Cap + faults
    BY LenProperties DEF IInv, StoreOK, PruneInv
  <2>3. PruneInv'
    BY <1>2, <2>1, <2>2, EditorBridgeAssumption DEF PruneInv, IInv, StoreOK
  <2> QED BY <1>2, <2>1, <2>3 DEF IInv, StoreOK
<1>3. CASE /\ d = bridge.current /\ d # NoDoc
           /\ content' = [content EXCEPT ![d] = t]
           /\ stash' = [stash EXCEPT ![d] = IF @ = "taken" THEN "saved" ELSE @]
           /\ IF content[d] # t THEN RecordDocumentRevision(d, t) ELSE UNCHANGED <<revs, faults>>
  <2>1. content' \in [Docs -> Text \cup {Absent}] /\ Stored(content) \subseteq Stored(content')
    BY <1>3, WriteLemma DEF IInv
  <2>2. stash' \in [Docs -> {"none", "stashed", "taken", "saved"}]
    BY <1>3 DEF IInv, StoreOK
  <2>3. d \in Stored(content)
    BY <1>3 DEF IInv, PartiesOK, BridgeOK
  <2>4. revs' \in [Docs -> Seq(Text)] /\ faults' \in 0 .. MaxFaults /\ PruneInv'
    <3>1. CASE UNCHANGED <<revs, faults>>
      BY <3>1 DEF IInv, StoreOK, PruneInv
    <3>2. CASE RecordDocumentRevision(d, t)
      BY <2>3, <3>2, RecordLemma DEF IInv, PruneInv
    <3> QED BY <1>3, <3>1, <3>2
  <2> QED BY <2>1, <2>2, <2>4 DEF IInv, StoreOK
<1> QED BY <1>1, <1>2, <1>3 DEF UpdateSnapshot, Target

LEMMA SaveStep ==
  ASSUME IInv, SaveArrives
  PROVE  IInv'
<1> DEFINE P == Stored(content)
           c == Head(wire.toCpp)
           o == OpenCall(c.then)
<1>1. WireOK(P, wire) /\ wire.toCpp \in Seq(Calls(P)) /\ wire.toJs \in Seq(Signals(P))
      /\ wire.toCpp # <<>> /\ c.op = "save"
  BY DEF IInv, PartiesOK, WireOK, SaveArrives
<1>2. c \in Calls(P) /\ Tail(wire.toCpp) \in Seq(Calls(P))
  BY <1>1, HeadTailProperties
<1>3. /\ UpdateSnapshot(c.doc, c.text) /\ UNCHANGED <<conflicts, page, bridge, js, texts>>
      /\ wire' = [wire EXCEPT !.toCpp = IF c.then = NoDoc THEN Tail(@) ELSE Append(Tail(@), o)]
  BY DEF SaveArrives
<1> HIDE DEF c
<1>4. c.doc \in P /\ c.text \in Text /\ c.then \in P \cup {NoDoc}
  BY <1>1, <1>2 DEF Calls
<1>5. StoreOK' /\ PruneInv' /\ P \subseteq Stored(content')
  BY <1>3, <1>4, UpdateLemma DEF Stored
<1> HIDE DEF P
<1>6. c.then # NoDoc => o \in Calls(P)
  BY <1>4 DEF OpenCall, Calls
<1> HIDE DEF o
<1>7. wire'.toCpp \in Seq(Calls(P)) /\ wire' = [wire EXCEPT !.toCpp = wire'.toCpp]
  BY <1>1, <1>2, <1>3, <1>6, AppendProperties DEF WireOK
<1>8. WireOK(P, wire') /\ wire'.toJs = wire.toJs
  BY <1>1, <1>7 DEF WireOK
<1>9. PartiesOK(P, page', bridge', js', wire') /\ Arrives(wire'.toJs, js', bridge')
  BY <1>3, <1>8 DEF IInv, PartiesOK, P
<1> QED BY <1>5, <1>9, StoreStep DEF P

LEMMA OpenStep ==
  ASSUME IInv, OpenDocument
  PROVE  IInv'
<1> DEFINE P == Stored(content)
           d == Head(wire.toCpp).doc
           s == LoadedSignal(d, IF stash[d] = "stashed" THEN Imported(d) ELSE content[d], bridge.pending)
           x == [wire EXCEPT !.toCpp = Tail(@)]
<1>1. /\ PartiesOK(P, page, bridge, js, wire) /\ Arrives(wire.toJs, js, bridge)
      /\ UNCHANGED <<content, revs, conflicts, page, js, texts>>
  BY DEF IInv, OpenDocument
<1>2. wire.toCpp \in Seq(Calls(P)) /\ wire.toCpp # <<>> /\ Head(wire.toCpp).op = "open"
  BY <1>1 DEF PartiesOK, WireOK, OpenDocument
<1>3. Head(wire.toCpp) \in Calls(P) /\ Tail(wire.toCpp) \in Seq(Calls(P))
  BY <1>2, HeadTailProperties
<1>4. d \in P /\ d \in Docs /\ content[d] \in Text /\ Imported(d) \in Text
  <2>1. d \in P
    BY <1>2, <1>3 DEF Calls
  <2> QED BY <2>1, EditorBridgeAssumption DEF Stored, IInv, StoreOK, Imported, Text
<1>5. WireOK(P, x) /\ x.toJs = wire.toJs
  BY <1>1, <1>3 DEF PartiesOK, WireOK
<1>6. CASE wire' = x /\ UNCHANGED <<bridge, stash, faults>>
  <2> HIDE DEF P, x
  <2>1. PartiesOK(P, page', bridge', js', wire') /\ Arrives(wire'.toJs, js', bridge')
    BY <1>1, <1>5, <1>6 DEF PartiesOK
  <2> QED BY <1>1, <1>6, <2>1, PartiesStep DEF P, store
<1>7. CASE /\ \E pending \in {conflicts, {}} :
                /\ bridge' = ApplyConflictStateForDocument(
                                [bridge EXCEPT !.current = d, !.editable = bridge.pending,
                                               !.conflict = FALSE], d, pending)
                /\ IF pending = conflicts THEN UNCHANGED faults ELSE Fault
           /\ stash' = [stash EXCEPT ![d] = IF @ = "stashed" THEN "taken" ELSE @]
           /\ wire' = [toCpp |-> Tail(wire.toCpp), toJs |-> wire.toJs \o <<s>>]
  <2>1. wire' = [toCpp |-> Tail(wire.toCpp), toJs |-> wire.toJs \o <<s>>]
    BY <1>7
  <2>2. bridge.pending \in BOOLEAN
    BY <1>1 DEF PartiesOK, BridgeOK
  <2> DEFINE b == [bridge EXCEPT !.current = d, !.editable = bridge.pending, !.conflict = FALSE]
  <2>3. BridgeOK(P, bridge') /\ bridge'.current = d /\ bridge'.editable = bridge.pending
    <3>1. BridgeOK(P, b) /\ b.current = d /\ b.editable = bridge.pending
      BY <1>1, <1>4, <2>2 DEF PartiesOK, BridgeOK
    <3>2. PICK pending \in {conflicts, {}} : bridge' = ApplyConflictStateForDocument(b, d, pending)
      BY <1>7
    <3> HIDE DEF b
    <3>3. bridge' = b \/ bridge' = [b EXCEPT !.conflict = d \in pending]
      BY <3>2 DEF ApplyConflictStateForDocument
    <3>4. (d \in pending) \in BOOLEAN
      OBVIOUS
    <3> DEFINE f == d \in pending
    <3> HIDE DEF f
    <3>5. f \in BOOLEAN
      BY <3>4 DEF f
    <3>6. bridge' = b \/ bridge' = [b EXCEPT !.conflict = f]
      BY <3>3 DEF f
    <3> HIDE DEF P, d
    <3> QED BY <3>1, <3>5, <3>6 DEF BridgeOK
  <2>4. StoreOK' /\ PruneInv'
    <3>1. faults' \in 0 .. MaxFaults /\ faults' >= faults
      BY <1>7, EditorBridgeAssumption DEF IInv, StoreOK, Fault
    <3>2. stash' \in [Docs -> {"none", "stashed", "taken", "saved"}]
      BY <1>4, <1>7 DEF IInv, StoreOK
    <3>3. \A e \in Docs : Len(revs[e]) \in Nat /\ Len(revs[e]) <= Cap + faults
      BY LenProperties DEF IInv, StoreOK, PruneInv
    <3>4. PruneInv'
      BY <1>1, <3>1, <3>3, EditorBridgeAssumption DEF PruneInv, IInv, StoreOK
    <3> QED BY <1>1, <3>1, <3>2, <3>4 DEF IInv, StoreOK
  <2>5. s \in Signals(P) /\ s.op = "loaded" /\ s.doc = d /\ s.editable = bridge.pending
    <3> HIDE DEF P, d
    <3> QED BY <1>4, <2>2 DEF LoadedSignal, Signals
  <2> HIDE DEF s, x, d, P
  <2>6. WireOK(P, wire') /\ Arrives(wire'.toJs, js, bridge')
    <3>1. /\ wire.toJs \o <<s>> \in Seq(Signals(P))
          /\ Arrives(wire.toJs \o <<s>>, js, bridge')
      BY <1>1, <2>3, <2>5, SignalLemma DEF PartiesOK, Shows
    <3> QED BY <1>3, <2>1, <3>1 DEF WireOK
  <2>7. PartiesOK(P, page', bridge', js', wire') /\ Arrives(wire'.toJs, js', bridge')
    BY <1>1, <2>3, <2>6 DEF PartiesOK
  <2> QED BY <1>1, <2>4, <2>7, StoreStep DEF P
<1> QED BY <1>6, <1>7 DEF OpenDocument

LEMMA RestoreStep ==
  ASSUME IInv, NEW d \in Docs, RestoreDocumentRevision(d)
  PROVE  IInv'
<1>1. d \in Stored(content) /\ UNCHANGED <<conflicts, stash, page, bridge, js, wire, texts>>
  BY DEF RestoreDocumentRevision, Stored
<1>2. PICK i \in DOMAIN revs[d] :
        /\ RecordDocumentRevision(d, revs[d][i])
        /\ \/ content' = [content EXCEPT ![d] = revs[d][i]]
           \/ faults < MaxFaults /\ faults' = faults + 1 /\ UNCHANGED content
  BY DEF RestoreDocumentRevision
<1>3. revs[d][i] \in Text
  <2>1. revs[d] \in Seq(Text)
    BY DEF IInv, StoreOK
  <2> QED BY <2>1, ElementOfSeq, LenProperties
<1>4. content' \in [Docs -> Text \cup {Absent}] /\ Stored(content) \subseteq Stored(content')
  <2>1. CASE content' = [content EXCEPT ![d] = revs[d][i]]
    BY <1>3, <2>1, WriteLemma DEF IInv
  <2>2. CASE UNCHANGED content
    BY <2>2 DEF IInv, StoreOK
  <2> QED BY <1>2, <2>1, <2>2
<1>5. revs' \in [Docs -> Seq(Text)] /\ faults' \in 0 .. MaxFaults /\ PruneInv'
  BY <1>1, <1>2, RecordLemma DEF IInv, PruneInv
<1> QED BY <1>1, <1>4, <1>5, StoreStep DEF IInv, StoreOK

LEMMA ConflictStep ==
  ASSUME IInv, NEW d \in Docs, ConflictDetected(d)
  PROVE  IInv'
<1>1. /\ conflicts' = conflicts \cup {d}
      /\ UNCHANGED <<content, revs, stash, page, bridge, js, wire, texts, faults>>
  BY DEF ConflictDetected
<1> QED BY <1>1, StoreStep DEF IInv, StoreOK, PruneInv

LEMMA ResolveStep ==
  ASSUME IInv, NEW d \in Docs, ApplyConflictResolution(d)
  PROVE  IInv'
<1> DEFINE P == Stored(content)
<1>1. UNCHANGED <<revs, stash, page, js, wire>> /\ PartiesOK(P, page, bridge, js, wire)
      /\ Arrives(wire.toJs, js, bridge)
  BY DEF ApplyConflictResolution, IInv
<1>2. /\ content' \in [Docs -> Text \cup {Absent}] /\ P \subseteq Stored(content')
      /\ texts' \in 0 .. MaxTexts
  <2>1. CASE content' = [content EXCEPT ![d] = Fresh(d)] /\ Write
    BY <2>1, TextLemma, WriteLemma DEF IInv
  <2>2. CASE UNCHANGED <<content, texts>>
    BY <2>2 DEF IInv, StoreOK
  <2> QED BY <2>1, <2>2 DEF ApplyConflictResolution
<1>3. faults' \in 0 .. MaxFaults /\ faults' >= faults
  BY EditorBridgeAssumption DEF ApplyConflictResolution, IInv, StoreOK, Fault
<1>4. PruneInv'
  <2>1. \A e \in Docs : Len(revs[e]) \in Nat /\ Len(revs[e]) <= Cap + faults
    BY LenProperties DEF IInv, StoreOK, PruneInv
  <2> QED BY <1>1, <1>3, <2>1, EditorBridgeAssumption DEF PruneInv, IInv, StoreOK
<1>5. StoreOK'
  BY <1>1, <1>2, <1>3 DEF IInv, StoreOK, ApplyConflictResolution
<1>6. BridgeOK(P, bridge') /\ bridge'.current = bridge.current /\ bridge'.editable = bridge.editable
  <2> DEFINE f == page.selected \in conflicts'
  <2>1. f \in BOOLEAN
    OBVIOUS
  <2>2. bridge' = bridge \/ bridge' = [bridge EXCEPT !.conflict = f]
    BY DEF ApplyConflictResolution, ApplyConflictStateForDocument
  <2> HIDE DEF P, f
  <2> QED BY <1>1, <2>1, <2>2 DEF PartiesOK, BridgeOK
<1> HIDE DEF P
<1>7. PartiesOK(P, page', bridge', js', wire') /\ Arrives(wire'.toJs, js', bridge')
  BY <1>1, <1>6 DEF PartiesOK, Arrives
<1> QED BY <1>2, <1>4, <1>5, <1>7, StoreStep DEF P

-----------------------------------------------------------------------------
(* The web editor.                                                          *)

LEMMA CallLemma ==
  ASSUME NEW P, NEW x, WireOK(P, x), NEW c \in Calls(P)
  PROVE  x.toCpp \o <<c>> \in Seq(Calls(P)) /\ x.toCpp \o <<>> = x.toCpp
<1>1. x.toCpp \in Seq(Calls(P))
  BY DEF WireOK
<1> QED BY <1>1, GrowLemma, ConcatEmptySeq

LEMMA TypingStep ==
  ASSUME IInv, Type \/ SaveTimer
  PROVE  IInv'
<1> DEFINE P == Stored(content)
<1>1. PartiesOK(P, page, bridge, js, wire) /\ Arrives(wire.toJs, js, bridge)
      /\ UNCHANGED <<store, page, bridge, faults>> /\ P \subseteq Docs
  BY DEF IInv, Type, SaveTimer, Stored
<1>2. CASE Type
  <2>1. /\ js.shown \in P /\ js.shown # NoDoc /\ wire' = wire
        /\ js' = [js EXCEPT !.text = Fresh(js.shown), !.timer = js.shown]
    BY <1>1, <1>2 DEF Type, PartiesOK, JsOK
  <2>2. Fresh(js.shown) \in Text /\ texts' \in 0 .. MaxTexts
    BY <1>1, <1>2, <2>1, TextLemma DEF Type, IInv
  <2>3. Fresh(js.shown) # Absent
    BY <2>2, EditorBridgeAssumption DEF Text
  <2>4. StoreOK' /\ PruneInv' /\ content' = content
    BY <1>1, <2>2 DEF IInv, StoreOK, PruneInv, store
  <2> HIDE DEF P
  <2>5. JsOK(P, js') /\ js'.shown = js.shown /\ js'.editable = js.editable
    BY <1>1, <2>1, <2>2, <2>3 DEF PartiesOK, JsOK
  <2>6. PartiesOK(P, page', bridge', js', wire') /\ Arrives(wire'.toJs, js', bridge')
    BY <1>1, <2>1, <2>5 DEF PartiesOK, Arrives
  <2> QED BY <2>4, <2>6, StoreStep DEF P
<1>3. CASE SaveTimer
  <2> DEFINE c == SaveCall(js.timer, js.text, NoDoc)
  <2>1. /\ js.timer \in P /\ js.timer # NoDoc /\ texts' = texts
        /\ js' = [js EXCEPT !.timer = NoDoc] /\ wire' = [wire EXCEPT !.toCpp = @ \o <<c>>]
    BY <1>1, <1>3 DEF SaveTimer, PartiesOK, JsOK, Call
  <2>2. js.text \in Text
    BY <1>1, <2>1 DEF PartiesOK, JsOK
  <2> HIDE DEF P
  <2>3. c \in Calls(P)
    BY <2>1, <2>2 DEF SaveCall, Calls
  <2> HIDE DEF c
  <2>4. WireOK(P, wire') /\ wire'.toJs = wire.toJs
    BY <1>1, <2>1, <2>3, CallLemma DEF PartiesOK, WireOK
  <2>5. JsOK(P, js') /\ js'.shown = js.shown /\ js'.editable = js.editable
    BY <1>1, <2>1 DEF PartiesOK, JsOK
  <2>6. PartiesOK(P, page', bridge', js', wire') /\ Arrives(wire'.toJs, js', bridge')
    BY <1>1, <2>4, <2>5 DEF PartiesOK, Arrives
  <2> QED BY <1>1, <2>1, <2>6, PartiesStep DEF P
<1> QED BY <1>2, <1>3

LEMMA SignalStep ==
  ASSUME IInv, SignalArrives
  PROVE  IInv'
<1> DEFINE P == Stored(content)
           s == Head(wire.toJs)
<1>1. PartiesOK(P, page, bridge, js, wire) /\ Arrives(wire.toJs, js, bridge)
      /\ UNCHANGED <<store, page, bridge, texts, faults>> /\ wire.toJs # <<>>
  BY DEF IInv, SignalArrives
<1>2. s \in Signals(P)
  <2>1. wire.toJs \in Seq(Signals(P))
    BY <1>1 DEF PartiesOK, WireOK
  <2> QED BY <1>1, <2>1, HeadTailProperties
<1>3. PICK calls \in {<<OpenCall(s.doc)>>, <<SaveCall(js.shown, js.text, s.doc)>>,
                      <<SaveCall(s.doc, s.text, NoDoc)>>, <<>>} :
        /\ wire' = [toJs |-> Tail(wire.toJs), toCpp |-> wire.toCpp \o calls]
        /\ \/ s.op = "open" /\ js.shown = NoDoc /\ calls = <<OpenCall(s.doc)>> /\ js' = js
           \/ /\ s.op = "open" /\ js.shown # NoDoc /\ calls = <<SaveCall(js.shown, js.text, s.doc)>>
              /\ js' = [js EXCEPT !.timer = NoDoc]
           \/ /\ s.op = "loaded"
              /\ js' = [js EXCEPT !.shown = s.doc, !.text = s.text, !.editable = s.editable]
              /\ calls \in {<<SaveCall(s.doc, s.text, NoDoc)>>, <<>>}
           \/ s.op = "access" /\ js' = [js EXCEPT !.editable = s.editable] /\ calls = <<>>
           \/ s.op = "cleared" /\ js' = [js EXCEPT !.shown = NoDoc, !.editable = TRUE] /\ calls = <<>>
  BY DEF SignalArrives
<1>4. JsOK(P, js) /\ Absent \notin Text
  BY <1>1, EditorBridgeAssumption DEF PartiesOK, Text
<1>5. JsOK(P, js')
  <2> HIDE DEF P, s
  <2> QED BY <1>2, <1>3, <1>4 DEF JsOK, Signals
<1>6. /\ js'.shown = IF s.op \in Shows THEN s.doc ELSE js.shown
      /\ js'.editable = IF s.op \in Switches THEN s.editable ELSE js.editable
  <2> HIDE DEF P, s
  <2> QED BY <1>2, <1>3, <1>4 DEF JsOK, Signals, Shows, Switches
<1>7. calls = <<>> \/ \E c \in Calls(P) : calls = <<c>>
  <2> HIDE DEF P, s
  <2>1. s.op = "open" => s.doc \in P
    BY <1>2 DEF Signals
  <2>2. s.op = "loaded" => s.doc \in P /\ s.text \in Text
    BY <1>2 DEF Signals
  <2>3. js.shown # NoDoc => js.shown \in P /\ js.text \in Text
    BY <1>4 DEF JsOK
  <2>4. s.op = "open" => OpenCall(s.doc) \in Calls(P)
    BY <2>1 DEF OpenCall, Calls
  <2>5. s.op = "open" /\ js.shown # NoDoc => SaveCall(js.shown, js.text, s.doc) \in Calls(P)
    BY <2>1, <2>3 DEF SaveCall, Calls
  <2>6. s.op = "loaded" => SaveCall(s.doc, s.text, NoDoc) \in Calls(P)
    BY <2>2 DEF SaveCall, Calls
  <2> QED BY <1>3, <2>4, <2>5, <2>6
<1> HIDE DEF P
<1>8. Tail(wire.toJs) \in Seq(Signals(P)) /\ Arrives(Tail(wire.toJs), js', bridge)
  BY <1>1, <1>6, TakeLemma DEF PartiesOK
<1>9. wire.toCpp \o calls \in Seq(Calls(P))
  <2>1. WireOK(P, wire) /\ wire.toCpp \in Seq(Calls(P))
    BY <1>1 DEF PartiesOK, WireOK
  <2> QED BY <1>7, <2>1, CallLemma, ConcatEmptySeq
<1>10. wire'.toJs = Tail(wire.toJs) /\ WireOK(P, wire')
  BY <1>3, <1>8, <1>9 DEF WireOK
<1>11. PartiesOK(P, page', bridge', js', wire') /\ Arrives(wire'.toJs, js', bridge')
  BY <1>1, <1>5, <1>8, <1>10 DEF PartiesOK
<1> QED BY <1>1, <1>11, PartiesStep DEF P

-----------------------------------------------------------------------------
(* The editor: theorems.                                                    *)

LEMMA InitStep ==
  ASSUME Init
  PROVE  IInv
<1>1. StoreOK /\ PruneInv
  <2>1. <<>> \in Seq(Text) /\ Len(<<>>) = 0
    BY EmptySeq
  <2> QED BY <2>1, EditorBridgeAssumption DEF Init, StoreOK, PruneInv
<1> DEFINE P == Stored(content)
<1>2. wire = [toJs |-> <<>>, toCpp |-> <<>>] /\ WireOK(P, wire)
  <2>1. <<>> \in Seq(Signals(P)) /\ <<>> \in Seq(Calls(P))
    BY EmptySeq
  <2> QED BY <2>1 DEF Init, WireOK
<1> HIDE DEF P
<1>3. PageOK(P, page) /\ BridgeOK(P, bridge) /\ JsOK(P, js)
  BY DEF Init, PageOK, BridgeOK, JsOK
<1>4. Arrives(wire.toJs, js, bridge)
  <2>1. NoneOf(wire.toJs, Shows) /\ NoneOf(wire.toJs, Switches)
    <3>1. wire.toJs = <<>> /\ \A i \in DOMAIN <<>> : FALSE
      BY <1>2
    <3> QED BY <3>1 DEF NoneOf
  <2> QED BY <2>1 DEF Init, Arrives, PageArrives, AccessArrives
<1> QED BY <1>1, <1>2, <1>3, <1>4 DEF IInv, PartiesOK, P

LEMMA NextStep ==
  ASSUME IInv, [Next]_vars
  PROVE  IInv'
<1>1. CASE UNCHANGED vars
  BY <1>1 DEF vars, IInv, StoreOK, PruneInv, PartiesOK
<1>2. CASE \/ \E d \in Docs : SelectDocument(d)
           \/ \E w \in Workspaces : SelectWorkspace(w)
           \/ \E e \in BOOLEAN : ViewAnswered(e) \/ SetCurrentDocumentAccess(e)
  BY <1>2, SelectStep
<1>3. CASE \E d \in Docs : CreateDocument(d)
  BY <1>3, CreateStep
<1>4. CASE SaveArrives
  BY <1>4, SaveStep
<1>5. CASE OpenDocument
  BY <1>5, OpenStep
<1>6. CASE \E d \in Docs : RestoreDocumentRevision(d)
  BY <1>6, RestoreStep
<1>7. CASE \E d \in Docs : ConflictDetected(d)
  BY <1>7, ConflictStep
<1>8. CASE \E d \in Docs : ApplyConflictResolution(d)
  BY <1>8, ResolveStep
<1>9. CASE Type \/ SaveTimer
  BY <1>9, TypingStep
<1>10. CASE SignalArrives
  BY <1>10, SignalStep
<1> QED BY <1>1, <1>2, <1>3, <1>4, <1>5, <1>6, <1>7, <1>8, <1>9, <1>10 DEF Next

LEMMA Invariant == Spec => []IInv
<1>1. Init => IInv
  BY InitStep
<1>2. IInv /\ [Next]_vars => IInv'
  BY NextStep
<1> QED BY <1>1, <1>2, PTL DEF Spec

LEMMA MessageTypes ==
  ASSUME NEW P, P \subseteq Docs
  PROVE  Signals(P) \subseteq Signal /\ Calls(P) \subseteq CallMsg
  BY DEF Signals, Calls, Signal, CallMsg

\* The variables keep their types: in particular every message is about a page
\* that is stored, so a save never records the mark of a page not created yet as
\* a revision (updateSnapshot, openDocument).
THEOREM TypeCorrect == Spec => []TypeOK
<1>1. IInv => TypeOK
  <2> SUFFICES ASSUME IInv PROVE TypeOK
    OBVIOUS
  <2> DEFINE P == Stored(content)
  <2>1. P \subseteq Docs /\ PageOK(P, page) /\ BridgeOK(P, bridge) /\ JsOK(P, js) /\ WireOK(P, wire)
    BY DEF IInv, PartiesOK, Stored
  <2> HIDE DEF P
  <2>2. Signals(P) \subseteq Signal /\ Calls(P) \subseteq CallMsg
    BY <2>1, MessageTypes
  <2>3. wire.toJs \in Seq(Signal) /\ wire.toCpp \in Seq(CallMsg)
    BY <2>1, <2>2, SeqMonotonic DEF WireOK
  <2>4. wire \in [toJs : Seq(Signal), toCpp : Seq(CallMsg)]
    BY <2>1, <2>3 DEF WireOK
  <2>5. page \in [selected : Docs \cup {NoDoc}, ask : BOOLEAN]
    BY <2>1 DEF PageOK
  <2>6. bridge \in [ws : Workspaces, current : Docs \cup {NoDoc}, editable : BOOLEAN,
                    conflict : BOOLEAN, pending : BOOLEAN]
    BY <2>1 DEF BridgeOK
  <2>7. js \in [shown : Docs \cup {NoDoc}, text : Text \cup {Absent}, editable : BOOLEAN,
                timer : Docs \cup {NoDoc}]
    BY <2>1 DEF JsOK
  <2> QED BY <2>4, <2>5, <2>6, <2>7 DEF TypeOK, IInv, StoreOK
<1> QED BY <1>1, Invariant, PTL

\* Whatever was selected, opened, answered and cleared in whatever order: when
\* nothing is under way the web editor shows the page the bridge takes for open,
\* with the access the bridge checks (openDocument, SetCurrentDocumentAccess,
\* ClearCurrentDocumentSelection against the signals they emit).
THEOREM AgreeCorrect == Spec => []EditorAgrees
<1>1. IInv => EditorAgrees
  <2> SUFFICES ASSUME IInv, wire.toJs = <<>>
               PROVE  js.shown = bridge.current /\ js.editable = bridge.editable
    BY DEF EditorAgrees
  <2>1. DOMAIN wire.toJs = {}
    OBVIOUS
  <2>2. PageArrives(wire.toJs, js.shown, bridge.current)
        /\ AccessArrives(wire.toJs, js.editable, bridge.editable)
    BY DEF IInv, Arrives
  <2> QED BY <2>1, <2>2 DEF PageArrives, AccessArrives
<1> QED BY <1>1, Invariant, PTL

\* The content of a stored page is overwritten by a save and by a restored
\* revision only, or by resolving its conflict.
LEMMA OverwriteLemma ==
  ASSUME IInv, Next, NEW d \in Docs, content[d] # Absent, content'[d] # content[d],
         conflicts' = conflicts, faults' = faults
  PROVE  revs'[d] # <<>> /\ Head(revs'[d]) = content[d]
<1>1. content \in [Docs -> Text \cup {Absent}] /\ content' # content /\ d \in Stored(content)
  BY DEF IInv, StoreOK, Stored
<1>2. CASE SaveArrives
  <2> DEFINE c == Head(wire.toCpp)
  <2>1. UpdateSnapshot(c.doc, c.text)
    BY <1>2 DEF SaveArrives
  <2>2. /\ content' = [content EXCEPT ![Target(c.doc)] = c.text]
        /\ content[Target(c.doc)] # c.text =>
             RecordDocumentRevision(Target(c.doc), c.text)
    BY <1>1, <2>1 DEF UpdateSnapshot
  <2>3. d = Target(c.doc) /\ content[d] # c.text
    BY <1>1, <2>2
  <2> QED BY <1>1, <2>2, <2>3, RecordLemma DEF IInv
<1>3. ASSUME NEW e \in Docs, RestoreDocumentRevision(e)
      PROVE  revs'[d] # <<>> /\ Head(revs'[d]) = content[d]
  <2>1. PICK i \in DOMAIN revs[e] :
          /\ RecordDocumentRevision(e, revs[e][i])
          /\ content' = [content EXCEPT ![e] = revs[e][i]] \/ content' = content
    BY <1>3 DEF RestoreDocumentRevision
  <2>2. d = e
    BY <1>1, <2>1
  <2> QED BY <1>1, <2>1, <2>2, RecordLemma DEF IInv
<1>4. ASSUME NEW e \in Docs, ApplyConflictResolution(e) PROVE FALSE
  <2>1. faults \in Nat
    BY EditorBridgeAssumption DEF IInv, StoreOK
  <2> QED BY <1>4, <2>1 DEF ApplyConflictResolution, Fault
<1>5. ASSUME NEW e \in Docs, CreateDocument(e) PROVE FALSE
  <2>1. content[e] = Absent /\ \E t : content' = [content EXCEPT ![e] = t]
    BY <1>5 DEF CreateDocument
  <2> QED BY <1>1, <2>1
<1>6. CASE UNCHANGED content
  BY <1>1, <1>6
<1>7. \/ SaveArrives \/ UNCHANGED content
      \/ \E e \in Docs : \/ RestoreDocumentRevision(e) \/ ApplyConflictResolution(e)
                         \/ CreateDocument(e)
  BY DEF Next, SelectDocument, SelectWorkspace, ViewAnswered, SetCurrentDocumentAccess,
         OpenDocument, ConflictDetected, Type, SaveTimer, SignalArrives, store
<1> QED BY <1>2, <1>3, <1>4, <1>5, <1>6, <1>7

\* While the storage works, what a save or a restored revision overwrites is the
\* newest revision afterwards, and the list grows past its bound only by the
\* failures to prune it (updateSnapshot, restoreDocumentRevision).
THEOREM KeptCorrect == Spec => OverwrittenIsKept
<1> DEFINE Keeps ==
      \A d \in Docs :
        /\ Len(revs'[d]) <= Cap + faults'
        /\ content[d] # Absent /\ content'[d] # content[d] /\ conflicts' = conflicts
           /\ faults' = faults => revs'[d] # <<>> /\ Head(revs'[d]) = content[d]
<1>1. IInv /\ [Next]_vars => [Keeps]_vars
  <2> SUFFICES ASSUME IInv, Next PROVE Keeps
    OBVIOUS
  <2>1. IInv'
    BY NextStep
  <2>2. \A d \in Docs : Len(revs'[d]) <= Cap + faults'
    BY <2>1 DEF IInv, PruneInv
  <2> QED BY <2>2, OverwriteLemma
<1>2. OverwrittenIsKept <=> [][Keeps]_vars
  BY DEF OverwrittenIsKept
<1> HIDE DEF Keeps
<1> QED BY <1>1, <1>2, Invariant, PTL DEF Spec

-----------------------------------------------------------------------------
(* Conflict merge: pages and rows.                                          *)

LEMMA SnapshotBlocks ==
  ASSUME NEW doc \in Snapshots
  PROVE  /\ doc.blocks \in Seq(Blocks) /\ doc.title \in Titles
         /\ DOMAIN doc.blocks = 1 .. Len(doc.blocks) /\ Len(doc.blocks) \in Nat
         /\ \A i \in DOMAIN doc.blocks : doc.blocks[i] \in Blocks /\ doc.blocks[i] # Missing
<1>1. doc.blocks \in Seq(Blocks) /\ doc.title \in Titles /\ Missing \notin Blocks
  BY MergeAssumption DEF Titles
<1>2. DOMAIN doc.blocks = 1 .. Len(doc.blocks) /\ Len(doc.blocks) \in Nat
  BY <1>1, LenProperties
<1>3. \A i \in DOMAIN doc.blocks : doc.blocks[i] \in Blocks
  BY <1>1, <1>2, ElementOfSeq
<1> QED BY <1>1, <1>2, <1>3

\* In a valid document no id occurs twice, neither beside nor below another block.
UniqueIds(blocks) ==
  LET at(i) == {blocks[i].id} \cup blocks[i].children
  IN \A i, j \in DOMAIN blocks :
       /\ blocks[i].id \notin blocks[i].children
       /\ i # j => at(i) \cap at(j) = {}

LEMMA OccurrencesLemma ==
  ASSUME NEW b, NEW id
  PROVE  /\ Occurrences(b, id) \in Nat
         /\ Occurrences(b, id) > 0 <=> id \in {b.id} \cup b.children
         /\ Occurrences(b, b.id) <= 1 => b.id \notin b.children
  BY DEF Occurrences

LEMMA ValidIsUnique ==
  ASSUME NEW doc, ParseAndValidateSnapshot(doc)
  PROVE  UniqueIds(doc.blocks)
<1> DEFINE bs == doc.blocks
           ids == Ids(bs) \cup UNION {bs[i].children : i \in DOMAIN bs}
<1>1. \A id \in ids : \A i \in DOMAIN bs :
        /\ Occurrences(bs[i], id) <= 1
        /\ \A j \in DOMAIN bs : i # j => Occurrences(bs[i], id) + Occurrences(bs[j], id) <= 1
  BY DEF ParseAndValidateSnapshot
<1>2. \A i \in DOMAIN bs : bs[i].id \in ids /\ bs[i].children \subseteq ids
  BY DEF Ids
<1> HIDE DEF bs, ids
<1>3. ASSUME NEW i \in DOMAIN bs PROVE bs[i].id \notin bs[i].children
  BY <1>1, <1>2, OccurrencesLemma
<1>4. ASSUME NEW i \in DOMAIN bs, NEW j \in DOMAIN bs, i # j,
             NEW id, id \in {bs[i].id} \cup bs[i].children, id \in {bs[j].id} \cup bs[j].children
      PROVE  FALSE
  <2>1. id \in ids
    BY <1>2, <1>4
  <2>2. Occurrences(bs[i], id) + Occurrences(bs[j], id) <= 1
    BY <1>1, <1>4, <2>1
  <2>3. /\ Occurrences(bs[i], id) \in Nat /\ Occurrences(bs[j], id) \in Nat
        /\ Occurrences(bs[i], id) > 0 /\ Occurrences(bs[j], id) > 0
    BY <1>4, OccurrencesLemma
  <2> QED BY <2>2, <2>3
<1> QED BY <1>3, <1>4 DEF UniqueIds, bs

\* The block with an id is found, at its rank.
LEMMA BlockLemma ==
  ASSUME NEW doc \in Snapshots, NEW i \in DOMAIN doc.blocks
  PROVE  /\ doc.blocks[i].id \in Ids(doc.blocks)
         /\ Rank(doc.blocks, doc.blocks[i].id) = i - 1
         /\ BlockWith(doc.blocks, doc.blocks[i].id) = doc.blocks[i]
<1> DEFINE bs == doc.blocks
<1>1. UniqueIds(bs)
  BY ValidIsUnique, MergeAssumption
<1>2. \A j \in DOMAIN bs : bs[j].id = bs[i].id => j = i
  BY <1>1 DEF UniqueIds
<1> HIDE DEF bs
<1>3. (CHOOSE j \in DOMAIN bs : bs[j].id = bs[i].id) = i
  BY <1>2 DEF bs
<1>4. bs[i].id \in Ids(bs)
  BY DEF Ids, bs
<1> QED BY <1>3, <1>4 DEF Rank, BlockWith, bs

LEMMA RankLemma ==
  ASSUME NEW doc \in Snapshots, NEW id \in Ids(doc.blocks)
  PROVE  /\ Rank(doc.blocks, id) \in 0 .. (Len(doc.blocks) - 1)
         /\ BlockWith(doc.blocks, id) \in Blocks /\ BlockWith(doc.blocks, id) # Missing
         /\ BlockWith(doc.blocks, id).id = id
         /\ BlockWith(doc.blocks, id) = doc.blocks[Rank(doc.blocks, id) + 1]
         /\ Len(doc.blocks) \in Nat \ {0}
<1>1. PICK i \in DOMAIN doc.blocks : doc.blocks[i].id = id
  BY DEF Ids
<1>2. Rank(doc.blocks, id) = i - 1 /\ BlockWith(doc.blocks, id) = doc.blocks[i]
  BY <1>1, BlockLemma
<1>3. i \in 1 .. Len(doc.blocks) /\ Len(doc.blocks) \in Nat /\ i - 1 + 1 = i
  BY SnapshotBlocks
<1>4. doc.blocks[i] \in Blocks /\ doc.blocks[i] # Missing
  BY SnapshotBlocks
<1> QED BY <1>1, <1>2, <1>3, <1>4

LEMMA NoBlockWith ==
  ASSUME NEW blocks, NEW id, id \notin Ids(blocks)
  PROVE  BlockWith(blocks, id) = Missing
  BY DEF BlockWith

-----------------------------------------------------------------------------
(* Conflict merge: the order of the merged blocks.                          *)

\* Fractions with positive denominators, compared by products.
LEMMA ProductLemma ==
  ASSUME NEW a \in Nat, NEW c \in Nat, NEW d \in Nat \ {0}
  PROVE  /\ a * d <= c * d <=> a <= c
         /\ a * d < c * d <=> a < c
         /\ a * d \in Nat
<1>1. a <= c => a * d <= c * d
  <2> SUFFICES ASSUME a <= c PROVE a * d <= c * d
    OBVIOUS
  <2>1. PICK k \in Nat : c = a + k
    <3>1. c - a \in Nat /\ c = a + (c - a)
      OBVIOUS
    <3> QED BY <3>1
  <2>2. c * d = a * d + k * d
    BY <2>1
  <2>3. k * d \in Nat /\ a * d \in Nat
    OBVIOUS
  <2> QED BY <2>2, <2>3
<1>2. c < a => c * d < a * d
  <2> SUFFICES ASSUME c < a PROVE c * d < a * d
    OBVIOUS
  <2>1. PICK k \in Nat : a = c + k + 1
    <3>1. a - c - 1 \in Nat /\ a = c + (a - c - 1) + 1
      OBVIOUS
    <3> QED BY <3>1
  <2>2. a * d = c * d + k * d + d
    BY <2>1
  <2>3. k * d \in Nat /\ c * d \in Nat
    OBVIOUS
  <2> QED BY <2>2, <2>3
<1>3. a < c => a * d < c * d
  <2> SUFFICES ASSUME a < c PROVE a * d < c * d
    OBVIOUS
  <2>1. PICK k \in Nat : c = a + k + 1
    <3>1. c - a - 1 \in Nat /\ c = a + (c - a - 1) + 1
      OBVIOUS
    <3> QED BY <3>1
  <2>2. c * d = a * d + k * d + d
    BY <2>1
  <2>3. k * d \in Nat /\ a * d \in Nat
    OBVIOUS
  <2> QED BY <2>2, <2>3
<1>4. a * d \in Nat /\ c * d \in Nat
  OBVIOUS
<1> QED BY <1>1, <1>2, <1>3, <1>4

LEMMA FractionLemma ==
  ASSUME NEW a \in Nat, NEW b \in Nat \ {0}, NEW c \in Nat, NEW d \in Nat \ {0},
         NEW e \in Nat, NEW f \in Nat \ {0},
         a * d <= c * b, c * f <= e * d
  PROVE  /\ a * f <= e * b
         /\ a * d < c * b \/ c * f < e * d => a * f < e * b
<1> DEFINE ad == a * d
           cb == c * b
           cf == c * f
           ed == e * d
           af == a * f
           eb == e * b
<1>1. ad \in Nat /\ cb \in Nat /\ cf \in Nat /\ ed \in Nat /\ af \in Nat /\ eb \in Nat
  BY ProductLemma
<1>2. ad * f = af * d /\ cb * f = cf * b /\ ed * b = eb * d
  OBVIOUS
<1> HIDE DEF ad, cb, cf, ed, af, eb
<1>3. ad <= cb /\ cf <= ed
  BY DEF ad, cb, cf, ed
<1>4. ad * f <= cb * f /\ (ad < cb => ad * f < cb * f)
  BY <1>1, <1>3, ProductLemma
<1>5. cf * b <= ed * b /\ (cf < ed => cf * b < ed * b)
  BY <1>1, <1>3, ProductLemma
<1>6. /\ ad * f \in Nat /\ cb * f \in Nat /\ cf * b \in Nat /\ ed * b \in Nat
      /\ af * d \in Nat /\ eb * d \in Nat
  BY <1>1, ProductLemma
<1>7. af * d <= eb * d /\ (ad < cb \/ cf < ed => af * d < eb * d)
  BY <1>2, <1>4, <1>5, <1>6
<1>8. af <= eb /\ (ad < cb \/ cf < ed => af < eb)
  BY <1>1, <1>7, ProductLemma
<1> QED BY <1>8 DEF ad, cb, cf, ed, af, eb

\* What std::stable_sort is given: positive counts, and no row adds a block twice
\* with the same tenths.
Placed(O) ==
  /\ \A x \in O : /\ x.rank \in Nat /\ x.count \in Nat \ {0}
                  /\ x.row \in Nat /\ x.tenths \in 0 .. 2
  /\ \A x, y \in O : x.row = y.row /\ x.tenths = y.tenths => x = y

LEMMA OrderLemma ==
  ASSUME NEW O, Placed(O)
  PROVE  /\ \A x \in O : ~GoesBefore(x, x)
         /\ \A x, y \in O : x # y => GoesBefore(x, y) \/ GoesBefore(y, x)
         /\ \A x, y, z \in O : GoesBefore(x, y) /\ GoesBefore(y, z) => GoesBefore(x, z)
<1> DEFINE key(x) == 10 * x.rank + x.tenths * x.count
           Less(x, y) == key(x) * y.count < key(y) * x.count
           Same(x, y) == key(x) * y.count = key(y) * x.count
           Later(x, y) == x.row < y.row \/ (x.row = y.row /\ x.tenths < y.tenths)
<1>1. \A x, y : GoesBefore(x, y) <=> Less(x, y) \/ (Same(x, y) /\ Later(x, y))
  BY DEF GoesBefore
<1>2. \A x \in O : /\ key(x) \in Nat /\ x.count \in Nat \ {0}
                   /\ x.row \in Nat /\ x.tenths \in Nat
  <2> SUFFICES ASSUME NEW x \in O
               PROVE  /\ key(x) \in Nat /\ x.count \in Nat \ {0}
                      /\ x.row \in Nat /\ x.tenths \in Nat
    OBVIOUS
  <2>1. x.rank \in Nat /\ x.count \in Nat \ {0} /\ x.row \in Nat /\ x.tenths \in Nat
    BY DEF Placed
  <2>2. x.tenths * x.count \in Nat
    BY <2>1, ProductLemma
  <2> QED BY <2>1, <2>2
<1>3. \A x, y \in O : x.row = y.row /\ x.tenths = y.tenths => x = y
  BY DEF Placed
<1> HIDE DEF key
<1>4. \A x, y \in O : key(x) * y.count \in Nat
  BY <1>2, ProductLemma
<1>5. ASSUME NEW x \in O, NEW y \in O, NEW z \in O, Less(x, y) \/ Same(x, y), Less(y, z) \/ Same(y, z)
      PROVE  /\ Less(x, z) \/ Same(x, z)
             /\ Less(x, y) \/ Less(y, z) => Less(x, z)
  <2>1. /\ key(x) * y.count <= key(y) * x.count
        /\ key(y) * z.count <= key(z) * y.count
    BY <1>4, <1>5
  <2>2. /\ key(x) \in Nat /\ key(y) \in Nat /\ key(z) \in Nat
        /\ x.count \in Nat \ {0} /\ y.count \in Nat \ {0} /\ z.count \in Nat \ {0}
    BY <1>2
  <2>3. /\ key(x) * z.count <= key(z) * x.count
        /\ Less(x, y) \/ Less(y, z) => key(x) * z.count < key(z) * x.count
    BY <2>1, <2>2, FractionLemma
  <2> QED BY <1>4, <2>3
<1>6. ASSUME NEW x \in O, NEW y \in O, NEW z \in O, GoesBefore(x, y), GoesBefore(y, z)
      PROVE  GoesBefore(x, z)
  <2>1. CASE Less(x, y) \/ Less(y, z)
    BY <1>1, <1>5, <1>6, <2>1
  <2>2. CASE Same(x, y) /\ Later(x, y) /\ Same(y, z) /\ Later(y, z)
    <3>1. Later(x, z)
      BY <1>2, <2>2
    <3>2. Less(x, z) \/ Same(x, z)
      BY <1>5, <2>2
    <3> QED BY <1>1, <3>1, <3>2
  <2> QED BY <1>1, <1>6, <2>1, <2>2
<1>7. ASSUME NEW x \in O PROVE ~GoesBefore(x, x)
  BY <1>1, <1>2, <1>4
<1>8. ASSUME NEW x \in O, NEW y \in O, x # y PROVE GoesBefore(x, y) \/ GoesBefore(y, x)
  <2>1. Later(x, y) \/ Later(y, x)
    BY <1>2, <1>3, <1>8
  <2>2. Less(x, y) \/ Less(y, x) \/ (Same(x, y) /\ Same(y, x))
    BY <1>4
  <2> QED BY <1>1, <2>1, <2>2
<1> QED BY <1>6, <1>7, <1>8

\* Sorted lists the blocks once each, and in their order.
LEMMA SortLemma ==
  ASSUME NEW O, IsFiniteSet(O), Placed(O)
  PROVE  /\ Sorted(O) \in Seq(O) /\ DOMAIN Sorted(O) = 1 .. Cardinality(O)
         /\ Cardinality(O) \in Nat
         /\ \A x \in O : \E i \in DOMAIN Sorted(O) : Sorted(O)[i] = x
         /\ \A i, j \in DOMAIN Sorted(O) : i < j => GoesBefore(Sorted(O)[i], Sorted(O)[j])
<1> DEFINE N == Cardinality(O)
           before(b) == {a \in O : GoesBefore(a, b)}
           place(b) == Cardinality(before(b)) + 1
<1>1. N \in Nat
  BY FS_CardinalityType
<1>2. /\ \A x \in O : ~GoesBefore(x, x)
      /\ \A x, y \in O : x # y => GoesBefore(x, y) \/ GoesBefore(y, x)
      /\ \A x, y, z \in O : GoesBefore(x, y) /\ GoesBefore(y, z) => GoesBefore(x, z)
  BY OrderLemma
<1>3. \A x \in O : before(x) \in SUBSET O /\ x \notin before(x)
  BY <1>2
<1>4. \A x \in O : IsFiniteSet(before(x)) /\ Cardinality(before(x)) \in Nat
  <2> SUFFICES ASSUME NEW x \in O PROVE IsFiniteSet(before(x)) /\ Cardinality(before(x)) \in Nat
    OBVIOUS
  <2> HIDE DEF before
  <2>1. IsFiniteSet(before(x))
    BY <1>3, FS_Subset
  <2> QED BY <2>1, FS_CardinalityType
<1>5. \A x \in O : Cardinality(before(x)) < N
  <2> SUFFICES ASSUME NEW x \in O PROVE Cardinality(before(x)) < N
    OBVIOUS
  <2> HIDE DEF before
  <2>1. Cardinality(before(x)) <= N /\ (N = Cardinality(before(x)) => O = before(x))
    BY <1>3, FS_Subset
  <2> QED BY <1>1, <1>3, <1>4, <2>1
<1>6. ASSUME NEW x \in O, NEW y \in O, GoesBefore(x, y) PROVE place(x) < place(y)
  <2>1. before(x) \in SUBSET before(y) /\ x \in before(y)
    BY <1>2, <1>6
  <2> HIDE DEF before
  <2>2. /\ Cardinality(before(x)) <= Cardinality(before(y))
        /\ Cardinality(before(y)) = Cardinality(before(x)) => before(y) = before(x)
    BY <1>4, <2>1, FS_Subset
  <2> QED BY <1>3, <1>4, <2>1, <2>2
<1>7. \A x \in O : place(x) \in 1 .. N
  <2> SUFFICES ASSUME NEW x \in O PROVE place(x) \in 1 .. N
    OBVIOUS
  <2> DEFINE n == Cardinality(before(x))
  <2>1. n \in Nat /\ n < N
    BY <1>4, <1>5
  <2> HIDE DEF n, N
  <2>2. n + 1 \in 1 .. N
    BY <1>1, <2>1
  <2> QED BY <2>2 DEF n
<1> HIDE DEF place
<1>8. \A x, y \in O : place(x) = place(y) => x = y
  <2>1. \A x, y \in O : x # y => place(x) < place(y) \/ place(y) < place(x)
    BY <1>2, <1>6
  <2> QED BY <1>1, <1>7, <2>1
<1>9. \A i \in 1 .. N : \E x \in O : place(x) = i
  <2> DEFINE f == [x \in O |-> place(x)]
  <2>1. f \in Injection(O, 1 .. N)
    BY <1>7, <1>8 DEF Injection, IsInjective
  <2>2. IsFiniteSet(1 .. N) /\ Cardinality(1 .. N) = N
    BY <1>1, FS_Interval
  <2>3. f \in Surjection(O, 1 .. N)
    <3> HIDE DEF f
    <3> QED BY <2>1, <2>2, FS_Injection
  <2> QED BY <2>3 DEF Surjection
<1> DEFINE s == [i \in 1 .. N |-> CHOOSE b \in O : place(b) = i]
<1>10. Sorted(O) = s
  BY DEF Sorted, place
<1>11. \A i \in 1 .. N : s[i] \in O /\ place(s[i]) = i
  BY <1>9
<1>12. \A x \in O : place(x) \in 1 .. N /\ s[place(x)] = x
  BY <1>7, <1>8, <1>11
<1>13. DOMAIN s = 1 .. N /\ s \in [1 .. N -> O]
  BY <1>11
<1> HIDE DEF s
<1>14. ASSUME NEW i \in 1 .. N, NEW j \in 1 .. N, i < j PROVE GoesBefore(s[i], s[j])
  <2>1. s[i] # s[j]
    BY <1>1, <1>11, <1>14
  <2>2. ~GoesBefore(s[j], s[i])
    <3> SUFFICES ASSUME GoesBefore(s[j], s[i]) PROVE FALSE
      OBVIOUS
    <3>1. place(s[j]) < place(s[i])
      BY <1>6, <1>11
    <3> QED BY <1>1, <1>11, <1>14, <3>1
  <2> QED BY <1>2, <1>11, <2>1, <2>2
<1>15. s \in Seq(O)
  <2>1. s \in UNION {[1 .. n -> O] : n \in Nat}
    <3> HIDE DEF N
    <3> QED BY <1>1, <1>13
  <2> QED BY <2>1, SeqDef
<1>16. /\ \A x \in O : \E i \in DOMAIN s : s[i] = x
       /\ \A i, j \in DOMAIN s : i < j => GoesBefore(s[i], s[j])
  BY <1>12, <1>13, <1>14
<1> QED BY <1>1, <1>10, <1>13, <1>15, <1>16

-----------------------------------------------------------------------------
(* Conflict merge: the blocks of the rows.                                  *)

Sides(c) == c.local \in Snapshots /\ c.remote \in Snapshots

LEMMA RowLemma ==
  ASSUME NEW c, Sides(c), NEW rows, ShowsConflict(rows, c), NEW id \in DOMAIN rows
  PROVE  /\ DOMAIN rows = Ids(c.local.blocks) \cup Ids(c.remote.blocks)
         /\ rows[id].local = BlockWith(c.local.blocks, id)
         /\ rows[id].remote = BlockWith(c.remote.blocks, id)
         /\ rows[id].choice \in {"local", "remote", "both"}
         /\ rows[id].local # Missing <=> id \in Ids(c.local.blocks)
         /\ rows[id].remote # Missing <=> id \in Ids(c.remote.blocks)
         /\ rows[id].local # Missing \/ rows[id].remote # Missing
<1>1. DOMAIN rows = Ids(c.local.blocks) \cup Ids(c.remote.blocks)
  BY DEF ShowsConflict
<1>2. \E choice \in {"local", "remote", "both"} :
        rows[id] = [local |-> BlockWith(c.local.blocks, id),
                    remote |-> BlockWith(c.remote.blocks, id), choice |-> choice]
  <2> DEFINE shown == LoadConflict(c)[id]
  <2>1. \E choice \in {"local", "remote", "both"} : rows[id] = [shown EXCEPT !.choice = choice]
    BY DEF ShowsConflict
  <2>2. shown = [local |-> BlockWith(c.local.blocks, id), remote |-> BlockWith(c.remote.blocks, id),
                 choice |-> IF id \in Ids(c.local.blocks) THEN "local" ELSE "remote"]
    BY <1>1 DEF LoadConflict
  <2> HIDE DEF shown
  <2> QED BY <2>1, <2>2
<1>3. /\ BlockWith(c.local.blocks, id) # Missing <=> id \in Ids(c.local.blocks)
      /\ BlockWith(c.remote.blocks, id) # Missing <=> id \in Ids(c.remote.blocks)
  BY RankLemma, NoBlockWith DEF Sides
<1> QED BY <1>1, <1>2, <1>3

LEMMA RowIndexLemma ==
  ASSUME NEW c, Sides(c)
  PROVE  LET ids == Ids(c.local.blocks) \cup Ids(c.remote.blocks)
         IN /\ \A id \in ids : RowIndex(c, id) \in 0 .. (Len(c.local.blocks) + Len(c.remote.blocks))
            /\ \A a, b \in ids : RowIndex(c, a) = RowIndex(c, b) => a = b
<1> DEFINE l == c.local.blocks
           r == c.remote.blocks
<1>1. Len(l) \in Nat /\ Len(r) \in Nat
  BY SnapshotBlocks DEF Sides
<1>2. \A id \in Ids(l) : Rank(l, id) \in 0 .. (Len(l) - 1) /\ l[Rank(l, id) + 1].id = id
  BY RankLemma DEF Sides
<1>3. \A id \in Ids(r) : Rank(r, id) \in 0 .. (Len(r) - 1) /\ r[Rank(r, id) + 1].id = id
  BY RankLemma DEF Sides
<1>4. \A id \in Ids(l) \cup Ids(r) :
        RowIndex(c, id) = IF id \in Ids(l) THEN Rank(l, id) ELSE Len(l) + Rank(r, id)
  BY DEF RowIndex
<1> HIDE DEF l, r
<1>5. \A id \in Ids(l) \cup Ids(r) : RowIndex(c, id) \in 0 .. (Len(l) + Len(r))
  BY <1>1, <1>2, <1>3, <1>4
<1>6. ASSUME NEW a \in Ids(l) \cup Ids(r), NEW b \in Ids(l) \cup Ids(r), RowIndex(c, a) = RowIndex(c, b)
      PROVE  a = b
  <2>1. CASE a \in Ids(l) /\ b \in Ids(l)
    <3>1. Rank(l, a) = Rank(l, b)
      BY <1>4, <1>6, <2>1
    <3> QED BY <1>2, <2>1, <3>1
  <2>2. CASE a \notin Ids(l) /\ b \notin Ids(l)
    <3>1. Rank(r, a) = Rank(r, b)
      BY <1>1, <1>3, <1>4, <1>6, <2>2
    <3> QED BY <1>3, <2>2, <3>1
  <2>3. CASE a \in Ids(l) /\ b \notin Ids(l)
    BY <1>1, <1>2, <1>3, <1>4, <1>6, <2>3
  <2>4. CASE a \notin Ids(l) /\ b \in Ids(l)
    BY <1>1, <1>2, <1>3, <1>4, <1>6, <2>4
  <2> QED BY <2>1, <2>2, <2>3, <2>4
<1> QED BY <1>5, <1>6 DEF l, r

\* A local block, a remote one, or a copy of a remote one.
LEMMA RowBlockKinds ==
  ASSUME NEW c, Sides(c), NEW rows, ShowsConflict(rows, c), NEW id \in DOMAIN rows,
         NEW o \in RowBlocks(c, rows[id], id)
  PROVE  LET row == rows[id] IN
         /\ o.row = RowIndex(c, id) /\ o.tenths \in 0 .. 2
         /\ \/ /\ row.local # Missing /\ o.tenths \in {0, 1}
               /\ o.block = row.local /\ o.rank = Rank(c.local.blocks, id)
               /\ o.count = Len(c.local.blocks)
            \/ /\ row.remote # Missing /\ o.tenths = 0
               /\ o.block = row.remote /\ o.rank = Rank(c.remote.blocks, id)
               /\ o.count = Len(c.remote.blocks)
            \/ /\ row.remote # Missing /\ o.tenths = 2 /\ row.choice = "both"
               /\ o.block = CloneBlockWithFreshId(row.remote)
               /\ o.rank = Rank(c.remote.blocks, id) /\ o.count = Len(c.remote.blocks)
<1> DEFINE row == rows[id]
           local(t) == OrderedBlock(row.local, c.local.blocks, id, t, RowIndex(c, id))
           remote(b, t) == OrderedBlock(b, c.remote.blocks, id, t, RowIndex(c, id))
<1>1. /\ row.choice \in {"local", "remote", "both"}
      /\ row.local # Missing \/ row.remote # Missing
  BY RowLemma
<1>2. \/ row.local # Missing /\ o \in {local(0), local(1)}
      \/ row.remote # Missing /\ o = remote(row.remote, 0)
      \/ row.remote # Missing /\ row.choice = "both"
         /\ o = remote(CloneBlockWithFreshId(row.remote), 2)
  <2> HIDE DEF row
  <2>1. o \in RowBlocks(c, row, id)
    BY DEF row
  <2>2. CASE row.choice = "remote"
    BY <1>1, <2>1, <2>2 DEF RowBlocks
  <2>3. CASE row.choice = "local"
    BY <1>1, <2>1, <2>3 DEF RowBlocks
  <2>4. CASE row.choice = "both"
    BY <1>1, <2>1, <2>4 DEF RowBlocks
  <2> QED BY <1>1, <2>2, <2>3, <2>4
<1>3. /\ \A t : /\ local(t).block = row.local /\ local(t).rank = Rank(c.local.blocks, id)
                /\ local(t).count = Len(c.local.blocks) /\ local(t).tenths = t
                /\ local(t).row = RowIndex(c, id)
      /\ \A b, t : /\ remote(b, t).block = b /\ remote(b, t).rank = Rank(c.remote.blocks, id)
                   /\ remote(b, t).count = Len(c.remote.blocks) /\ remote(b, t).tenths = t
                   /\ remote(b, t).row = RowIndex(c, id)
  BY DEF OrderedBlock
<1> HIDE DEF row, local, remote
<1>4. CASE row.local # Missing /\ o \in {local(0), local(1)}
  BY <1>3, <1>4 DEF row
<1>5. CASE row.remote # Missing /\ o = remote(row.remote, 0)
  BY <1>3, <1>5 DEF row
<1>6. CASE row.remote # Missing /\ row.choice = "both" /\ o = remote(CloneBlockWithFreshId(row.remote), 2)
  BY <1>3, <1>6 DEF row
<1> QED BY <1>2, <1>4, <1>5, <1>6

LEMMA CloneLemma ==
  ASSUME NEW b \in Blocks
  PROVE  /\ CloneBlockWithFreshId(b) \in Copies /\ CloneBlockWithFreshId(b) # Missing
         /\ CloneBlockWithFreshId(b).id = <<"copy", b.id>>
         /\ \A a \in Blocks : a.id # CloneBlockWithFreshId(b).id
<1>1. b = [id |-> b.id, text |-> b.text, children |-> b.children]
  BY MergeAssumption
<1>2. CloneBlockWithFreshId(b).id = <<"copy", b.id>>
  BY <1>1 DEF CloneBlockWithFreshId
<1>3. CloneBlockWithFreshId(b) \in Copies
  BY DEF Copies
<1> QED BY <1>2, <1>3, MergeAssumption

\* A row adds what it shows as chosen: at most a local block and a copy.
LEMMA RowBlocksLemma ==
  ASSUME NEW c, Sides(c), NEW rows, ShowsConflict(rows, c), NEW id \in DOMAIN rows
  PROVE  /\ {o.block : o \in RowBlocks(c, rows[id], id)} = ChosenBlocks(rows[id]) \ {Missing}
         /\ \A o, p \in RowBlocks(c, rows[id], id) :
              o # p => o.tenths # p.tenths /\ o.block.id # p.block.id
<1> DEFINE row == rows[id]
           l(t) == OrderedBlock(row.local, c.local.blocks, id, t, RowIndex(c, id))
           r(b, t) == OrderedBlock(b, c.remote.blocks, id, t, RowIndex(c, id))
           copy == CloneBlockWithFreshId(row.remote)
<1>1. /\ row.choice \in {"local", "remote", "both"}
      /\ row.local # Missing \/ row.remote # Missing
  BY RowLemma
<1>2. /\ row.local # Missing => row.local \in Blocks /\ row.local.id = id
      /\ row.remote # Missing => row.remote \in Blocks /\ row.remote.id = id
  <2>1. /\ row.local # Missing => id \in Ids(c.local.blocks)
        /\ row.remote # Missing => id \in Ids(c.remote.blocks)
        /\ row.local = BlockWith(c.local.blocks, id) /\ row.remote = BlockWith(c.remote.blocks, id)
    BY RowLemma
  <2>2. c.local \in Snapshots /\ c.remote \in Snapshots
    BY DEF Sides
  <2>3. \A doc \in Snapshots : id \in Ids(doc.blocks) =>
          BlockWith(doc.blocks, id) \in Blocks /\ BlockWith(doc.blocks, id).id = id
    BY RankLemma
  <2> HIDE DEF row
  <2>4. row.local # Missing => row.local \in Blocks /\ row.local.id = id
    BY <2>1, <2>2, <2>3
  <2>5. row.remote # Missing => row.remote \in Blocks /\ row.remote.id = id
    BY <2>1, <2>2, <2>3
  <2> QED BY <2>4, <2>5
<1>3. row.remote # Missing => copy # Missing /\ \A a \in Blocks : a.id # copy.id
  BY <1>2, CloneLemma
<1>4. /\ \A t : l(t).block = row.local /\ l(t).tenths = t
      /\ \A b, t : r(b, t).block = b /\ r(b, t).tenths = t
  BY DEF OrderedBlock
<1>5. RowBlocks(c, row, id) =
        IF row.choice = "both"
        THEN (IF row.local # Missing THEN {l(1)} ELSE {})
             \cup (IF row.remote # Missing THEN {r(copy, 2)} ELSE {})
        ELSE IF row.choice = "remote"
             THEN IF row.remote # Missing THEN {r(row.remote, 0)} ELSE {l(0)}
             ELSE IF row.local # Missing THEN {l(1)} ELSE {r(row.remote, 0)}
  <2> HIDE DEF row
  <2>1. CASE row.choice = "remote"
    BY <2>1 DEF RowBlocks
  <2>2. CASE row.choice = "local"
    BY <2>2 DEF RowBlocks
  <2>3. CASE row.choice = "both"
    BY <2>3 DEF RowBlocks
  <2> QED BY <1>1, <2>1, <2>2, <2>3
<1>6. ChosenBlocks(row) =
        IF row.choice = "both"
        THEN {row.local} \cup (IF row.remote = Missing THEN {} ELSE {copy})
        ELSE IF row.choice = "remote"
             THEN {IF row.remote # Missing THEN row.remote ELSE row.local}
             ELSE {IF row.local # Missing THEN row.local ELSE row.remote}
  <2> HIDE DEF row
  <2>1. CASE row.choice = "remote"
    BY <2>1 DEF ChosenBlocks
  <2>2. CASE row.choice = "local"
    BY <2>2 DEF ChosenBlocks
  <2>3. CASE row.choice = "both"
    BY <2>3 DEF ChosenBlocks
  <2> QED BY <1>1, <2>1, <2>2, <2>3
<1> HIDE DEF row, l, r, copy
<1>7. {o.block : o \in RowBlocks(c, row, id)} = ChosenBlocks(row) \ {Missing}
  <2>1. CASE row.choice = "both" /\ row.local # Missing /\ row.remote # Missing
    BY <1>3, <1>4, <1>5, <1>6, <2>1
  <2>2. CASE row.choice = "both" /\ row.local # Missing /\ row.remote = Missing
    BY <1>4, <1>5, <1>6, <2>2
  <2>3. CASE row.choice = "both" /\ row.local = Missing
    BY <1>1, <1>3, <1>4, <1>5, <1>6, <2>3
  <2>4. CASE row.choice # "both"
    BY <1>1, <1>4, <1>5, <1>6, <2>4
  <2> QED BY <2>1, <2>2, <2>3, <2>4
<1>8. ASSUME NEW o \in RowBlocks(c, row, id), NEW p \in RowBlocks(c, row, id), o # p
      PROVE  o.tenths # p.tenths /\ o.block.id # p.block.id
  <2>1. /\ row.local # Missing /\ row.remote # Missing
        /\ \/ o = l(1) /\ p = r(copy, 2)
           \/ p = l(1) /\ o = r(copy, 2)
    BY <1>5, <1>8
  <2>2. l(1).tenths # r(copy, 2).tenths
    BY <1>4
  <2>3. l(1).block.id # r(copy, 2).block.id
    BY <1>2, <1>3, <1>4, <2>1
  <2> QED BY <2>1, <2>2, <2>3
<1> QED BY <1>7, <1>8 DEF row

\* All rows together: what is sorted can be sorted, has the chosen blocks, and no
\* two with the same id.
LEMMA OrderedBlocksLemma ==
  ASSUME NEW c, Sides(c), NEW rows, ShowsConflict(rows, c)
  PROVE  LET O == OrderedBlocks(c, rows)
         IN /\ IsFiniteSet(O) /\ Placed(O)
            /\ {o.block : o \in O} = (UNION {ChosenBlocks(rows[id]) : id \in DOMAIN rows}) \ {Missing}
            /\ \A o, p \in O : o.block = p.block => o = p
<1> DEFINE O == OrderedBlocks(c, rows)
           ids == Ids(c.local.blocks) \cup Ids(c.remote.blocks)
           N == Len(c.local.blocks) + Len(c.remote.blocks)
<1>1. DOMAIN rows = ids
  BY DEF ShowsConflict
<1>2. \A o : o \in O <=> \E id \in DOMAIN rows : o \in RowBlocks(c, rows[id], id)
  BY DEF OrderedBlocks
<1>3. /\ \A id \in ids : RowIndex(c, id) \in 0 .. N
      /\ \A a, b \in ids : RowIndex(c, a) = RowIndex(c, b) => a = b
      /\ N \in Nat
  <2>1. Len(c.local.blocks) \in Nat /\ Len(c.remote.blocks) \in Nat
    BY SnapshotBlocks DEF Sides
  <2>2. /\ \A id \in ids : RowIndex(c, id) \in 0 .. N
        /\ \A a, b \in ids : RowIndex(c, a) = RowIndex(c, b) => a = b
    BY RowIndexLemma
  <2>3. N \in Nat
    <3> DEFINE l == Len(c.local.blocks)
               r == Len(c.remote.blocks)
    <3> HIDE DEF l, r
    <3>1. l \in Nat /\ r \in Nat
      BY <2>1 DEF l, r
    <3>2. l + r \in Nat
      BY <3>1
    <3> QED BY <3>2 DEF l, r
  <2> HIDE DEF ids, N
  <2> QED BY <2>2, <2>3
<1> HIDE DEF ids, N
<1>4. ASSUME NEW id \in DOMAIN rows, NEW o \in RowBlocks(c, rows[id], id)
      PROVE  /\ o.row = RowIndex(c, id) /\ o.row \in 0 .. N /\ o.tenths \in 0 .. 2
             /\ o.rank \in Nat /\ o.count \in Nat \ {0}
             /\ o.block.id = id \/ o.block.id = <<"copy", id>>
             /\ id \in {b.id : b \in Blocks}
  <2> DEFINE row == rows[id]
  <2>1. /\ row.local = BlockWith(c.local.blocks, id) /\ row.remote = BlockWith(c.remote.blocks, id)
        /\ row.local # Missing => id \in Ids(c.local.blocks)
        /\ row.remote # Missing => id \in Ids(c.remote.blocks)
    BY RowLemma
  <2>2. \A doc \in Snapshots : id \in Ids(doc.blocks) =>
          /\ BlockWith(doc.blocks, id) \in Blocks /\ BlockWith(doc.blocks, id).id = id
          /\ Rank(doc.blocks, id) \in Nat /\ Len(doc.blocks) \in Nat \ {0}
    BY RankLemma
  <2>3. /\ o.row = RowIndex(c, id) /\ o.tenths \in 0 .. 2
        /\ \/ /\ row.local # Missing /\ o.block = row.local
              /\ o.rank = Rank(c.local.blocks, id) /\ o.count = Len(c.local.blocks)
           \/ /\ row.remote # Missing
              /\ o.block = row.remote \/ o.block = CloneBlockWithFreshId(row.remote)
              /\ o.rank = Rank(c.remote.blocks, id) /\ o.count = Len(c.remote.blocks)
    BY <1>4, RowBlockKinds
  <2>4. c.local \in Snapshots /\ c.remote \in Snapshots
    BY DEF Sides
  <2> HIDE DEF row
  <2>5. CASE /\ row.local # Missing /\ o.block = row.local
             /\ o.rank = Rank(c.local.blocks, id) /\ o.count = Len(c.local.blocks)
    BY <1>1, <1>3, <2>1, <2>2, <2>3, <2>4, <2>5
  <2>6. CASE /\ row.remote # Missing
             /\ o.block = row.remote \/ o.block = CloneBlockWithFreshId(row.remote)
             /\ o.rank = Rank(c.remote.blocks, id) /\ o.count = Len(c.remote.blocks)
    <3>1. row.remote \in Blocks /\ row.remote.id = id
      BY <2>1, <2>2, <2>4, <2>6
    <3>2. o.block.id = id \/ o.block.id = <<"copy", id>>
      BY <2>6, <3>1, CloneLemma
    <3> QED BY <1>1, <1>3, <2>1, <2>2, <2>3, <2>4, <2>6, <3>1, <3>2
  <2> QED BY <2>3, <2>5, <2>6
<1>5. \A a, b \in Blocks : a.id # <<"copy", b.id>>
  BY MergeAssumption
<1>6. ASSUME NEW o \in O, NEW p \in O, o.row = p.row \/ o.block.id = p.block.id
      PROVE  o # p => o.tenths # p.tenths /\ o.block.id # p.block.id
  <2>1. PICK a \in DOMAIN rows : o \in RowBlocks(c, rows[a], a)
    BY <1>2
  <2>2. PICK b \in DOMAIN rows : p \in RowBlocks(c, rows[b], b)
    BY <1>2
  <2>3. a = b
    <3>1. CASE o.row = p.row
      BY <1>1, <1>3, <1>4, <2>1, <2>2, <3>1
    <3>2. CASE o.block.id = p.block.id
      <4>1. /\ o.block.id = a \/ o.block.id = <<"copy", a>>
            /\ p.block.id = b \/ p.block.id = <<"copy", b>>
            /\ a \in {x.id : x \in Blocks} /\ b \in {x.id : x \in Blocks}
        BY <1>4, <2>1, <2>2
      <4>2. a # <<"copy", b>> /\ b # <<"copy", a>>
        BY <1>5, <4>1
      <4> QED BY <3>2, <4>1, <4>2
    <3> QED BY <1>6, <3>1, <3>2
  <2> QED BY <2>1, <2>2, <2>3, RowBlocksLemma
<1> HIDE DEF O
<1>7. \A o \in O : /\ o.rank \in Nat /\ o.count \in Nat \ {0}
                   /\ o.row \in 0 .. N /\ o.tenths \in 0 .. 2
  BY <1>2, <1>4
<1>8. Placed(O)
  <2>1. \A o \in O : o.row \in Nat
    BY <1>3, <1>7
  <2> QED BY <1>6, <1>7, <2>1 DEF Placed
<1>9. IsFiniteSet(O)
  <2> DEFINE f == [o \in O |-> 3 * o.row + o.tenths]
  <2>1. \A o \in O : f[o] \in 0 .. (3 * N + 2)
    BY <1>3, <1>7
  <2>2. ASSUME NEW o \in O, NEW p \in O, f[o] = f[p] PROVE o = p
    <3>1. o.row = p.row /\ o.tenths = p.tenths
      BY <1>7, <1>3, <2>2
    <3> QED BY <1>6, <3>1
  <2>3. f \in Injection(O, 0 .. (3 * N + 2))
    BY <2>1, <2>2 DEF Injection, IsInjective
  <2>4. IsFiniteSet(0 .. (3 * N + 2))
    BY <1>3, FS_Interval
  <2> HIDE DEF f
  <2> QED BY <2>3, <2>4, FS_Injection
<1>10. {o.block : o \in O} = (UNION {ChosenBlocks(rows[id]) : id \in DOMAIN rows}) \ {Missing}
  <2>1. \A id \in DOMAIN rows :
          {o.block : o \in RowBlocks(c, rows[id], id)} = ChosenBlocks(rows[id]) \ {Missing}
    BY RowBlocksLemma
  <2>2. \A b : (\E o \in O : b = o.block) <=>
               \E id \in DOMAIN rows : b \in {o.block : o \in RowBlocks(c, rows[id], id)}
    BY <1>2
  <2>3. \A b : (\E o \in O : b = o.block) <=>
               \E id \in DOMAIN rows : b \in ChosenBlocks(rows[id]) /\ b # Missing
    BY <2>1, <2>2
  <2> DEFINE T == {o.block : o \in O}
             U == (UNION {ChosenBlocks(rows[id]) : id \in DOMAIN rows}) \ {Missing}
  <2>4. \A b : b \in U <=> \E id \in DOMAIN rows : b \in ChosenBlocks(rows[id]) /\ b # Missing
    <3> DEFINE G == {ChosenBlocks(rows[id]) : id \in DOMAIN rows}
    <3>1. \A S : S \in G <=> \E id \in DOMAIN rows : S = ChosenBlocks(rows[id])
      OBVIOUS
    <3> HIDE DEF G
    <3>2. \A b : b \in (UNION G) \ {Missing} <=> b # Missing /\ \E S \in G : b \in S
      OBVIOUS
    <3>3. \A b : b \in (UNION G) \ {Missing} <=>
                 \E id \in DOMAIN rows : b \in ChosenBlocks(rows[id]) /\ b # Missing
      BY <3>1, <3>2
    <3> QED BY <3>3 DEF G
  <2>5. \A b : b \in T <=> \E o \in O : b = o.block
    OBVIOUS
  <2> HIDE DEF T, U
  <2>6. \A b : b \in T <=> b \in U
    BY <2>3, <2>4, <2>5
  <2>7. T = U
    BY <2>6
  <2> QED BY <2>7 DEF T, U
<1>11. \A o, p \in O : o.block = p.block => o = p
  BY <1>6
<1> QED BY <1>8, <1>9, <1>10, <1>11 DEF O

\* The document of one side, taken as it is, has the blocks of that side once each.
LEMMA WholeSide ==
  ASSUME NEW doc \in Snapshots, NEW ids, ids = Ids(doc.blocks)
  PROVE  /\ doc.blocks \in Seq(Blocks \cup Copies) /\ IsInjective(doc.blocks)
         /\ \A b : b \in ToSet(doc.blocks) <=>
                   \E id \in ids : b = BlockWith(doc.blocks, id) /\ b # Missing
<1>1. /\ doc.blocks \in Seq(Blocks)
      /\ \A i \in DOMAIN doc.blocks : doc.blocks[i] # Missing
  BY SnapshotBlocks
<1>2. doc.blocks \in Seq(Blocks \cup Copies)
  BY <1>1, SeqMonotonic
<1>3. \A i \in DOMAIN doc.blocks : /\ Rank(doc.blocks, doc.blocks[i].id) = i - 1
                                   /\ doc.blocks[i].id \in ids
                                   /\ BlockWith(doc.blocks, doc.blocks[i].id) = doc.blocks[i]
  BY BlockLemma
<1>4. DOMAIN doc.blocks \subseteq Int
  BY SnapshotBlocks
<1>5. IsInjective(doc.blocks)
  BY <1>3, <1>4 DEF IsInjective
<1>6. ASSUME NEW b
      PROVE  b \in ToSet(doc.blocks) <=>
             \E id \in ids : b = BlockWith(doc.blocks, id) /\ b # Missing
  <2>1. b \in ToSet(doc.blocks) <=> \E i \in DOMAIN doc.blocks : b = doc.blocks[i]
    BY DEF ToSet
  <2>2. \A id \in ids : \E i \in DOMAIN doc.blocks : doc.blocks[i].id = id
    BY DEF Ids
  <2>3. ASSUME NEW id \in ids PROVE \E i \in DOMAIN doc.blocks : doc.blocks[i] = BlockWith(doc.blocks, id)
    BY <1>3, <2>2
  <2> QED BY <1>1, <1>3, <2>1, <2>3
<1> QED BY <1>2, <1>5, <1>6

\* Whatever is chosen, by rows or by a shortcut: the chosen blocks, each once.
LEMMA MergedLemma ==
  ASSUME NEW c, Sides(c), NEW rows, ShowsConflict(rows, c)
  PROVE  LET merged == BuildMergedBlocks(c, rows)
         IN /\ merged \in Seq(Blocks \cup Copies) /\ IsInjective(merged)
            /\ ToSet(merged) = (UNION {ChosenBlocks(rows[id]) : id \in DOMAIN rows}) \ {Missing}
<1> DEFINE chosen == (UNION {ChosenBlocks(rows[id]) : id \in DOMAIN rows}) \ {Missing}
           merged == BuildMergedBlocks(c, rows)
<1>1. \A b : b \in chosen <=> \E id \in DOMAIN rows : b \in ChosenBlocks(rows[id]) /\ b # Missing
  <2> DEFINE G == {ChosenBlocks(rows[id]) : id \in DOMAIN rows}
  <2>1. \A S : S \in G <=> \E id \in DOMAIN rows : S = ChosenBlocks(rows[id])
    OBVIOUS
  <2> HIDE DEF G
  <2>2. \A b : b \in (UNION G) \ {Missing} <=>
               \E id \in DOMAIN rows : b \in ChosenBlocks(rows[id]) /\ b # Missing
    BY <2>1
  <2> QED BY <2>2 DEF G
<1>2. \A id \in DOMAIN rows :
        /\ rows[id].local = BlockWith(c.local.blocks, id)
        /\ rows[id].remote = BlockWith(c.remote.blocks, id)
        /\ rows[id].local # Missing <=> id \in Ids(c.local.blocks)
        /\ rows[id].remote # Missing <=> id \in Ids(c.remote.blocks)
        /\ DOMAIN rows = Ids(c.local.blocks) \cup Ids(c.remote.blocks)
  BY RowLemma
<1>3. c.local \in Snapshots /\ c.remote \in Snapshots
  BY DEF Sides
<1> HIDE DEF chosen
<1>4. CASE PreferRemoteDocument(rows)
  <2>1. \A id \in DOMAIN rows : rows[id].choice = "remote" /\ rows[id].remote # Missing
    BY <1>4 DEF PreferRemoteDocument
  <2>2. DOMAIN rows = Ids(c.remote.blocks)
    BY <1>2, <1>4, <2>1 DEF PreferRemoteDocument
  <2>3. \A id \in DOMAIN rows : ChosenBlocks(rows[id]) = {BlockWith(c.remote.blocks, id)}
    BY <1>2, <2>1 DEF ChosenBlocks
  <2>4. merged = c.remote.blocks
    BY <1>4 DEF BuildMergedBlocks
  <2>5. /\ merged \in Seq(Blocks \cup Copies) /\ IsInjective(merged)
        /\ \A b : b \in ToSet(merged) <=>
                  \E id \in DOMAIN rows : b = BlockWith(c.remote.blocks, id) /\ b # Missing
    <3> HIDE DEF merged
    <3> QED BY <1>3, <2>2, <2>4, WholeSide
  <2> HIDE DEF merged
  <2>6. \A b : b \in ToSet(merged) <=> b \in chosen
    BY <1>1, <2>3, <2>5
  <2>7. ToSet(merged) = chosen
    BY <2>6
  <2> QED BY <2>5, <2>7 DEF merged, chosen
<1>5. CASE ~PreferRemoteDocument(rows) /\ PreferLocalDocument(rows)
  <2>1. \A id \in DOMAIN rows : rows[id].choice = "local" /\ rows[id].local # Missing
    BY <1>5 DEF PreferLocalDocument
  <2>2. DOMAIN rows = Ids(c.local.blocks)
    BY <1>2, <1>5, <2>1 DEF PreferLocalDocument
  <2>3. \A id \in DOMAIN rows : ChosenBlocks(rows[id]) = {BlockWith(c.local.blocks, id)}
    BY <1>2, <2>1 DEF ChosenBlocks
  <2>4. merged = c.local.blocks
    BY <1>5 DEF BuildMergedBlocks
  <2>5. /\ merged \in Seq(Blocks \cup Copies) /\ IsInjective(merged)
        /\ \A b : b \in ToSet(merged) <=>
                  \E id \in DOMAIN rows : b = BlockWith(c.local.blocks, id) /\ b # Missing
    <3> HIDE DEF merged
    <3> QED BY <1>3, <2>2, <2>4, WholeSide
  <2> HIDE DEF merged
  <2>6. \A b : b \in ToSet(merged) <=> b \in chosen
    BY <1>1, <2>3, <2>5
  <2>7. ToSet(merged) = chosen
    BY <2>6
  <2> QED BY <2>5, <2>7 DEF merged, chosen
<1>6. CASE ~PreferRemoteDocument(rows) /\ ~PreferLocalDocument(rows)
  <2> DEFINE O == OrderedBlocks(c, rows)
             s == Sorted(O)
  <2>1. /\ IsFiniteSet(O) /\ Placed(O) /\ {o.block : o \in O} = chosen
        /\ \A o, p \in O : o.block = p.block => o = p
    BY OrderedBlocksLemma DEF chosen
  <2>2. merged = [i \in DOMAIN s |-> s[i].block]
    BY <1>6 DEF BuildMergedBlocks
  <2> HIDE DEF O, s, merged
  <2>3. /\ s \in Seq(O) /\ DOMAIN s = 1 .. Cardinality(O) /\ Cardinality(O) \in Nat
        /\ \A x \in O : \E i \in DOMAIN s : s[i] = x
        /\ \A i, j \in DOMAIN s : i < j => GoesBefore(s[i], s[j])
    BY <2>1, SortLemma DEF s
  <2>4. \A i \in DOMAIN s : s[i] \in O
    <3>1. DOMAIN s = 1 .. Len(s)
      BY <2>3, LenProperties
    <3> QED BY <2>3, <3>1, ElementOfSeq
  <2>5. \A i, j \in DOMAIN s : s[i] = s[j] => i = j
    <3>1. \A i, j \in DOMAIN s : i < j => s[i] # s[j]
      BY <2>1, <2>3, <2>4, OrderLemma
    <3>2. \A i, j \in DOMAIN s : i # j => i < j \/ j < i
      BY <2>3
    <3> QED BY <3>1, <3>2
  <2>6. DOMAIN merged = DOMAIN s /\ \A i \in DOMAIN s : merged[i] = s[i].block
    BY <2>2
  <2>7. IsInjective(merged)
    BY <2>1, <2>4, <2>5, <2>6 DEF IsInjective
  <2>8. \A b : b \in ToSet(merged) <=> b \in {o.block : o \in O}
    BY <2>3, <2>4, <2>6 DEF ToSet
  <2>9. ToSet(merged) = chosen
    BY <2>1, <2>8
  <2>10. \A o \in O : o.block \in Blocks \cup Copies
    <3> SUFFICES ASSUME NEW o \in O PROVE o.block \in Blocks \cup Copies
      OBVIOUS
    <3>1. PICK id \in DOMAIN rows : o \in RowBlocks(c, rows[id], id)
      BY DEF O, OrderedBlocks
    <3>2. \/ rows[id].local # Missing /\ o.block = rows[id].local
          \/ rows[id].remote # Missing /\ o.block = rows[id].remote
          \/ rows[id].remote # Missing /\ o.block = CloneBlockWithFreshId(rows[id].remote)
      BY <3>1, RowBlockKinds
    <3>3. \A doc \in Snapshots : id \in Ids(doc.blocks) => BlockWith(doc.blocks, id) \in Blocks
      BY RankLemma
    <3>4. /\ rows[id].local # Missing => rows[id].local \in Blocks
          /\ rows[id].remote # Missing => rows[id].remote \in Blocks
      BY <1>2, <1>3, <3>3
    <3> QED BY <3>2, <3>4, CloneLemma
  <2>11. merged \in Seq(Blocks \cup Copies)
    <3>1. merged \in [1 .. Cardinality(O) -> Blocks \cup Copies]
      BY <2>2, <2>3, <2>4, <2>6, <2>10
    <3>2. merged \in UNION {[1 .. n -> Blocks \cup Copies] : n \in Nat}
      BY <2>3, <3>1
    <3> QED BY <3>2, SeqDef
  <2> QED BY <2>7, <2>9, <2>11 DEF merged, chosen
<1> QED BY <1>4, <1>5, <1>6

\* A row with both sides adds the block under its own id, from one of the sides.
LEMMA OwnBlock ==
  ASSUME NEW c, Sides(c), NEW rows, ShowsConflict(rows, c), NEW id \in DOMAIN rows,
         id \in Ids(c.local.blocks), id \in Ids(c.remote.blocks)
  PROVE  \E o \in RowBlocks(c, rows[id], id) :
           /\ o.tenths \in {0, 1} /\ o.block.id = id
           /\ \/ o.rank = Rank(c.local.blocks, id) /\ o.count = Len(c.local.blocks)
              \/ o.rank = Rank(c.remote.blocks, id) /\ o.count = Len(c.remote.blocks)
<1> DEFINE row == rows[id]
           l(t) == OrderedBlock(row.local, c.local.blocks, id, t, RowIndex(c, id))
           r == OrderedBlock(row.remote, c.remote.blocks, id, 0, RowIndex(c, id))
<1>1. /\ row.local # Missing /\ row.remote # Missing
      /\ row.choice \in {"local", "remote", "both"}
      /\ row.local = BlockWith(c.local.blocks, id) /\ row.remote = BlockWith(c.remote.blocks, id)
  BY RowLemma
<1>2. row.local.id = id /\ row.remote.id = id
  <2>1. \A doc \in Snapshots : id \in Ids(doc.blocks) => BlockWith(doc.blocks, id).id = id
    BY RankLemma
  <2> QED BY <1>1, <2>1 DEF Sides
<1>3. /\ l(1).tenths = 1 /\ l(1).block = row.local
      /\ l(1).rank = Rank(c.local.blocks, id) /\ l(1).count = Len(c.local.blocks)
      /\ r.tenths = 0 /\ r.block = row.remote
      /\ r.rank = Rank(c.remote.blocks, id) /\ r.count = Len(c.remote.blocks)
  BY DEF OrderedBlock
<1>4. l(1) \in RowBlocks(c, row, id) \/ r \in RowBlocks(c, row, id)
  <2> HIDE DEF row
  <2>1. CASE row.choice = "remote"
    BY <1>1, <2>1 DEF RowBlocks
  <2>2. CASE row.choice = "local"
    BY <1>1, <2>2 DEF RowBlocks
  <2>3. CASE row.choice = "both"
    BY <1>1, <2>3 DEF RowBlocks
  <2> QED BY <1>1, <2>1, <2>2, <2>3
<1> HIDE DEF row, l, r
<1> QED BY <1>2, <1>3, <1>4 DEF row

\* With fewer than ten blocks a tenth is less than the way to the next block.
LEMMA TenthLemma ==
  ASSUME NEW n \in 1 .. 9, NEW i \in 1 .. n, NEW j \in 1 .. n, i < j
  PROVE  \A x, y : /\ x.tenths \in {0, 1} /\ y.tenths \in {0, 1}
                   /\ x.rank = i - 1 /\ y.rank = j - 1 /\ x.count = n /\ y.count = n
                   => GoesBefore(x, y)
<1> SUFFICES ASSUME NEW x, NEW y, x.tenths \in {0, 1}, y.tenths \in {0, 1},
                    x.rank = i - 1, y.rank = j - 1, x.count = n, y.count = n
             PROVE  GoesBefore(x, y)
  OBVIOUS
<1> DEFINE a == 10 * (i - 1) + x.tenths * n
           b == 10 * (j - 1) + y.tenths * n
<1>1. x.tenths * n \in 0 .. 9 /\ y.tenths * n \in 0 .. 9
  <2>1. x.tenths * n = IF x.tenths = 0 THEN 0 ELSE n
    OBVIOUS
  <2>2. y.tenths * n = IF y.tenths = 0 THEN 0 ELSE n
    OBVIOUS
  <2> QED BY <2>1, <2>2
<1>2. a \in Nat /\ b \in Nat /\ a < b
  BY <1>1
<1> HIDE DEF a, b
<1>3. a * n < b * n
  BY <1>2, ProductLemma
<1> QED BY <1>3 DEF GoesBefore, a, b

LEMMA OrderKept ==
  ASSUME NEW c, Sides(c), NEW rows, ShowsConflict(rows, c),
         Len(c.local.blocks) = Len(c.remote.blocks), Len(c.local.blocks) < 10,
         \A i \in DOMAIN c.local.blocks : c.local.blocks[i].id = c.remote.blocks[i].id,
         NEW i \in DOMAIN c.local.blocks, NEW j \in DOMAIN c.local.blocks, i < j
  PROVE  Follow(BuildMergedBlocks(c, rows), c.local.blocks[i].id, c.local.blocks[j].id)
<1> DEFINE l == c.local.blocks
           r == c.remote.blocks
           n == Len(l)
           merged == BuildMergedBlocks(c, rows)
<1>1. c.local \in Snapshots /\ c.remote \in Snapshots
  BY DEF Sides
<1>2. DOMAIN l = 1 .. n /\ DOMAIN r = 1 .. n /\ n \in Nat
  BY <1>1, SnapshotBlocks
<1>3. CASE PreferRemoteDocument(rows)
  BY <1>2, <1>3 DEF BuildMergedBlocks, Follow
<1>4. CASE ~PreferRemoteDocument(rows) /\ PreferLocalDocument(rows)
  BY <1>2, <1>4 DEF BuildMergedBlocks, Follow
<1>5. CASE ~PreferRemoteDocument(rows) /\ ~PreferLocalDocument(rows)
  <2> DEFINE O == OrderedBlocks(c, rows)
             s == Sorted(O)
  <2>1. ASSUME NEW k \in DOMAIN l
        PROVE  \E o \in O : /\ o.tenths \in {0, 1} /\ o.block.id = l[k].id
                            /\ o.rank = k - 1 /\ o.count = n
    <3>1. /\ l[k].id \in Ids(l) /\ Rank(l, l[k].id) = k - 1
      BY <1>1, BlockLemma
    <3>2. k \in DOMAIN r /\ r[k].id = l[k].id
      BY <1>2
    <3>3. l[k].id \in Ids(r) /\ Rank(r, l[k].id) = k - 1
      BY <1>1, <3>2, BlockLemma
    <3>4. l[k].id \in DOMAIN rows
      BY <3>1 DEF ShowsConflict
    <3>5. \E o \in RowBlocks(c, rows[l[k].id], l[k].id) :
            /\ o.tenths \in {0, 1} /\ o.block.id = l[k].id
            /\ \/ o.rank = Rank(l, l[k].id) /\ o.count = Len(l)
               \/ o.rank = Rank(r, l[k].id) /\ o.count = Len(r)
      BY <3>1, <3>3, <3>4, OwnBlock
    <3> QED BY <3>1, <3>3, <3>4, <3>5 DEF OrderedBlocks
  <2>2. PICK x \in O : /\ x.tenths \in {0, 1} /\ x.block.id = l[i].id
                       /\ x.rank = i - 1 /\ x.count = n
    BY <2>1
  <2>3. PICK y \in O : /\ y.tenths \in {0, 1} /\ y.block.id = l[j].id
                       /\ y.rank = j - 1 /\ y.count = n
    BY <2>1
  <2>4. GoesBefore(x, y)
    <3>1. n \in Nat /\ n < 10 /\ i \in 1 .. n /\ j \in 1 .. n
      BY <1>2
    <3>2. x.tenths \in {0, 1} /\ y.tenths \in {0, 1}
      BY <2>2, <2>3
    <3>3. x.rank = i - 1 /\ y.rank = j - 1 /\ x.count = n /\ y.count = n
      BY <2>2, <2>3
    <3> HIDE DEF n, O
    <3>4. n \in 1 .. 9 /\ i < j
      BY <3>1
    <3>5. \A u, v :
            /\ u.tenths \in {0, 1} /\ v.tenths \in {0, 1}
            /\ u.rank = i - 1 /\ v.rank = j - 1 /\ u.count = n /\ v.count = n
            => GoesBefore(u, v)
      BY <3>1, <3>4, TenthLemma
    <3> QED BY <3>2, <3>3, <3>5, Zenon
  <2>5. IsFiniteSet(O) /\ Placed(O)
    BY OrderedBlocksLemma
  <2>6. merged = [k \in DOMAIN s |-> s[k].block]
    BY <1>5 DEF BuildMergedBlocks
  <2> HIDE DEF O, s
  <2>7. /\ DOMAIN s = 1 .. Cardinality(O) /\ Cardinality(O) \in Nat
        /\ \A z \in O : \E k \in DOMAIN s : s[k] = z
        /\ \A k, m \in DOMAIN s : k < m => GoesBefore(s[k], s[m])
    BY <2>5, SortLemma DEF s
  <2>8. PICK k \in DOMAIN s : s[k] = x
    BY <2>7
  <2>9. PICK m \in DOMAIN s : s[m] = y
    BY <2>7
  <2>10. k < m
    <3>1. ~GoesBefore(y, x) /\ x # y
      BY <2>4, <2>5, OrderLemma
    <3>2. ~(m < k) /\ m # k
      BY <2>7, <2>8, <2>9, <3>1
    <3> QED BY <2>7, <3>2
  <2>11. DOMAIN merged = DOMAIN s /\ merged[k].id = l[i].id /\ merged[m].id = l[j].id
    BY <2>2, <2>3, <2>6, <2>8, <2>9
  <2> HIDE DEF merged
  <2>12. Follow(merged, l[i].id, l[j].id)
    BY <2>10, <2>11 DEF Follow
  <2> QED BY <2>12 DEF merged
<1> QED BY <1>3, <1>4, <1>5

-----------------------------------------------------------------------------
(* Conflict merge: the window and the page.                                 *)

LEMMA ConflictSides ==
  ASSUME MergeTypeOK, conflict # Missing
  PROVE  Sides(conflict) /\ conflict.base \in Nat
<1>1. PICK c \in Conflicts, state \in {"pending", "resolved"} :
        conflict = [local |-> c.local, remote |-> c.remote, base |-> c.base, state |-> state]
  BY DEF MergeTypeOK
<1>2. conflict.local = c.local /\ conflict.remote = c.remote /\ conflict.base = c.base
  BY <1>1
<1>3. c.local \in Snapshots /\ c.remote \in Snapshots
  BY DEF Snapshots
<1>4. c.base \in Nat
  BY MergeAssumption
<1> QED BY <1>2, <1>3, <1>4 DEF Sides

\* The window that is opened shows the conflict.
LEMMA LoadLemma ==
  ASSUME NEW c
  PROVE  ShowsConflict(LoadConflict(c), c)
<1> DEFINE rows == LoadConflict(c)
           ids == Ids(c.local.blocks) \cup Ids(c.remote.blocks)
<1>1. DOMAIN rows = ids /\ rows = [id \in ids |-> rows[id]]
  BY DEF LoadConflict
<1>2. ASSUME NEW id \in ids
      PROVE  \E choice \in {"local", "remote", "both"} :
               rows[id] = [rows[id] EXCEPT !.choice = choice]
  <2> DEFINE choice == IF id \in Ids(c.local.blocks) THEN "local" ELSE "remote"
  <2>1. rows[id] = [local |-> BlockWith(c.local.blocks, id),
                    remote |-> BlockWith(c.remote.blocks, id), choice |-> choice]
    BY <1>2 DEF LoadConflict
  <2>2. rows[id] = [rows[id] EXCEPT !.choice = choice]
    BY <2>1
  <2> QED BY <2>2
<1> QED BY <1>1, <1>2 DEF ShowsConflict

\* Another choice changes nothing else that the window shows.
LEMMA ChoiceLemma ==
  ASSUME NEW c, NEW rows, ShowsConflict(rows, c), NEW new,
         new = [id \in DOMAIN rows |-> new[id]],
         \A id \in DOMAIN rows : \/ new[id] = rows[id]
                                 \/ \E choice \in {"local", "remote", "both"} :
                                      new[id] = [rows[id] EXCEPT !.choice = choice]
  PROVE  ShowsConflict(new, c)
<1> DEFINE ids == Ids(c.local.blocks) \cup Ids(c.remote.blocks)
<1>1. DOMAIN rows = ids /\ DOMAIN new = ids /\ new = [id \in ids |-> new[id]]
  BY DEF ShowsConflict
<1>2. ASSUME NEW id \in ids
      PROVE  \E choice \in {"local", "remote", "both"} :
               new[id] = [LoadConflict(c)[id] EXCEPT !.choice = choice]
  <2>1. PICK old \in {"local", "remote", "both"} :
          rows[id] = [LoadConflict(c)[id] EXCEPT !.choice = old]
    BY <1>1 DEF ShowsConflict
  <2>2. CASE new[id] = rows[id]
    BY <2>1, <2>2
  <2>3. ASSUME NEW choice \in {"local", "remote", "both"},
               new[id] = [rows[id] EXCEPT !.choice = choice]
        PROVE  new[id] = [LoadConflict(c)[id] EXCEPT !.choice = choice]
    <3> DEFINE row == LoadConflict(c)[id]
    <3>1. row = [local |-> row.local, remote |-> row.remote, choice |-> row.choice]
      BY <1>2 DEF LoadConflict
    <3> HIDE DEF row
    <3>2. rows[id] = [local |-> row.local, remote |-> row.remote, choice |-> old]
      BY <2>1, <3>1 DEF row
    <3>3. [rows[id] EXCEPT !.choice = choice]
            = [local |-> row.local, remote |-> row.remote, choice |-> choice]
      BY <3>2
    <3>4. [row EXCEPT !.choice = choice]
            = [local |-> row.local, remote |-> row.remote, choice |-> choice]
      BY <3>1
    <3> QED BY <2>3, <3>3, <3>4 DEF row
  <2> QED BY <1>1, <1>2, <2>2, <2>3
<1> QED BY <1>1, <1>2 DEF ShowsConflict

\* What saveMerge stores is a page.
LEMMA MergedIsPage ==
  ASSUME MergeTypeOK, window # Missing, conflict # Missing, NEW current \in {stored, Missing}
  PROVE  LET record == MergedRecord(BuildMergedDocument(conflict, window), current)
         IN record \in StoredPage /\ record # Missing
<1> DEFINE doc == BuildMergedDocument(conflict, window)
           record == MergedRecord(doc, current)
<1>1. Sides(conflict) /\ conflict.base \in Nat
  BY ConflictSides
<1>2. ShowsConflict(window, conflict)
  BY DEF MergeTypeOK
<1>3. BuildMergedBlocks(conflict, window) \in Seq(Blocks \cup Copies)
  BY <1>1, <1>2, MergedLemma
<1>4. conflict.local.title \in Titles /\ conflict.remote.title \in Titles
  BY <1>1, SnapshotBlocks DEF Sides
<1>5. doc.title \in Titles /\ doc.blocks \in Seq(Blocks \cup Copies)
  BY <1>3, <1>4 DEF BuildMergedDocument
<1>6. current = Missing \/ current \in StoredPage
  BY DEF MergeTypeOK
<1> HIDE DEF doc
<1>7. current # Missing => current.placed \in BOOLEAN /\ current.version \in Nat
  BY <1>6 DEF StoredPage
<1>8. (current # Missing /\ current.placed) \in BOOLEAN
  OBVIOUS
<1>9. MaxOf(MaxOf(1, IF current = Missing THEN 1 ELSE current.version), conflict.base) + 1 \in Nat
  BY <1>1, <1>7 DEF MaxOf
<1>10. record \in StoredPage
  BY <1>5, <1>8, <1>9 DEF MergedRecord, StoredPage
<1>11. Missing \notin StoredPage
  BY MergeAssumption
<1> QED BY <1>10, <1>11 DEF doc

LEMMA MergeTypeInit ==
  ASSUME ConflictRecorded
  PROVE  MergeTypeOK
<1>1. PICK c \in Conflicts, side \in {"local", "remote"} :
        /\ conflict = [local |-> c.local, remote |-> c.remote, base |-> c.base, state |-> "pending"]
        /\ stored = [title |-> c[side].title, blocks |-> c[side].blocks,
                     placed |-> TRUE, version |-> c.base]
  BY DEF ConflictRecorded
<1>2. c[side] \in Snapshots
  <2>1. c.local \in Snapshots /\ c.remote \in Snapshots
    BY DEF Snapshots
  <2> QED BY <2>1
<1>3. c[side].title \in Titles /\ c[side].blocks \in Seq(Blocks)
  BY <1>2, SnapshotBlocks
<1>4. c[side].blocks \in Seq(Blocks \cup Copies)
  BY <1>3
<1>5. c.base \in Nat
  BY MergeAssumption
<1>6. stored \in StoredPage
  BY <1>1, <1>3, <1>4, <1>5 DEF StoredPage
<1>7. window = Missing
  BY DEF ConflictRecorded
<1> QED BY <1>1, <1>6, <1>7 DEF MergeTypeOK

LEMMA MergeTypeStep ==
  ASSUME MergeTypeOK, [MergeNext]_mergeVars
  PROVE  MergeTypeOK'
<1> DEFINE StoredOK == stored \in StoredPage \cup {Missing}
           ConflictOK == conflict # Missing =>
             \E c \in Conflicts, state \in {"pending", "resolved"} :
               conflict = [local |-> c.local, remote |-> c.remote, base |-> c.base, state |-> state]
           WindowOK == window # Missing /\ conflict # Missing => ShowsConflict(window, conflict)
<1>0. StoredOK /\ ConflictOK /\ WindowOK
  BY DEF MergeTypeOK
<1>1. ASSUME StoredOK', ConflictOK', WindowOK' PROVE MergeTypeOK'
  BY <1>1 DEF MergeTypeOK
<1>2. CASE ShowConflictWindow
  <2>1. stored' = stored /\ conflict' = conflict
    BY <1>2 DEF ShowConflictWindow
  <2>2. conflict # Missing => window' = LoadConflict(conflict)
    BY <1>2 DEF ShowConflictWindow
  <2>3. WindowOK'
    BY <2>1, <2>2, LoadLemma
  <2> QED BY <1>0, <1>1, <2>1, <2>3
<1>3. ASSUME NEW id, NEW choice \in {"local", "remote", "both"}, SetResolution(id, choice)
      PROVE  MergeTypeOK'
  <2>1. /\ stored' = stored /\ conflict' = conflict /\ window # Missing
        /\ window' = [window EXCEPT ![id].choice = choice]
    BY <1>3 DEF SetResolution
  <2>2. ASSUME conflict # Missing PROVE ShowsConflict(window', conflict)
    <3>1. ShowsConflict(window, conflict)
      BY <1>0, <2>1, <2>2
    <3>2. /\ window' = [k \in DOMAIN window |-> window'[k]]
          /\ \A k \in DOMAIN window : \/ window'[k] = window[k]
                                      \/ window'[k] = [window[k] EXCEPT !.choice = choice]
      BY <2>1
    <3> QED BY <3>1, <3>2, ChoiceLemma
  <2>3. WindowOK'
    BY <2>1, <2>2
  <2> QED BY <1>0, <1>1, <2>1, <2>3
<1>4. ASSUME NEW choice \in {"local", "remote", "both"}, SetResolutionForAll(choice)
      PROVE  MergeTypeOK'
  <2>1. /\ stored' = stored /\ conflict' = conflict /\ window # Missing
        /\ window' = [id \in DOMAIN window |-> [window[id] EXCEPT !.choice = choice]]
    BY <1>4 DEF SetResolutionForAll
  <2>2. ASSUME conflict # Missing PROVE ShowsConflict(window', conflict)
    <3>1. ShowsConflict(window, conflict)
      BY <1>0, <2>1, <2>2
    <3>2. /\ window' = [k \in DOMAIN window |-> window'[k]]
          /\ \A k \in DOMAIN window : window'[k] = [window[k] EXCEPT !.choice = choice]
      BY <2>1
    <3> QED BY <3>1, <3>2, ChoiceLemma
  <2>3. WindowOK'
    BY <2>1, <2>2
  <2> QED BY <1>0, <1>1, <2>1, <2>3
<1>5. CASE cancelMerge
  <2>1. stored' = stored /\ conflict' = conflict /\ window' = Missing
    BY <1>5 DEF cancelMerge
  <2> QED BY <1>0, <1>1, <2>1
<1>6. CASE saveMerge
  <2>1. PICK current \in {stored, Missing} :
          SaveAndResolve(MergedRecord(BuildMergedDocument(conflict, window), current))
    BY <1>6 DEF saveMerge
  <2>2. window # Missing /\ conflict # Missing
    BY <1>6 DEF saveMerge
  <2> DEFINE record == MergedRecord(BuildMergedDocument(conflict, window), current)
  <2>3. record \in StoredPage
    BY <2>2, MergedIsPage
  <2> HIDE DEF record
  <2>4. SaveAndResolve(record)
    BY <2>1 DEF record
  <2>5. CASE UNCHANGED mergeVars
    BY <1>0, <1>1, <2>5 DEF mergeVars
  <2>6. CASE stored' = record /\ UNCHANGED <<conflict, window>>
    BY <1>0, <1>1, <2>3, <2>6
  <2>7. CASE /\ stored' = record /\ window' = Missing
             /\ conflict' = [conflict EXCEPT !.state = "resolved"]
    <3>1. PICK c \in Conflicts, state \in {"pending", "resolved"} :
            conflict = [local |-> c.local, remote |-> c.remote, base |-> c.base, state |-> state]
      BY <1>0, <2>2
    <3>2. conflict' = [local |-> c.local, remote |-> c.remote, base |-> c.base,
                       state |-> "resolved"]
      BY <2>7, <3>1
    <3>3. ConflictOK'
      BY <3>2
    <3> QED BY <1>1, <2>3, <2>7, <3>3
  <2> QED BY <2>4, <2>5, <2>6, <2>7 DEF SaveAndResolve
<1>7. ASSUME NEW d \in Pulled, PullPage(d) PROVE MergeTypeOK'
  <2>1. /\ stored \in StoredPage /\ conflict' = conflict /\ window' = window
        /\ stored' = [stored EXCEPT !.title = d.title, !.blocks = d.blocks, !.version = @ + 1]
    BY <1>0, <1>7 DEF PullPage
  <2>2. d.title \in Titles /\ d.blocks \in Seq(Blocks)
    BY SnapshotBlocks DEF Snapshots
  <2>3. d.blocks \in Seq(Blocks \cup Copies)
    BY <2>2
  <2>4. stored' \in StoredPage
    <3>1. stored = [title |-> stored.title, blocks |-> stored.blocks,
                    placed |-> stored.placed, version |-> stored.version]
      BY <2>1 DEF StoredPage
    <3>2. stored.placed \in BOOLEAN /\ stored.version + 1 \in Nat
      BY <2>1 DEF StoredPage
    <3>3. stored' = [title |-> d.title, blocks |-> d.blocks,
                     placed |-> stored.placed, version |-> stored.version + 1]
      BY <2>1, <3>1
    <3> QED BY <2>2, <2>3, <3>2, <3>3 DEF StoredPage
  <2> QED BY <1>0, <1>1, <2>1, <2>4
<1>8. CASE PullDeletion
  <2>1. stored' = Missing /\ conflict' = conflict /\ window' = window
    BY <1>8 DEF PullDeletion
  <2> QED BY <1>0, <1>1, <2>1
<1>9. CASE DeleteDocument
  <2>1. stored' = Missing /\ conflict' = Missing
    BY <1>9 DEF DeleteDocument
  <2> QED BY <1>1, <2>1
<1>10. CASE UNCHANGED mergeVars
  BY <1>0, <1>1, <1>10 DEF mergeVars
<1>11. CASE MergeNext
  <2>1. CASE WindowNext
    BY <1>2, <1>3, <1>4, <1>5, <1>6, <2>1 DEF WindowNext
  <2> QED BY <1>7, <1>8, <1>9, <1>11, <2>1 DEF MergeNext
<1> QED BY <1>10, <1>11

\* The page, the conflict and the window stay what they are thought to be: in
\* particular the rows of an open window are those of the conflict that is
\* saved, whatever is pulled or deleted meanwhile (conflict_merge_window.cc).
THEOREM MergeTypeCorrect == MergeSpec => []MergeTypeOK
<1>1. ConflictRecorded => MergeTypeOK
  BY MergeTypeInit
<1>2. MergeTypeOK /\ [MergeNext]_mergeVars => MergeTypeOK'
  BY MergeTypeStep
<1> QED BY <1>1, <1>2, PTL DEF MergeSpec

-----------------------------------------------------------------------------
(* Conflict merge: what is saved.                                           *)

\* What the user sees is what is merged (ConflictMergeModel::BuildMergedBlocks):
\* for any sides that are valid pages and any choices, the merged page has the
\* chosen blocks, each of them once, and in their order if neither side has
\* changed that and there are fewer than ten.
THEOREM ChoicesCorrect == MergeSpec => []MergeKeepsChoices
<1>1. ASSUME MergeTypeOK PROVE MergeKeepsChoices
  <2> SUFFICES ASSUME window # Missing, conflict # Missing
               PROVE  LET merged == BuildMergedBlocks(conflict, window)
                          chosen == (UNION {ChosenBlocks(window[id]) : id \in DOMAIN window})
                                      \ {Missing}
                          l == conflict.local.blocks
                          r == conflict.remote.blocks
                      IN /\ ToSet(merged) = chosen /\ IsInjective(merged)
                         /\ Len(l) = Len(r) /\ Len(l) < 10
                              /\ (\A i \in DOMAIN l : l[i].id = r[i].id) =>
                              \A i, j \in DOMAIN l : i < j => Follow(merged, l[i].id, l[j].id)
    BY DEF MergeKeepsChoices
  <2>1. Sides(conflict) /\ ShowsConflict(window, conflict)
    BY <1>1, ConflictSides DEF MergeTypeOK
  <2>2. LET merged == BuildMergedBlocks(conflict, window)
        IN /\ ToSet(merged) = (UNION {ChosenBlocks(window[id]) : id \in DOMAIN window}) \ {Missing}
           /\ IsInjective(merged)
    BY <2>1, MergedLemma
  <2>3. ASSUME Len(conflict.local.blocks) = Len(conflict.remote.blocks),
               Len(conflict.local.blocks) < 10,
               \A i \in DOMAIN conflict.local.blocks :
                 conflict.local.blocks[i].id = conflict.remote.blocks[i].id,
               NEW i \in DOMAIN conflict.local.blocks,
               NEW j \in DOMAIN conflict.local.blocks, i < j
        PROVE  Follow(BuildMergedBlocks(conflict, window),
                      conflict.local.blocks[i].id, conflict.local.blocks[j].id)
    BY <2>1, <2>3, OrderKept
  <2> QED BY <2>2, <2>3
<1> QED BY <1>1, MergeTypeCorrect, PTL

\* No page with an id that occurs twice is stored (DocumentValidator, before
\* every SaveDocument), though the two copies of "both" may share children.
THEOREM UniqueCorrect == MergeSpec => []BlocksAreUnique
<1>1. ASSUME stored # Missing => UniqueIds(stored.blocks) PROVE BlocksAreUnique
  BY <1>1 DEF BlocksAreUnique, UniqueIds
<1>2. ASSUME BlocksAreUnique, stored # Missing PROVE UniqueIds(stored.blocks)
  BY <1>2 DEF BlocksAreUnique, UniqueIds
<1>3. ASSUME NEW d \in Snapshots PROVE UniqueIds(d.blocks)
  BY MergeAssumption, ValidIsUnique
<1>4. ConflictRecorded => BlocksAreUnique
  <2> SUFFICES ASSUME ConflictRecorded PROVE UniqueIds(stored.blocks)
    BY <1>1
  <2>1. PICK c \in Conflicts, side \in {"local", "remote"} : stored.blocks = c[side].blocks
    BY DEF ConflictRecorded
  <2>2. c.local \in Snapshots /\ c.remote \in Snapshots
    BY DEF Snapshots
  <2> QED BY <1>3, <2>1, <2>2
<1>5. ASSUME MergeTypeOK, BlocksAreUnique, [MergeNext]_mergeVars PROVE BlocksAreUnique'
  <2>1. ASSUME stored' # Missing => UniqueIds(stored'.blocks) PROVE BlocksAreUnique'
    BY <2>1 DEF BlocksAreUnique, UniqueIds
  <2>2. CASE stored' = stored
    BY <1>2, <1>5, <2>1, <2>2
  <2>3. CASE stored' = Missing
    BY <2>1, <2>3
  <2>4. CASE saveMerge
    <3> DEFINE doc == BuildMergedDocument(conflict, window)
    <3>1. UniqueIds(doc.blocks)
      BY <2>4, ValidIsUnique DEF saveMerge
    <3>2. PICK current \in {stored, Missing} : SaveAndResolve(MergedRecord(doc, current))
      BY <2>4 DEF saveMerge
    <3> HIDE DEF doc
    <3>3. MergedRecord(doc, current).blocks = doc.blocks
      BY DEF MergedRecord
    <3>4. stored' = stored \/ stored' = MergedRecord(doc, current)
      BY <3>2 DEF SaveAndResolve, mergeVars
    <3> QED BY <2>1, <2>2, <3>1, <3>3, <3>4
  <2>5. ASSUME NEW d \in Pulled, PullPage(d) PROVE BlocksAreUnique'
    <3>1. stored \in StoredPage
      BY <1>5, <2>5 DEF PullPage, MergeTypeOK
    <3>2. stored'.blocks = d.blocks
      BY <2>5, <3>1 DEF PullPage, StoredPage
    <3>3. UniqueIds(d.blocks)
      BY <1>3 DEF Snapshots
    <3> QED BY <2>1, <3>2, <3>3
  <2>6. ASSUME WindowNext PROVE saveMerge \/ stored' = stored
    BY <2>6 DEF WindowNext, ShowConflictWindow, SetResolution, SetResolutionForAll, cancelMerge
  <2>7. ASSUME MergeNext PROVE \/ saveMerge \/ stored' = stored \/ stored' = Missing
                               \/ \E d \in Pulled : PullPage(d)
    BY <2>6, <2>7 DEF MergeNext, PullDeletion, DeleteDocument
  <2> QED BY <1>5, <2>2, <2>3, <2>4, <2>5, <2>7 DEF mergeVars
<1> QED BY <1>4, <1>5, MergeTypeCorrect, PTL DEF MergeSpec

\* No side is discarded silently (ConflictMergeWindow::saveMerge): a conflict
\* stops being pending with the merge in the page, or with the page.
THEOREM ResolvedCorrect == MergeSpec => ResolvedIsSaved
<1> DEFINE Saved ==
      conflict # Missing /\ conflict.state = "pending" /\ conflict' # conflict =>
        IF stored' = Missing THEN conflict' = Missing
        ELSE [title |-> stored'.title, blocks |-> stored'.blocks]
               = BuildMergedDocument(conflict, window)
<1>1. ASSUME MergeTypeOK, [MergeNext]_mergeVars PROVE [Saved]_mergeVars
  <2>1. CASE conflict' = conflict
    BY <2>1
  <2>2. CASE DeleteDocument
    BY <2>2 DEF DeleteDocument
  <2>3. ASSUME saveMerge, conflict' # conflict PROVE Saved
    <3> DEFINE doc == BuildMergedDocument(conflict, window)
    <3>1. PICK current \in {stored, Missing} : SaveAndResolve(MergedRecord(doc, current))
      BY <2>3 DEF saveMerge
    <3>2. MergedRecord(doc, current) # Missing
      BY <1>1, <2>3, MergedIsPage DEF saveMerge
    <3>3. doc = [title |-> doc.title, blocks |-> doc.blocks]
      BY DEF BuildMergedDocument
    <3> HIDE DEF doc
    <3>4. /\ MergedRecord(doc, current).title = doc.title
          /\ MergedRecord(doc, current).blocks = doc.blocks
      BY DEF MergedRecord
    <3>5. stored' = MergedRecord(doc, current)
      BY <2>3, <3>1 DEF SaveAndResolve, mergeVars
    <3>6. [title |-> stored'.title, blocks |-> stored'.blocks] = doc
      BY <3>3, <3>4, <3>5
    <3>7. stored' # Missing
      BY <3>2, <3>5
    <3> QED BY <3>6, <3>7 DEF doc
  <2>4. ASSUME WindowNext PROVE saveMerge \/ conflict' = conflict
    BY <2>4 DEF WindowNext, ShowConflictWindow, SetResolution, SetResolutionForAll, cancelMerge
  <2>5. ASSUME NEW d \in Pulled, PullPage(d) PROVE conflict' = conflict
    BY <2>5 DEF PullPage
  <2>6. CASE MergeNext
    <3>1. CASE WindowNext
      BY <2>1, <2>3, <2>4, <3>1
    <3>2. CASE PullDeletion
      BY <2>1, <3>2 DEF PullDeletion
    <3> QED BY <2>1, <2>2, <2>5, <2>6, <3>1, <3>2 DEF MergeNext
  <2> QED BY <1>1, <2>1, <2>6 DEF mergeVars
<1>2. MergeTypeOK /\ [MergeNext]_mergeVars => [Saved]_mergeVars
  BY <1>1
<1> QED BY <1>2, MergeTypeCorrect, PTL DEF MergeSpec, ResolvedIsSaved
=============================================================================
