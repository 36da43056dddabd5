---------------------------- MODULE EditorBridge ----------------------------
(***************************************************************************)
(* The contents of pages between the web editor and the store: the page    *)
(* half of QEditorBridge (src/src/bridge/editor_bridge.cc: open, save,     *)
(* revisions, imports, access and conflict flags), the handlers of Page    *)
(* (src/src/gui/page.cc) around it and the merge dialog's way of writing a *)
(* page (src/src/gui/merge/conflict_merge_resolution.cc).                  *)
(*                                                                         *)
(* Page and bridge share the GUI thread: one handler is one step.  The web *)
(* editor runs in another process; signals reach it and its calls come back*)
(* over a channel that keeps each direction in order.  It saves a moment   *)
(* after an edit, for the page the edit was made in, and before it opens   *)
(* another page.  What it does is modelled from the calls it makes.        *)
(*                                                                         *)
(* A content is the page it was written for and a number.  Which access a  *)
(* page gets is the matter of EditSession (any answer here); trees, the    *)
(* trash and deletion that of PageTree; titles and kinds other than wiki   *)
(* pages, which the editor saves in the same way, are left out.            *)
(***************************************************************************)
EXTENDS Naturals, Sequences, FiniteSets

CONSTANTS
  Docs,        \* page ids
  Workspaces,
  WsOf,        \* page id -> its workspace
  NoDoc,       \* no page: an empty id
  Absent,      \* the content of a page not created yet
  Cap,         \* kMaxRevisionsPerDocument
  MaxTexts,    \* bound on texts ever written
  MaxSignals,  \* bound on the signals to the web editor under way
  MaxCalls,    \* bound on its calls under way
  MaxImports,  \* bound on Markdown imports
  MaxConflicts,\* bound on pending conflicts
  MaxFaults    \* bound on storage errors

ASSUME EditorBridgeAssumption ==
  /\ NoDoc \notin Docs /\ WsOf \in [Docs -> Workspaces]
  /\ Absent \notin Docs \X Nat
  /\ Cap \in Nat \ {0} /\ MaxTexts \in Nat /\ MaxSignals \in Nat /\ MaxCalls \in Nat /\ MaxFaults \in Nat

VARIABLES
  content,   \* page id -> what is stored
  revs,      \* page id -> its revisions, newest first
  conflicts, \* pages with a pending conflict record
  stash,     \* pending_markdown_imports_, and what became of an import
  page,      \* Page: selected; ask: its view session is not answered yet
  bridge,    \* QEditorBridge: ws, current, editable, conflict, pending
  js,        \* web editor: shown, text, editable; timer: page of a save to come
  wire,      \* toJs: signals, toCpp: calls
  texts,     \* texts written so far
  faults     \* storage errors so far

vars == <<content, revs, conflicts, stash, page, bridge, js, wire, texts, faults>>
store == <<content, revs, conflicts, stash>>

Text == Docs \X (0..(MaxTexts + 1))
Imported(d) == <<d, MaxTexts + 1>>

Init ==
  /\ content = [d \in Docs |-> Absent] /\ revs = [d \in Docs |-> <<>>]
  /\ conflicts = {} /\ stash = [d \in Docs |-> "none"]
  /\ page = [selected |-> NoDoc, ask |-> FALSE]
  /\ \E w \in Workspaces :
       bridge = [ws |-> w, current |-> NoDoc, editable |-> TRUE, conflict |-> FALSE,
                 pending |-> TRUE]
  /\ js = [shown |-> NoDoc, text |-> Absent, editable |-> TRUE, timer |-> NoDoc]
  /\ wire = [toJs |-> <<>>, toCpp |-> <<>>]
  /\ texts = 0 /\ faults = 0

Emit(signals) == wire' = [wire EXCEPT !.toJs = @ \o signals]
Room == Len(wire.toJs) < MaxSignals
Fault == faults < MaxFaults /\ faults' = faults + 1

\* A text nobody has written yet.
Fresh(d) == <<d, texts + 1>>
Write == texts < MaxTexts /\ texts' = texts + 1

-----------------------------------------------------------------------------
(* The shell page.                                                          *)

AccessSignal(e) == [op |-> "access", doc |-> NoDoc, text |-> Absent, editable |-> e]
OpenSignal(d) == [op |-> "open", doc |-> d, text |-> Absent, editable |-> FALSE]
LoadedSignal(d, t, e) == [op |-> "loaded", doc |-> d, text |-> t, editable |-> e]
ClearedSignal == [op |-> "cleared", doc |-> NoDoc, text |-> Absent, editable |-> TRUE]

\* selected_page_id_ becomes d and its view session is asked for.  A request to
\* the backend client takes the place of an earlier one (session_request_id_).
OpenDocumentWithAccess(d) == [selected |-> d, ask |-> TRUE]

\* Mutant: the access of the page left stays.
ClearCurrentDocumentSelection_KeepAccess(b) == [b EXCEPT !.current = NoDoc, !.conflict = FALSE]

ClearCurrentDocumentSelection(b) ==
  [b EXCEPT !.current = NoDoc, !.editable = TRUE, !.conflict = FALSE]

\* ActivateWorkspace(w), then "then" is done to the page.
Activate(w, then) ==
  IF w = bridge.ws THEN page' = then /\ UNCHANGED <<bridge, wire>>
  ELSE /\ Room
       /\ page' = then
       /\ bridge' = [ClearCurrentDocumentSelection(bridge) EXCEPT !.ws = w]
       /\ Emit(<<ClearedSignal>>)

\* OnTreePressed on a page, also on the one selected; the revision history
\* dialog when it is closed; RefreshSelectedDocumentAccess.
SelectDocument(d) ==
  /\ content[d] # Absent
  /\ Activate(WsOf[d], OpenDocumentWithAccess(d))
  /\ UNCHANGED <<store, js, texts, faults>>

\* OnTreePressed on a workspace.
SelectWorkspace(w) ==
  /\ w # bridge.ws
  /\ Activate(w, [selected |-> NoDoc, ask |-> FALSE])
  /\ UNCHANGED <<store, js, texts, faults>>

\* CreateNewDocument, CreateChildDocument; ImportDocumentAsNewFile with a
\* Markdown file, whose text waits in the bridge for the first time the page is
\* opened, or with another kind of file, whose text is stored at once
\* (SeedNewDocumentRawContent), or not if that fails: the page then stays, but
\* is not selected.
CreateDocument(d) ==
  /\ content[d] = Absent
  /\ \/ /\ \/ content' = [content EXCEPT ![d] = <<d, 0>>] /\ UNCHANGED <<stash, texts>>
           \/ /\ content' = [content EXCEPT ![d] = <<d, 0>>]
              /\ Cardinality({c \in Docs : stash[c] # "none"}) < MaxImports
              /\ stash' = [stash EXCEPT ![d] = "stashed"] /\ UNCHANGED texts
           \/ content' = [content EXCEPT ![d] = Fresh(d)] /\ Write /\ UNCHANGED stash
        /\ Activate(WsOf[d], OpenDocumentWithAccess(d))
        /\ UNCHANGED faults
     \/ /\ content' = [content EXCEPT ![d] = <<d, 0>>] /\ Fault
        /\ UNCHANGED <<stash, texts, page, bridge, wire>>
  /\ UNCHANGED <<revs, conflicts, js>>

\* The answer of OpenDocumentViewSession.
ViewAnswered(e) ==
  /\ page.ask /\ Room
  /\ page' = [page EXCEPT !.ask = FALSE]
  /\ bridge' = [bridge EXCEPT !.pending = e]
  /\ Emit(<<OpenSignal(page.selected)>>)
  /\ UNCHANGED <<store, js, texts, faults>>

\* SetCurrentDocumentAccess: the answer to EnterEditMode or ExitEditMode, asked
\* for the page selected and given to the page open, or documentAccessInvalidated.
\* The request has taken the place of a view session not answered yet; what
\* happens between it and its answer does not depend on it, so they are one step.
SetCurrentDocumentAccess(e) ==
  /\ page.selected # NoDoc /\ Room
  /\ page' = [page EXCEPT !.ask = FALSE]
  /\ bridge' = [bridge EXCEPT !.editable = e]
  /\ Emit(<<AccessSignal(e)>>)
  /\ UNCHANGED <<store, js, texts, faults>>

\* ApplyConflictStateForDocument(d) for the page selected, given the pages
\* ListConflicts returns as pending (none of them if it fails).
ApplyConflictStateForDocument(b, d, pending) ==
  IF d = page.selected /\ d # NoDoc THEN [b EXCEPT !.conflict = d \in pending] ELSE b

-----------------------------------------------------------------------------
(* Calls of the web editor.                                                 *)

SaveCall(d, t, then) == [op |-> "save", doc |-> d, text |-> t, then |-> then]
OpenCall(d) == [op |-> "open", doc |-> d, text |-> Absent, then |-> NoDoc]

Rejected(d) == d = bridge.current /\ (~bridge.editable \/ bridge.conflict)

\* Mutant: the revision kept is the text that is saved.
RecordDocumentRevision_New(d, t) ==
  revs' = [revs EXCEPT ![d] = SubSeq(<<t>> \o @, 1, 1)] /\ UNCHANGED faults

\* Mutant: old revisions are not removed.
RecordDocumentRevision_NoPrune(d, t) ==
  revs' = [revs EXCEPT ![d] = <<content[d]>> \o @] /\ UNCHANGED faults

\* The content that is overwritten by t becomes a revision, the oldest ones go.
\* Errors are only logged: none may be kept, or more than Cap.
RecordDocumentRevision(d, t) ==
  LET all == <<content[d]>> \o revs[d] IN
  \/ revs' = [revs EXCEPT ![d] = SubSeq(all, 1, IF Len(all) < Cap THEN Len(all) ELSE Cap)]
     /\ UNCHANGED faults
  \/ Fault /\ \E r \in {revs[d], all} : revs' = [revs EXCEPT ![d] = r]

\* The page a save is written to: the one it was made for, if it is open.
Target(d) == IF d = bridge.current THEN d ELSE NoDoc

\* updateSnapshot(d, t)
UpdateSnapshot(d, t) ==
  LET target == Target(d) IN
  \/ /\ target # NoDoc /\ ~Rejected(target)
     /\ content' = [content EXCEPT ![target] = t]
     /\ stash' = [stash EXCEPT ![target] = IF @ = "taken" THEN "saved" ELSE @]
     /\ IF content[target] # t THEN RecordDocumentRevision(target, t) ELSE UNCHANGED <<revs, faults>>
  \/ target # NoDoc /\ ~Rejected(target) /\ Fault /\ UNCHANGED <<content, stash, revs>>
  \/ (target = NoDoc \/ Rejected(target)) /\ UNCHANGED <<content, stash, revs, faults>>

\* A save comes in.  The answer to the one that precedes opening a page makes
\* the editor open it.
SaveArrives ==
  /\ wire.toCpp # <<>> /\ Head(wire.toCpp).op = "save"
  /\ LET c == Head(wire.toCpp) IN
     /\ UpdateSnapshot(c.doc, c.text)
     /\ wire' = [wire EXCEPT !.toCpp =
                   IF c.then = NoDoc THEN Tail(@) ELSE Append(Tail(@), OpenCall(c.then))]
  /\ UNCHANGED <<conflicts, page, bridge, js, texts>>

\* openDocument and loadDocument; documentLoaded reaches Page at once and the
\* editor later.  A stashed import goes with it.
OpenDocument ==
  /\ wire.toCpp # <<>> /\ Head(wire.toCpp).op = "open"
  /\ LET d == Head(wire.toCpp).doc IN
     IF WsOf[d] # bridge.ws
     THEN /\ wire' = [wire EXCEPT !.toCpp = Tail(@)]
          /\ UNCHANGED <<bridge, stash, faults>>
     ELSE /\ \E pending \in {conflicts, {}} :
               /\ bridge' = ApplyConflictStateForDocument(
                               [bridge EXCEPT !.current = d, !.editable = bridge.pending,
                                              !.conflict = FALSE], d, pending)
               /\ IF pending = conflicts THEN UNCHANGED faults ELSE Fault
          /\ stash' = [stash EXCEPT ![d] = IF @ = "stashed" THEN "taken" ELSE @]
          /\ wire' = [toCpp |-> Tail(wire.toCpp),
                      toJs |-> wire.toJs \o
                        <<LoadedSignal(d, IF stash[d] = "stashed" THEN Imported(d) ELSE content[d],
                                       bridge.pending)>>]
  /\ UNCHANGED <<content, revs, conflicts, page, js, texts>>

-----------------------------------------------------------------------------
(* Revisions and conflicts.                                                 *)

\* restoreDocumentRevision, from the revision history dialog.
RestoreDocumentRevision(d) ==
  /\ content[d] # Absent /\ WsOf[d] = bridge.ws /\ ~Rejected(d)
  /\ \E i \in DOMAIN revs[d] :
       /\ RecordDocumentRevision(d, revs[d][i])
       /\ \/ content' = [content EXCEPT ![d] = revs[d][i]]
          \/ faults < MaxFaults /\ faults' = faults + 1 /\ UNCHANGED content
  /\ UNCHANGED <<conflicts, stash, page, bridge, js, wire, texts>>

\* The resolver of the replicator keeps the local content and records a
\* conflict.  Nothing tells the bridge.
ConflictDetected(d) ==
  /\ content[d] # Absent /\ d \notin conflicts /\ Cardinality(conflicts) < MaxConflicts
  /\ conflicts' = conflicts \cup {d}
  /\ UNCHANGED <<content, revs, stash, page, bridge, js, wire, texts, faults>>

\* ApplyMergedConflictResolution and ApplyConflictSideResolution: the page is
\* written, with no revision, then the record is resolved; mergeApplied makes the
\* page look at the conflicts again (RefreshCurrentDocumentConflictState).
ApplyConflictResolution(d) ==
  /\ d \in conflicts
  /\ \/ content' = [content EXCEPT ![d] = Fresh(d)] /\ Write
     \/ UNCHANGED <<content, texts>>
  /\ \/ /\ conflicts' = conflicts \ {d}
        /\ bridge' = ApplyConflictStateForDocument(bridge, page.selected, conflicts')
        /\ UNCHANGED faults
     \/ Fault /\ UNCHANGED <<conflicts, bridge>>
  /\ UNCHANGED <<revs, stash, page, js, wire>>

-----------------------------------------------------------------------------
(* The web editor.                                                          *)

Call(calls) == Len(wire.toCpp) < MaxCalls /\ wire' = [wire EXCEPT !.toCpp = @ \o calls]

\* The user types.
Type ==
  /\ js.shown # NoDoc /\ js.editable /\ Write
  /\ js' = [js EXCEPT !.text = Fresh(js.shown), !.timer = js.shown]
  /\ UNCHANGED <<store, page, bridge, wire, faults>>

\* The debounced save: for the page of the edit, with the text shown by now.
SaveTimer ==
  /\ js.timer # NoDoc
  /\ Call(<<SaveCall(js.timer, js.text, NoDoc)>>)
  /\ js' = [js EXCEPT !.timer = NoDoc]
  /\ UNCHANGED <<store, page, bridge, texts, faults>>

\* A signal is handled.  Before another page is opened the text shown is saved;
\* an import is saved as soon as it is shown.
SignalArrives ==
  /\ wire.toJs # <<>> /\ Len(wire.toCpp) < MaxCalls
  /\ LET s == Head(wire.toJs)
         Handled(calls) == wire' = [toJs |-> Tail(wire.toJs), toCpp |-> wire.toCpp \o calls]
     IN
     \/ /\ s.op = "open"
        /\ IF js.shown = NoDoc THEN Handled(<<OpenCall(s.doc)>>) /\ UNCHANGED js
           ELSE /\ Handled(<<SaveCall(js.shown, js.text, s.doc)>>)
                /\ js' = [js EXCEPT !.timer = NoDoc]
     \/ /\ s.op = "loaded"
        /\ js' = [js EXCEPT !.shown = s.doc, !.text = s.text, !.editable = s.editable]
        /\ Handled(IF s.text = Imported(s.doc) THEN <<SaveCall(s.doc, s.text, NoDoc)>> ELSE <<>>)
     \/ s.op = "access" /\ js' = [js EXCEPT !.editable = s.editable] /\ Handled(<<>>)
     \/ s.op = "cleared" /\ js' = [js EXCEPT !.shown = NoDoc, !.editable = TRUE] /\ Handled(<<>>)
  /\ UNCHANGED <<store, page, bridge, texts, faults>>

Next ==
  \/ \E d \in Docs : SelectDocument(d) \/ CreateDocument(d)
  \/ \E w \in Workspaces : SelectWorkspace(w)
  \/ \E e \in BOOLEAN : ViewAnswered(e) \/ SetCurrentDocumentAccess(e)
  \/ SaveArrives \/ OpenDocument
  \/ \E d \in Docs :
       RestoreDocumentRevision(d) \/ ConflictDetected(d) \/ ApplyConflictResolution(d)
  \/ Type \/ SaveTimer \/ SignalArrives
Spec == Init /\ [][Next]_vars

-----------------------------------------------------------------------------
(* What must hold.                                                          *)

Signal == [op : {"open", "loaded", "access", "cleared"}, doc : Docs \cup {NoDoc},
           text : Text \cup {Absent}, editable : BOOLEAN]
CallMsg == [op : {"save", "open"}, doc : Docs \cup {NoDoc}, text : Text \cup {Absent},
            then : Docs \cup {NoDoc}]

\* Types.
TypeOK ==
  /\ content \in [Docs -> Text \cup {Absent}]
  /\ revs \in [Docs -> Seq(Text)]
  /\ conflicts \subseteq Docs /\ stash \in [Docs -> {"none", "stashed", "taken", "saved"}]
  /\ page \in [selected : Docs \cup {NoDoc}, ask : BOOLEAN]
  /\ bridge \in [ws : Workspaces, current : Docs \cup {NoDoc}, editable : BOOLEAN,
                 conflict : BOOLEAN, pending : BOOLEAN]
  /\ js \in [shown : Docs \cup {NoDoc}, text : Text \cup {Absent}, editable : BOOLEAN,
             timer : Docs \cup {NoDoc}]
  /\ wire \in [toJs : Seq(Signal), toCpp : Seq(CallMsg)]
  /\ texts \in 0..MaxTexts /\ faults \in 0..MaxFaults

\* However saves, selections and late answers interleave, the text written for
\* one page never becomes the content or a revision of another (updateSnapshot's
\* stale_document check together with the web editor's captured page id).
TextsStayOnTheirPage ==
  \A d \in Docs :
    /\ content[d] # Absent => content[d][1] = d
    /\ \A i \in DOMAIN revs[d] : revs[d][i][1] = d

\* While the storage works, what a save or a restored revision overwrites is the
\* newest revision afterwards (updateSnapshot, restoreDocumentRevision), and the
\* list never grows past its bound by more than the failures to prune it.  What a
\* resolved conflict overwrites is not kept.
OverwrittenIsKept ==
  [][\A d \in Docs :
       /\ Len(revs'[d]) <= Cap + faults'
       /\ content[d] # Absent /\ content'[d] # content[d] /\ conflicts' = conflicts
          /\ faults' = faults => revs'[d] # <<>> /\ Head(revs'[d]) = content[d]]_vars

\* When no signal and no call is under way, the web editor shows the page the
\* bridge takes for open, with the access the bridge checks.
EditorAgrees ==
  wire.toJs = <<>> /\ wire.toCpp = <<>> =>
    js.shown = bridge.current /\ js.editable = bridge.editable

\* "A document with an unresolved sync conflict is read-only": the content of
\* a page with a pending conflict changes only by resolving it.
ConflictIsReadOnly ==
  [][\A d \in conflicts : content'[d] # content[d] => d \notin conflicts']_vars

\* "convert the stashed text here and persist it": the text of an import is
\* stored, or it is on its way, or it is on the screen.
ImportIsKept ==
  \A d \in Docs : stash[d] = "taken" =>
    \/ js.shown = d /\ js.text # <<d, 0>>
    \/ \E i \in DOMAIN wire.toJs : wire.toJs[i].doc = d /\ wire.toJs[i].text # <<d, 0>>
    \/ \E i \in DOMAIN wire.toCpp : wire.toCpp[i].doc = d /\ wire.toCpp[i].op = "save"
=============================================================================
