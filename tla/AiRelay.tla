------------------------------- MODULE AiRelay -------------------------------
(***************************************************************************)
(* AI suggestions: the inline ghost text and the AI menu of the web editor  *)
(* (inlineSuggestionScheduler.ts, inlineSuggestionExtension.ts,             *)
(* inlineCompletion.ts, aiChatTransport.ts), the channel, the bridge that   *)
(* asks the server or, with the key of the local keyring, the provider      *)
(* (editor_bridge.cc, ai_api_key_store.cc), and the settings dialog that    *)
(* keeps that key.                                                          *)
(* Text is a short sequence of letters; a reply is a letter or fails.       *)
(***************************************************************************)
EXTENDS Integers, Sequences

CONSTANTS
  Letters,
  ContextChars,   \* inlineSuggestionContextChars
  MaxText,        \* bound on the length of the text
  MaxRequests,    \* bound on the requests
  MaxKeyErrors,   \* bound on the failing keyring jobs
  Menu,           \* what a request of the AI menu continues
  Nothing

ASSUME AiRelayAssumption ==
  ContextChars \in Nat /\ MaxRequests \in Nat /\ Nothing \notin Letters /\ Nothing # Menu

VARIABLES
  doc, cursor,        \* the document and its collapsed selection
  timer, live, ghost,  \* the scheduler's timer and request, the suggestion shown
  asked,               \* [request -> the context it continues, Menu]
  open, subs,          \* requests whose promise is pending; those with callbacks
  toBridge, toEditor,  \* the channel's messages
  connected,           \* the channel forwards the AI signals
  transport,           \* "server" or "local"
  waiting, loads,      \* requests connected to the key store, its read jobs
  posts, ends,         \* how often a request was posted, ended
  key, field, reading, emptied, keyErrors   \* the keyring, the settings dialog

editorVars == <<doc, cursor, timer, live, ghost, asked>>
channelVars == <<open, subs, toBridge, toEditor, connected>>
relayVars == <<transport, waiting, loads, posts, ends>>
keyVars == <<key, field, reading, emptied, keyErrors>>
aiVars == <<editorVars, channelVars, relayVars, keyVars>>

Requests == 1..MaxRequests
Texts == UNION {[1..n -> Letters] : n \in 0..MaxText}

NoRequests ==
  /\ doc = <<>> /\ cursor = 0 /\ timer = Nothing /\ live = Nothing /\ ghost = Nothing
  /\ asked = [r \in Requests |-> Nothing]
  /\ open = {} /\ subs = {} /\ toBridge = <<>> /\ toEditor = <<>> /\ connected = FALSE
  /\ waiting = <<>> /\ loads = 0
  /\ posts = [r \in Requests |-> 0] /\ ends = [r \in Requests |-> 0]
  /\ field = Nothing /\ reading = FALSE /\ emptied = FALSE /\ keyErrors = 0

AiInit == NoRequests /\ transport \in {"server", "local"} /\ key \in {"set", "missing"}

-----------------------------------------------------------------------------
(* The editor.                                                              *)

\* extractPrecedingContext.
Context(t, c) == SubSeq(t, IF c > ContextChars THEN c - ContextChars + 1 ELSE 1, c)

Inserted(t, pos, l) == SubSeq(t, 1, pos) \o <<l>> \o SubSeq(t, pos + 1, Len(t))

\* The last callback to go disconnects the signals.
Unsubscribe(r) ==
  /\ open' = open \ {r} /\ subs' = subs \ {r}
  /\ toBridge' = IF subs = {r} THEN Append(toBridge, [m |-> "disconnect"]) ELSE toBridge

\* cancel: the request in flight is aborted, which settles its promise.
Cancel ==
  /\ live' = Nothing
  /\ IF live = Nothing THEN UNCHANGED <<open, subs, toBridge>> ELSE Unsubscribe(live)
  /\ UNCHANGED <<asked, toEditor, connected, relayVars, keyVars>>

\* schedule, with nothing to continue in front of the first letter.
Schedule(context) ==
  Cancel /\ timer' = IF context = <<>> THEN Nothing ELSE context

\* Mutant: only what accepts a suggestion dismisses it.
TextChanged_Kept(g) == g
\* apply: any change of the document dismisses the suggestion that is shown.
TextChanged(g) == Nothing

Typed(l) ==
  /\ Len(doc) < MaxText
  /\ doc' = Inserted(doc, cursor, l) /\ cursor' = cursor + 1
  /\ ghost' = TextChanged(ghost)
  /\ Schedule(Context(doc', cursor'))

Erased ==
  /\ cursor > 0
  /\ doc' = SubSeq(doc, 1, cursor - 1) \o SubSeq(doc, cursor + 1, Len(doc))
  /\ cursor' = cursor - 1 /\ ghost' = TextChanged(ghost)
  /\ Schedule(Context(doc', cursor'))

\* A transaction that only sets the selection leaves the suggestion where it is.
CursorMoved(c) ==
  /\ c \in 0..Len(doc) \ {cursor} /\ cursor' = c
  /\ Schedule(Context(doc, c)) /\ UNCHANGED <<doc, ghost>>

\* A selection that is not collapsed cancels; it is collapsed again elsewhere.
RangeSelected ==
  /\ timer # Nothing \/ live # Nothing
  /\ Cancel /\ timer' = Nothing /\ UNCHANGED <<doc, cursor, ghost>>

\* Another page, or the outcome of a merge, while replacing_document is set.
DocumentReplaced(t) ==
  /\ t # doc /\ doc' = t /\ cursor' = 0 /\ ghost' = TextChanged(ghost)
  /\ Cancel /\ timer' = Nothing

\* Tab: the suggestion goes where it was shown; the transaction has the
\* plugin's own meta and schedules nothing.
Accepted ==
  /\ ghost # Nothing /\ Len(doc) < MaxText
  /\ doc' = Inserted(doc, ghost.from, ghost.text)
  /\ cursor' = IF cursor < ghost.from THEN cursor ELSE cursor + 1
  /\ ghost' = Nothing
  /\ Cancel /\ timer' = Nothing

Ask(what) ==
  \E r \in Requests :
    /\ asked[r] = Nothing /\ \A q \in 1..(r - 1) : asked[q] # Nothing
    /\ asked' = [asked EXCEPT ![r] = what]
    /\ open' = open \cup {r} /\ toBridge' = Append(toBridge, [m |-> "start", r |-> r])
    /\ live' = IF what = Menu THEN live ELSE r

\* fire, when the pause is long enough.
Fired ==
  /\ timer # Nothing /\ timer' = Nothing
  /\ Ask(timer)
  /\ UNCHANGED <<doc, cursor, ghost, subs, toEditor, connected, relayVars, keyVars>>

\* sendMessages of the AI menu.
MenuAsked ==
  /\ Ask(Menu)
  /\ UNCHANGED <<doc, cursor, timer, ghost, subs, toEditor, connected, relayVars, keyVars>>

-----------------------------------------------------------------------------
(* The bridge.                                                              *)

\* What the channel forwards to the editor: nothing while it is not connected.
Forwarded(s) == IF connected THEN toEditor \o s ELSE toEditor
Failure(r) == [m |-> "end", r |-> r, text |-> Nothing]

\* startAiRequest, and the id it returns.
StartAiRequest(r) ==
  /\ toEditor' = Append(toEditor, [m |-> "id", r |-> r])
  /\ IF transport = "server"
     THEN posts' = [posts EXCEPT ![r] = @ + 1] /\ UNCHANGED <<waiting, loads>>
     ELSE waiting' = Append(waiting, r) /\ loads' = loads + 1 /\ UNCHANGED posts
  /\ UNCHANGED connected

BridgeReceives ==
  /\ toBridge # <<>> /\ toBridge' = Tail(toBridge)
  /\ LET message == Head(toBridge) IN
     \/ message.m = "start" /\ StartAiRequest(message.r)
     \/ /\ message.m \in {"connect", "disconnect"} /\ connected' = (message.m = "connect")
        /\ UNCHANGED <<toEditor, waiting, loads, posts>>
  /\ UNCHANGED <<editorVars, open, subs, transport, ends, keyVars>>

Plus(f, s) == [r \in Requests |-> IF \E i \in DOMAIN s : s[i] = r THEN f[r] + 1 ELSE f[r]]

\* Mutant: the connections of a request outlive the first answer.
Disconnected_Never(s) == s
\* The slots of a request disconnect both of its connections.
Disconnected(s) == <<>>

\* A read job is done: its signal reaches every request that is connected,
\* whichever of them started it.
KeyLoaded ==
  /\ loads > 0 /\ loads' = loads - 1
  /\ waiting' = Disconnected(waiting)
  /\ \/ /\ key = "set" /\ posts' = Plus(posts, waiting)
        /\ UNCHANGED <<ends, toEditor>>
     \/ /\ key = "missing" /\ ends' = Plus(ends, waiting)
        /\ toEditor' = Forwarded([i \in DOMAIN waiting |-> Failure(waiting[i])])
        /\ UNCHANGED posts
  /\ UNCHANGED <<editorVars, open, subs, toBridge, connected, transport, keyVars>>

\* storageError: nobody listens to it.
KeyLoadFailed ==
  /\ loads > 0 /\ loads' = loads - 1
  /\ keyErrors < MaxKeyErrors /\ keyErrors' = keyErrors + 1
  /\ UNCHANGED <<editorVars, channelVars, transport, waiting, posts, ends>>
  /\ UNCHANGED <<key, field, reading, emptied>>

\* What a reply may be: its text or the arguments of its tool call, or an error,
\* an empty answer, one that does not parse (Complete, HandleRequestJsonThrow).
Answers == Letters \cup {Nothing}

\* CallProviderAndRelay: the reply of the server or the provider, relayed as
\* chunks and a completion, as a tool call and a completion, or as a failure.
Replied(r, answer) ==
  /\ posts[r] > ends[r] /\ ends' = [ends EXCEPT ![r] = @ + 1]
  /\ toEditor' = Forwarded(<<[m |-> "end", r |-> r, text |-> answer]>>)
  /\ UNCHANGED <<editorVars, open, subs, toBridge, connected, keyVars>>
  /\ UNCHANGED <<transport, waiting, loads, posts>>

-----------------------------------------------------------------------------
(* The answers in the editor.                                               *)

\* startAiRequest has returned: the callbacks of the request are connected,
\* unless it was aborted before; one message stands for those of the signals.
IdReceived(r) ==
  /\ IF r \in open
     THEN /\ subs' = subs \cup {r}
          /\ toBridge' = IF subs = {} THEN Append(toBridge, [m |-> "connect"]) ELSE toBridge
     ELSE UNCHANGED <<subs, toBridge>>
  /\ UNCHANGED <<open, live, ghost>>

\* onSuggestion: shown at the cursor if what precedes it is what was asked for.
Shown(r, l) ==
  IF l # Nothing /\ Context(doc, cursor) = asked[r]
  THEN [from |-> cursor, text |-> l, for |-> asked[r]] ELSE ghost

\* The promise settles; of an inline request, fire goes on.  What the AI menu
\* does with its answer is an edit as any other.
EndReceived(r, l) ==
  /\ IF r \in subs
     THEN Unsubscribe(r) /\ IF live = r THEN live' = Nothing /\ ghost' = Shown(r, l)
                                        ELSE UNCHANGED <<live, ghost>>
     ELSE UNCHANGED <<open, subs, toBridge, live, ghost>>

EditorReceives ==
  /\ toEditor # <<>> /\ toEditor' = Tail(toEditor)
  /\ LET message == Head(toEditor) IN
     \/ message.m = "id" /\ IdReceived(message.r)
     \/ message.m = "end" /\ EndReceived(message.r, message.text)
  /\ UNCHANGED <<doc, cursor, timer, asked, connected, relayVars, keyVars>>

-----------------------------------------------------------------------------
(* The settings dialog, which reads the key as well.                        *)

SettingsOpened ==
  /\ field = Nothing /\ field' = "empty" /\ reading' = TRUE /\ emptied' = FALSE
  /\ UNCHANGED <<editorVars, channelVars, relayVars, key, keyErrors>>

\* apiKeyLoaded fills the field; apiKeyMissing and storageError do nothing.
SettingsKeyRead ==
  /\ reading /\ reading' = FALSE
  /\ \/ field' = (IF key = "set" THEN "key" ELSE field) /\ UNCHANGED keyErrors
     \/ /\ keyErrors < MaxKeyErrors /\ keyErrors' = keyErrors + 1 /\ UNCHANGED field
  /\ UNCHANGED <<editorVars, channelVars, relayVars, key, emptied>>

FieldEdited(v) ==
  /\ field # Nothing /\ field # v /\ field' = v /\ emptied' = (v = "empty")
  /\ UNCHANGED <<editorVars, channelVars, relayVars, key, reading, keyErrors>>

\* Closing the dialog deletes its key store and the job with it.
Close == field' = Nothing /\ reading' = FALSE /\ emptied' = FALSE

\* AcceptAndSave; the jobs that write are not waited for, and may fail.
AcceptAndSave ==
  /\ field # Nothing /\ Close
  /\ \/ key' = (IF field = "empty" THEN "missing" ELSE "set") /\ UNCHANGED keyErrors
     \/ /\ keyErrors < MaxKeyErrors /\ keyErrors' = keyErrors + 1 /\ UNCHANGED key
  /\ UNCHANGED <<editorVars, channelVars, relayVars>>

Rejected ==
  /\ field # Nothing /\ Close
  /\ UNCHANGED <<editorVars, channelVars, relayVars, key, keyErrors>>

AiNext ==
  \/ \E l \in Letters : Typed(l)
  \/ Erased \/ \E c \in 0..MaxText : CursorMoved(c)
  \/ RangeSelected \/ \E t \in Texts : DocumentReplaced(t)
  \/ Accepted \/ Fired \/ MenuAsked
  \/ BridgeReceives \/ KeyLoaded \/ KeyLoadFailed
  \/ \E r \in Requests, answer \in Answers : Replied(r, answer)
  \/ EditorReceives
  \/ SettingsOpened \/ SettingsKeyRead \/ \E v \in {"empty", "key"} : FieldEdited(v)
  \/ AcceptAndSave \/ Rejected

AiSpec == AiInit /\ [][AiNext]_aiVars

-----------------------------------------------------------------------------
(* What must hold.                                                          *)

ToBridge == [m : {"start"}, r : Requests] \cup [m : {"connect", "disconnect"}]
ToEditor == [m : {"id"}, r : Requests] \cup [m : {"end"}, r : Requests, text : Answers]
Ghosts == [from : Nat, text : Letters, for : Seq(Letters)]

\* The cursor stands in the document.
AiTypeOK ==
  /\ doc \in Seq(Letters) /\ cursor \in 0 .. Len(doc)
  /\ timer \in Seq(Letters) \cup {Nothing} /\ live \in Requests \cup {Nothing}
  /\ ghost \in Ghosts \cup {Nothing} /\ asked \in [Requests -> Seq(Letters) \cup {Menu, Nothing}]
  /\ open \subseteq Requests /\ subs \subseteq Requests /\ connected \in BOOLEAN
  /\ toBridge \in Seq(ToBridge) /\ toEditor \in Seq(ToEditor)
  /\ transport \in {"server", "local"} /\ waiting \in Seq(Requests) /\ loads \in Nat
  /\ posts \in [Requests -> Nat] /\ ends \in [Requests -> Nat]
  /\ key \in {"set", "missing"} /\ field \in {"empty", "key", Nothing}
  /\ reading \in BOOLEAN /\ emptied \in BOOLEAN /\ keyErrors \in Nat

\* Requests share the signals of one key store: each is posted at most once,
\* ends at most once, and none is left behind when the jobs are done
\* (StartLocalKeyAiRequest, CallProviderAndRelay).
EachIsRelayedOnce ==
  /\ \A r \in Requests : posts[r] <= 1 /\ ends[r] <= 1
  /\ loads = 0 /\ keyErrors = 0 => waiting = <<>>

\* "No stale ghost text ever appears": whatever is typed, replaced and answered
\* meanwhile, the suggestion stands behind the text it continues.
GhostContinuesText ==
  ghost # Nothing => ghost.from <= Len(doc) /\ Context(doc, ghost.from) = ghost.for

\* "Positioned right at the cursor".  The code does not keep it: moving the
\* cursor leaves the suggestion, and Tab still inserts it where it was.
GhostIsAtCursor == ghost # Nothing => ghost.from = cursor

\* "Callers can subscribe to the returned request id before the failure
\* signal fires".  The code does not keep it: the signals are connected by a
\* message of their own, and what is emitted before it arrives is lost.
AnswersAreHeard ==
  \A r \in subs : ends[r] = 1 =>
    \E i \in DOMAIN toEditor : toEditor[i].m = "end" /\ toEditor[i].r = r

\* Only who empties the field deletes the key.  The code does not keep it: the
\* dialog may be accepted before the key was read, or although that failed.
KeyIsKept == [][key = "set" /\ key' = "missing" => emptied]_aiVars
=============================================================================
