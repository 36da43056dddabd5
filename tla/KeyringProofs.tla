---------------------------- MODULE KeyringProofs ----------------------------
(***************************************************************************)
(* The two parts of the desktop that wait for the keyring.                 *)
(*                                                                         *)
(* What the desktop shows of its session is what everybody was told, and a *)
(* session that was ended is forgotten, for any users and any number of    *)
(* keyring operations under way.  The difficulty is a read of the keyring  *)
(* that answers after other operations were begun.  Queue says what may    *)
(* stand behind one in the queue of jobs, and what the keyring then holds. *)
(*                                                                         *)
(* Every AI request is relayed once, and a suggestion stands behind the    *)
(* text it continues, for any alphabet, length of text and number of       *)
(* requests.                                                               *)
(***************************************************************************)
EXTENDS AuthSession, AiRelay, SequenceTheorems, TLAPS

-----------------------------------------------------------------------------
(* Sign-in: the queue of the keyring.                                       *)

Reads(s) == \E n \in 1 .. Len(s) : s[n] = Load
\* Nothing is cleared behind a read; nothing is cleared at all.
Ordered(s) == \A m, n \in 1 .. Len(s) : m < n /\ s[m] = Load => s[n] # Clear
Unthreatened(s) == \A n \in 1 .. Len(s) : s[n] # Clear
\* A token is written behind a read.
WritesBehind(s) == \E m, n \in 1 .. Len(s) : m < n /\ s[m] = Load /\ s[n] # Load
EndsCleared(s) == s # <<>> /\ s[Len(s)] = Clear

Saves == {j \in Job : j.do = "save"}

LEMMA JobLemma ==
  /\ Load \in Job /\ Clear \in Job /\ Load # Clear /\ Saves \subseteq Job
  /\ \A j \in Saves : j # Load /\ j # Clear /\ j.token \in Stored
  /\ \A j \in Job : j # Load /\ j # Clear => j \in Saves
  BY DEF Load, Clear, Job, Saves

LEMMA ReadsLemma ==
  ASSUME jobs \in Seq(Job)
  PROVE  Loading <=> Reads(jobs)
  BY LenProperties DEF Loading, Reads

LEMMA AppendLoad ==
  ASSUME NEW s \in Seq(Job)
  PROVE  LET t == Append(s, Load) IN
         /\ t \in Seq(Job) /\ Reads(t)
         /\ Ordered(s) => Ordered(t)
         /\ WritesBehind(t) => WritesBehind(s)
         /\ Unthreatened(s) => Unthreatened(t)
<1> DEFINE t == Append(s, Load)
<1>1. /\ t \in Seq(Job) /\ Len(t) = Len(s) + 1 /\ t[Len(s) + 1] = Load /\ Len(s) \in Nat
      /\ \A i \in 1 .. Len(s) : t[i] = s[i]
  BY JobLemma, AppendProperties, LenProperties
<1> HIDE DEF t
<1>2. Reads(t)
  BY <1>1 DEF Reads
<1>3. Ordered(s) => Ordered(t)
  BY <1>1, JobLemma DEF Ordered
<1>4. WritesBehind(t) => WritesBehind(s)
  BY <1>1 DEF WritesBehind
<1>5. Unthreatened(s) => Unthreatened(t)
  BY <1>1, JobLemma DEF Unthreatened
<1> QED BY <1>1, <1>2, <1>3, <1>4, <1>5 DEF t

LEMMA AppendClear ==
  ASSUME NEW s \in Seq(Job)
  PROVE  LET t == Append(s, Clear) IN
         /\ t \in Seq(Job) /\ EndsCleared(t)
         /\ Reads(t) <=> Reads(s)
         /\ ~Reads(s) => Ordered(t) /\ ~WritesBehind(t)
<1> DEFINE t == Append(s, Clear)
<1>1. /\ t \in Seq(Job) /\ Len(t) = Len(s) + 1 /\ t[Len(s) + 1] = Clear /\ Len(s) \in Nat
      /\ \A i \in 1 .. Len(s) : t[i] = s[i]
      /\ t # <<>>
  BY JobLemma, AppendProperties, LenProperties
<1> HIDE DEF t
<1>2. EndsCleared(t)
  BY <1>1 DEF EndsCleared
<1>3. Reads(t) <=> Reads(s)
  BY <1>1, JobLemma DEF Reads
<1>4. ~Reads(s) => Ordered(t) /\ ~WritesBehind(t)
  BY <1>1, <1>3 DEF Ordered, WritesBehind, Reads
<1> QED BY <1>1, <1>2, <1>3, <1>4 DEF t

LEMMA ConcatSaves ==
  ASSUME NEW s \in Seq(Job), NEW p \in Seq(Saves)
  PROVE  LET t == s \o p IN
         /\ t \in Seq(Job)
         /\ Reads(t) <=> Reads(s)
         /\ Ordered(s) => Ordered(t)
         /\ Unthreatened(s) => Unthreatened(t)
         /\ WritesBehind(t) => Reads(s)
<1> DEFINE t == s \o p
<1>1. p \in Seq(Job) /\ Len(p) \in Nat /\ \A i \in 1 .. Len(p) : p[i] \in Saves
  BY JobLemma, SeqMonotonic, LenProperties, ElementOfSeq
<1>2. /\ t \in Seq(Job) /\ Len(t) = Len(s) + Len(p) /\ Len(s) \in Nat
      /\ \A i \in 1 .. Len(t) : t[i] = IF i <= Len(s) THEN s[i] ELSE p[i - Len(s)]
  BY <1>1, ConcatProperties, LenProperties
<1>3. \A i \in 1 .. Len(t) : IF i <= Len(s) THEN t[i] = s[i] ELSE t[i] \in Saves
  BY <1>1, <1>2
<1> HIDE DEF t
<1>4. Reads(t) <=> Reads(s)
  BY <1>1, <1>2, <1>3, JobLemma DEF Reads
<1>5. Ordered(s) => Ordered(t)
  BY <1>1, <1>2, <1>3, JobLemma DEF Ordered
<1>6. Unthreatened(s) => Unthreatened(t)
  BY <1>1, <1>2, <1>3, JobLemma DEF Unthreatened
<1>7. WritesBehind(t) => Reads(s)
  BY <1>4 DEF WritesBehind, Reads
<1> QED BY <1>2, <1>4, <1>5, <1>6, <1>7 DEF t

LEMMA TailLemma ==
  ASSUME NEW s \in Seq(Job), s # <<>>
  PROVE  LET t == Tail(s) IN
         /\ t \in Seq(Job) /\ Head(s) \in Job
         /\ Reads(t) => Reads(s)
         /\ Ordered(s) => Ordered(t)
         /\ WritesBehind(t) => WritesBehind(s)
         /\ Unthreatened(s) => Unthreatened(t) /\ Head(s) # Clear
         /\ EndsCleared(s) => EndsCleared(t) \/ (t = <<>> /\ Head(s) = Clear)
         /\ Reads(t) <=> \E n \in 2 .. Len(s) : s[n] = Load
<1> DEFINE t == Tail(s)
<1>1. /\ t \in Seq(Job) /\ Head(s) \in Job /\ Len(t) = Len(s) - 1 /\ Len(s) \in Nat /\ Len(s) > 0
      /\ \A i \in 1 .. Len(t) : t[i] = s[i + 1]
  BY HeadTailProperties, EmptySeq
<1>2. Head(s) = s[1]
  OBVIOUS
<1>3. t = <<>> <=> Len(t) = 0
  BY <1>1, EmptySeq
<1> HIDE DEF t
<1>4. Reads(t) <=> \E n \in 2 .. Len(s) : s[n] = Load
  <2>1. ASSUME NEW i \in 1 .. Len(t), t[i] = Load PROVE i + 1 \in 2 .. Len(s) /\ s[i + 1] = Load
    BY <1>1, <2>1
  <2>2. ASSUME NEW n \in 2 .. Len(s), s[n] = Load PROVE n - 1 \in 1 .. Len(t) /\ t[n - 1] = Load
    BY <1>1, <2>2
  <2> QED BY <2>1, <2>2 DEF Reads
<1>5. Reads(t) => Reads(s)
  BY <1>1, <1>4 DEF Reads
<1>6. Ordered(s) => Ordered(t)
  <2> SUFFICES ASSUME Ordered(s), NEW m \in 1 .. Len(t), NEW n \in 1 .. Len(t), m < n, t[m] = Load
               PROVE  t[n] # Clear
    BY DEF Ordered
  <2>1. m + 1 \in 1 .. Len(s) /\ n + 1 \in 1 .. Len(s) /\ m + 1 < n + 1
    BY <1>1
  <2> QED BY <1>1, <2>1 DEF Ordered
<1>7. WritesBehind(t) => WritesBehind(s)
  <2> SUFFICES ASSUME NEW m \in 1 .. Len(t), NEW n \in 1 .. Len(t), m < n, t[m] = Load, t[n] # Load
               PROVE  WritesBehind(s)
    BY DEF WritesBehind
  <2>1. m + 1 \in 1 .. Len(s) /\ n + 1 \in 1 .. Len(s) /\ m + 1 < n + 1
    BY <1>1
  <2> QED BY <1>1, <2>1 DEF WritesBehind
<1>8. Unthreatened(s) => Unthreatened(t) /\ Head(s) # Clear
  <2> SUFFICES ASSUME Unthreatened(s) PROVE Unthreatened(t) /\ Head(s) # Clear
    OBVIOUS
  <2>1. \A i \in 1 .. Len(t) : i + 1 \in 1 .. Len(s)
    BY <1>1
  <2> QED BY <1>1, <1>2, <2>1 DEF Unthreatened
<1>9. EndsCleared(s) => EndsCleared(t) \/ (t = <<>> /\ Head(s) = Clear)
  <2>1. Len(t) > 0 => t[Len(t)] = s[Len(s)]
    BY <1>1
  <2>2. Len(t) = 0 => Len(s) = 1
    BY <1>1
  <2>3. Len(t) = 0 \/ Len(t) > 0
    BY <1>1
  <2> QED BY <1>1, <1>2, <1>3, <2>1, <2>2, <2>3 DEF EndsCleared
<1> QED BY <1>1, <1>4, <1>5, <1>6, <1>7, <1>8, <1>9 DEF t

\* After a read.
LEMMA AfterRead ==
  ASSUME NEW s \in Seq(Job), s # <<>>, Head(s) = Load
  PROVE  /\ Reads(s)
         /\ Ordered(s) => Unthreatened(Tail(s))
         /\ Ordered(s) /\ ~WritesBehind(s) /\ ~Reads(Tail(s)) => Tail(s) = <<>>
<1> DEFINE t == Tail(s)
<1>1. /\ t \in Seq(Job) /\ Len(t) = Len(s) - 1 /\ Len(s) \in Nat /\ Len(s) > 0
      /\ \A i \in 1 .. Len(t) : t[i] = s[i + 1]
  BY HeadTailProperties, EmptySeq
<1>2. s[1] = Load
  OBVIOUS
<1>3. t = <<>> <=> Len(t) = 0
  BY <1>1, EmptySeq
<1> HIDE DEF t
<1>4. Reads(s)
  BY <1>1, <1>2 DEF Reads
<1>5. \A i \in 1 .. Len(t) : i + 1 \in 1 .. Len(s) /\ 1 < i + 1 /\ 1 \in 1 .. Len(s)
  BY <1>1
<1>6. Ordered(s) => Unthreatened(t)
  BY <1>1, <1>2, <1>5 DEF Ordered, Unthreatened
<1>7. ~WritesBehind(s) /\ ~Reads(t) => t = <<>>
  <2> SUFFICES ASSUME ~WritesBehind(s), ~Reads(t), Len(t) > 0 PROVE FALSE
    BY <1>1, <1>3
  <2>1. 1 \in 1 .. Len(t) /\ t[1] # Load
    BY <1>1 DEF Reads
  <2> QED BY <1>1, <1>2, <1>5, <2>1 DEF WritesBehind
<1> QED BY <1>4, <1>6, <1>7 DEF t

\* After a write.
LEMMA AfterWrite ==
  ASSUME NEW s \in Seq(Job), s # <<>>, Head(s) # Load
  PROVE  Reads(s) <=> Reads(Tail(s))
<1>1. s[1] # Load /\ Len(s) \in Nat /\ Len(s) > 0
  BY EmptySeq
<1>2. Reads(s) => \E n \in 2 .. Len(s) : s[n] = Load
  BY <1>1 DEF Reads
<1> QED BY <1>2, TailLemma

-----------------------------------------------------------------------------
(* Sign-in: types.                                                          *)

LEMMA SavesLemma ==
  ASSUME NEW old, NEW t \in Token
  PROVE  Persisted(old, t) \in Seq(Saves)
<1>1. \A r \in BOOLEAN : Save(t.user, r) \in Saves
  BY DEF Save, Saves, Job, Stored, Token
<1>2. \A r \in BOOLEAN : <<Save(t.user, r)>> \in Seq(Saves)
  BY <1>1
<1>3. t.refresh \in BOOLEAN
  BY DEF Token
<1>4. <<>> \in Seq(Saves)
  BY EmptySeq
<1> QED BY <1>2, <1>3, <1>4, ConcatProperties DEF Persisted

LEMMA FlowLemma ==
  ASSUME TypeOK
  PROVE  /\ flow.token \in Token \cup {None} /\ flow.there \in BOOLEAN
         /\ ~flow.there => flow = NoFlow
         /\ NoFlow.token = None /\ NoFlow.there = FALSE
         /\ \A t : Flow(t).token = t /\ Flow(t).there = TRUE
         /\ \A t \in Token : User(t) = t.user /\ t.user \in Users /\ t # None /\ t.user # None
         /\ User(None) = None
<1>1. \A t : Flow(t).token = t /\ Flow(t).there = TRUE
  BY DEF Flow
<1>2. NoFlow.token = None /\ NoFlow.there = FALSE
  BY DEF NoFlow
<1>3. flow = NoFlow \/ \E t \in Token \cup {None} : flow = Flow(t)
  BY DEF TypeOK
<1>4. /\ flow.token \in Token \cup {None} /\ flow.there \in BOOLEAN
      /\ ~flow.there => flow = NoFlow
  BY <1>1, <1>2, <1>3
<1>5. \A t \in Token : User(t) = t.user /\ t.user \in Users /\ t # None /\ t.user # None
  BY AuthSessionAssumption DEF User, Token
<1> QED BY <1>1, <1>2, <1>4, <1>5 DEF User

LEMMA RebuiltLemma ==
  ASSUME RebuildOAuthFlow
  PROVE  /\ flow' \in {NoFlow} \cup {Flow(t) : t \in Token \cup {None}}
         /\ flow'.token = None
  BY DEF RebuildOAuthFlow, NoFlow, Flow

LEMMA LoadedLemma ==
  ASSUME NEW k \in Stored, NEW due \in BOOLEAN
  PROVE  InUse(k, due) \in Token /\ InUse(k, due).user = k.user
  BY DEF InUse, Stored, Token

LEMMA TypeInit == Init => TypeOK
<1>1. <<Load>> \in Seq(Job)
  BY JobLemma
<1>2. Flow(None) \in {Flow(t) : t \in Token \cup {None}}
  OBVIOUS
<1>3. ASSUME Init PROVE jobs \in Seq(Job) /\ raced \in BOOLEAN /\ flow = Flow(None)
  BY <1>1, <1>3, Zenon DEF Init
<1>4. ASSUME Init
      PROVE  /\ config = "good" /\ state = "signedOut" /\ request = "none" /\ announced = None
             /\ keyring \in Stored \cup {None} /\ faults = 0
  BY <1>4 DEF Init
<1> QED BY <1>2, <1>3, <1>4 DEF TypeOK

\* The queue after a job has been taken from it, or added to it.
LEMMA QueueTypes ==
  ASSUME TypeOK
  PROVE  /\ Append(jobs, Load) \in Seq(Job) /\ Append(jobs, Clear) \in Seq(Job)
         /\ jobs # <<>> => Tail(jobs) \in Seq(Job) /\ Head(jobs) \in Job
         /\ \A old, t : t \in Token => jobs \o Persisted(old, t) \in Seq(Job)
         /\ \A old, t : t \in Token /\ jobs # <<>> =>
              /\ Tail(jobs) \o Persisted(old, t) \in Seq(Job)
              /\ Append(Tail(jobs) \o Persisted(old, t), Clear) \in Seq(Job)
<1>1. jobs \in Seq(Job)
  BY DEF TypeOK
<1>2. jobs # <<>> => Tail(jobs) \in Seq(Job) /\ Head(jobs) \in Job
  BY <1>1, TailLemma
<1>3. \A s \in Seq(Job) : \A old, t : t \in Token => s \o Persisted(old, t) \in Seq(Job)
  BY SavesLemma, ConcatSaves
<1>4. \A s \in Seq(Job) : Append(s, Clear) \in Seq(Job) /\ Append(s, Load) \in Seq(Job)
  BY AppendClear, AppendLoad
<1> QED BY <1>1, <1>2, <1>3, <1>4

LEMMA TypeStep == TypeOK /\ [Next]_vars => TypeOK'
<1> SUFFICES ASSUME TypeOK, [Next]_vars PROVE TypeOK'
  OBVIOUS
<1> USE DEF TypeOK
<1>1. ASSUME NEW c \in {"off", "bad", "good"}, ApplySettings(c) PROVE TypeOK'
  BY <1>1, QueueTypes, RebuiltLemma DEF ApplySettings
<1>2. CASE StartSignIn
  BY <1>2 DEF StartSignIn, CanStartSignIn, Race, Loading
<1>3. CASE SignOut
  BY <1>3, QueueTypes, RebuiltLemma DEF SignOut, CanSignOut, Race, Loading
<1>4. CASE AuthorizationCallbackReceived
  BY <1>4 DEF AuthorizationCallbackReceived
<1>5. ASSUME NEW t \in Token, Granted(t) PROVE TypeOK'
  BY <1>5, QueueTypes, FlowLemma DEF Granted
<1>6. CASE RequestFailed
  BY <1>6, QueueTypes, RebuiltLemma DEF RequestFailed, SessionRefreshFailed, Race, Loading
<1>7. CASE FallsDue
  <2>1. flow.token \in Token /\ [flow.token EXCEPT !.due = TRUE] \in Token
    BY <1>7, FlowLemma DEF FallsDue, Token
  <2> QED BY <1>7, <2>1 DEF FallsDue
<1>8. CASE HandleTokenWatchdogTimeout
  BY <1>8, QueueTypes, RebuiltLemma
     DEF HandleTokenWatchdogTimeout, WatchdogFires, SessionRefreshFailed, Race, Loading
<1>9. CASE AccessTokenAboutToExpire
  BY <1>9 DEF AccessTokenAboutToExpire
<1>10. CASE LoadDone
  <2>1. ASSUME keyring # None, NEW expired \in BOOLEAN, jobs # <<>>, UNCHANGED <<config, keyring>>,
               HandleStoredTokensLoaded(InUse(keyring, expired), expired), UNCHANGED faults
        PROVE  TypeOK'
    <3>1. InUse(keyring, expired) \in Token /\ InUse(keyring, expired).user \in Users
      BY <2>1, LoadedLemma, FlowLemma
    <3> QED BY <2>1, <3>1, QueueTypes, RebuiltLemma DEF HandleStoredTokensLoaded
  <2> QED BY <1>10, <2>1, QueueTypes DEF LoadDone
<1>11. CASE SaveOrClearDone
  <2>1. jobs # <<>> /\ Head(jobs) # Load => Head(jobs) = Clear \/ Head(jobs).token \in Stored
    BY JobLemma, QueueTypes
  <2> QED BY <1>11, <2>1, QueueTypes DEF SaveOrClearDone
<1>12. CASE Restart
  <2>1. <<Load>> \in Seq(Job)
    BY JobLemma
  <2> QED BY <1>12, <2>1 DEF Restart
<1>13. CASE UNCHANGED vars
  BY <1>13 DEF vars
<1> QED BY <1>1, <1>2, <1>3, <1>4, <1>5, <1>6, <1>7, <1>8, <1>9, <1>10, <1>11, <1>12, <1>13 DEF Next

-----------------------------------------------------------------------------
(* Sign-in: what everybody was told.                                        *)

Told ==
  /\ announced = User(flow.token)
  /\ state = "authenticated" => announced # None
  /\ request = "refresh" => flow.token # None
  /\ state = "disabled" => flow.token = None /\ ~flow.there /\ request = "none"

LEMMA ToldStep == TypeOK /\ Told /\ [Next]_vars => Told'
<1> SUFFICES ASSUME TypeOK, Told, [Next]_vars PROVE Told'
  OBVIOUS
<1> USE FlowLemma DEF Told
<1>1. ASSUME NEW c \in {"off", "bad", "good"}, ApplySettings(c) PROVE Told'
  BY <1>1, RebuiltLemma DEF ApplySettings
<1>2. CASE StartSignIn
  BY <1>2 DEF StartSignIn, CanStartSignIn
<1>3. CASE SignOut
  BY <1>3, RebuiltLemma DEF SignOut
<1>4. CASE AuthorizationCallbackReceived
  BY <1>4 DEF AuthorizationCallbackReceived
<1>5. ASSUME NEW t \in Token, Granted(t) PROVE Told'
  BY <1>5 DEF Granted
<1>6. CASE RequestFailed
  BY <1>6, RebuiltLemma DEF RequestFailed, SessionRefreshFailed
<1>7. CASE FallsDue
  <2>1. /\ flow.token \in Token /\ [flow.token EXCEPT !.due = TRUE] \in Token
        /\ [flow.token EXCEPT !.due = TRUE].user = flow.token.user
    BY <1>7 DEF FallsDue, Token
  <2> QED BY <1>7, <2>1 DEF FallsDue
<1>8. CASE HandleTokenWatchdogTimeout
  BY <1>8, RebuiltLemma DEF HandleTokenWatchdogTimeout, WatchdogFires, SessionRefreshFailed
<1>9. CASE AccessTokenAboutToExpire
  BY <1>9 DEF AccessTokenAboutToExpire
<1>10. CASE LoadDone
  <2>1. ASSUME keyring # None, NEW expired \in BOOLEAN, flow.there,
               HandleStoredTokensLoaded(InUse(keyring, expired), expired)
        PROVE  Told'
    <3>1. InUse(keyring, expired) \in Token
      BY <2>1, LoadedLemma DEF TypeOK
    <3> QED BY <2>1, <3>1, RebuiltLemma DEF HandleStoredTokensLoaded
  <2> QED BY <1>10, <2>1 DEF LoadDone
<1>11. CASE SaveOrClearDone
  BY <1>11 DEF SaveOrClearDone
<1>12. CASE Restart
  BY <1>12 DEF Restart
<1>13. CASE UNCHANGED vars
  BY <1>13 DEF vars
<1> QED BY <1>1, <1>2, <1>3, <1>4, <1>5, <1>6, <1>7, <1>8, <1>9, <1>10, <1>11, <1>12, <1>13 DEF Next

-----------------------------------------------------------------------------
(* Sign-in: the keyring.                                                    *)

\* As long as no session was begun or ended during a read, every read that is
\* pending while a session is announced, or was announced since, will find one;
\* and a session that is shown as signed out has been, or is being, cleared, or
\* is about to be read.
Queue ==
  ~raced =>
    /\ Ordered(jobs)
    /\ Reads(jobs) => request # "code" /\ (state = "signedOut" => flow.there)
    /\ (announced # None /\ Reads(jobs)) \/ WritesBehind(jobs) =>
         keyring # None /\ Unthreatened(jobs)
    /\ state = "signedOut" => announced = None
    /\ faults = 0 /\ state = "signedOut" /\ ~Reads(jobs) =>
         EndsCleared(jobs) \/ (jobs = <<>> /\ keyring = None)

IInv == TypeOK /\ Told /\ Queue

\* The end of a session: what was stored is cleared, and everybody told.
LEMMA ClearedQueue ==
  ASSUME NEW s \in Seq(Job), jobs' = Append(s, Clear), ~raced' => ~Reads(s), announced' = None
  PROVE  Queue'
<1>1. /\ EndsCleared(jobs') /\ (Reads(jobs') <=> Reads(s))
      /\ ~Reads(s) => Ordered(jobs') /\ ~WritesBehind(jobs')
  BY AppendClear
<1> QED BY <1>1 DEF Queue

LEMMA ReadingLemma ==
  ASSUME TypeOK, Race
  PROVE  (raced => raced') /\ (~raced' => ~Reads(jobs))
  BY ReadsLemma DEF TypeOK, Race

LEMMA StartQueue ==
  ASSUME <<Load>> = jobs', announced' = None, request' = "none", flow' = Flow(None)
  PROVE  Queue'
<1> DEFINE s == <<Load>>
<1>1. s \in Seq(Job) /\ Len(s) = 1 /\ s[1] = Load
  BY JobLemma
<1> HIDE DEF s
<1>2. Ordered(s) /\ ~WritesBehind(s) /\ Reads(s)
  BY <1>1 DEF Ordered, WritesBehind, Reads
<1>3. Flow(None).there
  BY DEF Flow
<1> QED BY <1>2, <1>3 DEF Queue, s

LEMMA InitQueue == Init => Queue
<1> SUFFICES ASSUME Init PROVE Queue
  OBVIOUS
<1> DEFINE s == <<Load>>
<1>1. s \in Seq(Job) /\ Len(s) = 1 /\ s[1] = Load
  BY JobLemma
<1> HIDE DEF s
<1>2. Ordered(s) /\ ~WritesBehind(s) /\ Reads(s)
  BY <1>1 DEF Ordered, WritesBehind, Reads
<1>3. Flow(None).there
  BY DEF Flow
<1>4. jobs = s /\ flow = Flow(None) /\ announced = None /\ request = "none"
  BY DEF Init, s
<1> QED BY <1>2, <1>3, <1>4 DEF Queue

LEMMA SettingsQueue ==
  ASSUME IInv, NEW c \in {"off", "bad", "good"}, ApplySettings(c)
  PROVE  Queue'
<1>1. jobs \in Seq(Job) /\ raced' = raced /\ keyring' = keyring /\ faults' = faults
  BY DEF IInv, TypeOK, ApplySettings
<1>2. announced' = None /\ request' = "none"
  BY DEF ApplySettings
<1>3. CASE jobs' = Append(jobs, Load) /\ flow'.there
  BY <1>1, <1>2, <1>3, AppendLoad DEF IInv, Queue
<1>4. CASE jobs' = jobs /\ state' # "signedOut"
  BY <1>1, <1>2, <1>4 DEF IInv, Queue
<1> QED BY <1>3, <1>4 DEF ApplySettings

LEMMA GrantedQueue ==
  ASSUME IInv, NEW t \in Token, Granted(t)
  PROVE  Queue'
<1>1. jobs \in Seq(Job) /\ raced' = raced /\ keyring' = keyring /\ faults' = faults
  BY DEF IInv, TypeOK, Granted
<1>2. request' = "none" /\ state' = "authenticated"
  BY DEF Granted
<1>3. jobs' = jobs \o Persisted(flow.token, t)
  BY DEF Granted
<1>4. /\ Reads(jobs') <=> Reads(jobs)
      /\ Ordered(jobs) => Ordered(jobs')
      /\ Unthreatened(jobs) => Unthreatened(jobs')
      /\ WritesBehind(jobs') => Reads(jobs)
  BY <1>1, <1>3, SavesLemma, ConcatSaves
<1>5. ~raced /\ Reads(jobs) => request = "refresh"
  BY DEF IInv, Queue, Granted, TypeOK
<1>6. request = "refresh" => announced # None
  <2>1. request = "refresh" => flow.token # None /\ announced = User(flow.token)
    BY DEF IInv, Told
  <2> QED BY <2>1, FlowLemma DEF IInv
<1> QED BY <1>1, <1>2, <1>4, <1>5, <1>6 DEF IInv, Queue

LEMMA LoadQueue ==
  ASSUME IInv, LoadDone
  PROVE  Queue'
<1> DEFINE t == Tail(jobs)
<1>1. jobs \in Seq(Job) /\ keyring' = keyring /\ t \in Seq(Job) /\ faults \in Nat
  BY QueueTypes DEF IInv, TypeOK, LoadDone
<1>2. /\ Reads(jobs)
      /\ Ordered(jobs) => Unthreatened(t) /\ Ordered(t)
      /\ Ordered(jobs) /\ ~WritesBehind(jobs) /\ ~Reads(t) => t = <<>>
      /\ WritesBehind(t) => WritesBehind(jobs)
      /\ Unthreatened(jobs) => Unthreatened(t)
      /\ Reads(t) <=> \E n \in 2 .. Len(jobs) : jobs[n] = Load
  BY <1>1, AfterRead, TailLemma DEF LoadDone
<1> HIDE DEF t
<1>3. ASSUME keyring # None, flow.there, NEW expired \in BOOLEAN, UNCHANGED faults,
             HandleStoredTokensLoaded(InUse(keyring, expired), expired)
      PROVE  Queue'
  <2> DEFINE k == InUse(keyring, expired)
             left == t \o Persisted(flow.token, k)
  <2>1. k \in Token /\ k.user # None
    BY <1>3, LoadedLemma, FlowLemma DEF IInv, TypeOK
  <2>2. /\ left \in Seq(Job)
        /\ Reads(left) <=> Reads(t)
        /\ Ordered(t) => Ordered(left)
        /\ Unthreatened(t) => Unthreatened(left)
        /\ WritesBehind(left) => Reads(t)
    BY <1>1, <2>1, SavesLemma, ConcatSaves
  <2> HIDE DEF k
  <2>3. \/ /\ jobs' = left /\ state' # "signedOut" /\ request' \in {request, "refresh"}
           /\ raced' = raced
        \/ /\ jobs' = Append(left, Clear) /\ announced' = None
           /\ raced' = (raced \/ \E n \in 2 .. Len(jobs) : jobs[n] = Load)
    BY <1>3 DEF HandleStoredTokensLoaded, k, t
  <2> HIDE DEF left
  <2>4. CASE jobs' = left /\ state' # "signedOut" /\ request' \in {request, "refresh"} /\ raced' = raced
    BY <1>1, <1>2, <1>3, <2>2, <2>4 DEF IInv, Queue
  <2>5. CASE /\ jobs' = Append(left, Clear) /\ announced' = None
             /\ raced' = (raced \/ \E n \in 2 .. Len(jobs) : jobs[n] = Load)
    <3>1. ~raced' => ~Reads(left)
      BY <1>2, <2>2, <2>5 DEF IInv, TypeOK
    <3> QED BY <2>2, <2>5, <3>1, ClearedQueue
  <2> QED BY <2>3, <2>4, <2>5
<1>4. CASE /\ keyring = None \/ ~flow.there
           /\ state' = IF flow.there THEN "signedOut" ELSE state
           /\ jobs' = Tail(jobs) /\ UNCHANGED <<flow, request, announced, raced, faults>>
  <2> SUFFICES ASSUME ~raced PROVE Queue'
    BY <1>4 DEF Queue
  <2>1. CASE flow.there
    <3>1. keyring = None /\ announced = None /\ ~WritesBehind(jobs) /\ Ordered(jobs)
      BY <1>2, <1>4, <2>1 DEF IInv, Queue
    <3> QED BY <1>1, <1>2, <1>4, <2>1, <3>1 DEF IInv, Queue, t
  <2>2. CASE ~flow.there
    <3>1. state # "signedOut" /\ state' = state
      BY <1>2, <1>4, <2>2 DEF IInv, Queue
    <3> QED BY <1>1, <1>2, <1>4, <3>1 DEF IInv, Queue, t
  <2> QED BY <2>1, <2>2
<1>5. CASE /\ state' = "error" /\ jobs' = Tail(jobs)
           /\ UNCHANGED <<flow, request, announced, raced>>
  BY <1>1, <1>2, <1>5 DEF IInv, Queue, t
<1> QED BY <1>3, <1>4, <1>5 DEF LoadDone

LEMMA WriteQueue ==
  ASSUME IInv, SaveOrClearDone
  PROVE  Queue'
<1> DEFINE t == Tail(jobs)
<1>1. jobs \in Seq(Job) /\ faults \in Nat /\ jobs # <<>> /\ t \in Seq(Job) /\ jobs' = t
  BY QueueTypes DEF IInv, TypeOK, SaveOrClearDone
<1>2. /\ Reads(jobs) <=> Reads(t)
      /\ Ordered(jobs) => Ordered(t)
      /\ WritesBehind(t) => WritesBehind(jobs)
      /\ Unthreatened(jobs) => Unthreatened(t) /\ Head(jobs) # Clear
      /\ EndsCleared(jobs) => EndsCleared(t) \/ (t = <<>> /\ Head(jobs) = Clear)
  BY <1>1, AfterWrite, TailLemma DEF SaveOrClearDone
<1> HIDE DEF t
<1>3. Head(jobs) # Clear => Head(jobs).token # None
  <2>1. Head(jobs) \in Job /\ Head(jobs) # Load
    BY <1>1, QueueTypes DEF IInv, SaveOrClearDone
  <2>2. Head(jobs) # Clear => Head(jobs).token \in Stored
    BY <2>1, JobLemma
  <2> QED BY <2>2, AuthSessionAssumption
<1>4. /\ \/ keyring' = (IF Head(jobs) = Clear THEN None ELSE Head(jobs).token) /\ faults' = faults
         \/ keyring' = keyring /\ faults' # 0
      /\ state' = state /\ flow' = flow /\ request' = request /\ announced' = announced
      /\ raced' = raced
  BY <1>1 DEF SaveOrClearDone
<1>5. keyring # None /\ Head(jobs) # Clear => keyring' # None
  BY <1>3, <1>4
<1>6. faults' = 0 /\ Head(jobs) = Clear => keyring' = None /\ faults = 0
  BY <1>4
<1> SUFFICES ASSUME ~raced PROVE Queue'
  BY <1>4 DEF Queue
<1>7. (announced # None /\ Reads(jobs')) \/ WritesBehind(jobs') =>
         keyring' # None /\ Unthreatened(jobs')
  BY <1>1, <1>2, <1>5 DEF IInv, Queue
<1>8. faults' = 0 /\ state = "signedOut" /\ ~Reads(jobs') =>
         EndsCleared(jobs') \/ (jobs' = <<>> /\ keyring' = None)
  BY <1>1, <1>2, <1>4, <1>6 DEF IInv, Queue
<1> QED BY <1>1, <1>2, <1>4, <1>7, <1>8 DEF IInv, Queue

LEMMA QueueStep == IInv /\ [Next]_vars => Queue'
<1> SUFFICES ASSUME IInv, [Next]_vars PROVE Queue'
  OBVIOUS
<1>1. ASSUME NEW c \in {"off", "bad", "good"}, ApplySettings(c) PROVE Queue'
  BY <1>1, SettingsQueue
<1>2. CASE StartSignIn
  <2>1. (raced => raced') /\ (~raced' => ~Reads(jobs))
    BY <1>2, ReadingLemma DEF IInv, StartSignIn
  <2> QED BY <1>2, <2>1 DEF StartSignIn, IInv, Queue
<1>3. CASE SignOut
  <2>1. ~raced' => ~Reads(jobs)
    BY <1>3, ReadingLemma DEF IInv, SignOut
  <2> QED BY <1>3, <2>1, ClearedQueue DEF SignOut, IInv, TypeOK
<1>4. CASE AuthorizationCallbackReceived
  BY <1>4 DEF AuthorizationCallbackReceived, IInv, Queue
<1>5. ASSUME NEW t \in Token, Granted(t) PROVE Queue'
  BY <1>5, GrantedQueue
<1>6. CASE RequestFailed
  <2>1. CASE announced' = None /\ jobs' = Append(jobs, Clear) /\ Race
    BY <2>1, ReadingLemma, ClearedQueue DEF IInv, TypeOK
  <2>2. CASE /\ state' = "error" /\ request' = "none"
             /\ UNCHANGED <<flow, announced, jobs, raced, keyring, faults>>
    BY <2>2 DEF IInv, Queue
  <2> QED BY <1>6, <2>1, <2>2 DEF RequestFailed, SessionRefreshFailed
<1>7. CASE FallsDue
  BY <1>7, FlowLemma DEF FallsDue, IInv, Queue
<1>8. CASE HandleTokenWatchdogTimeout
  <2>1. CASE announced' = None /\ jobs' = Append(jobs, Clear) /\ Race
    BY <2>1, ReadingLemma, ClearedQueue DEF IInv, TypeOK
  <2>2. CASE /\ state' = "refreshing" /\ request' = "refresh"
             /\ UNCHANGED <<flow, announced, jobs, raced, keyring, faults>>
    BY <2>2 DEF IInv, Queue
  <2> QED BY <1>8, <2>1, <2>2 DEF HandleTokenWatchdogTimeout, WatchdogFires, SessionRefreshFailed
<1>9. CASE AccessTokenAboutToExpire
  BY <1>9 DEF AccessTokenAboutToExpire, IInv, Queue
<1>10. CASE LoadDone
  BY <1>10, LoadQueue
<1>11. CASE SaveOrClearDone
  BY <1>11, WriteQueue
<1>12. CASE Restart
  BY <1>12, StartQueue DEF Restart
<1>13. CASE UNCHANGED vars
  BY <1>13 DEF vars, IInv, Queue
<1> QED BY <1>1, <1>2, <1>3, <1>4, <1>5, <1>6, <1>7, <1>8, <1>9, <1>10, <1>11, <1>12, <1>13 DEF Next

-----------------------------------------------------------------------------
(* Sign-in: theorems.                                                       *)

LEMMA Inductive == Spec => []IInv
<1>1. Init => IInv
  BY TypeInit, InitQueue, FlowLemma DEF Init, IInv, Told
<1>2. IInv /\ [Next]_vars => IInv'
  BY TypeStep, ToldStep, QueueStep DEF IInv
<1> QED BY <1>1, <1>2, PTL DEF Spec

\* What is stored is a session, and a flow that is gone has no token
\* (AuthSessionManager, AuthTokenStore).
THEOREM TypeCorrect == Spec => []TypeOK
<1>1. IInv => TypeOK
  BY DEF IInv
<1> QED BY <1>1, Inductive, PTL

\* The backend client, the sync service and the bridge have been told of the
\* session that is shown (accessTokenChanged in AuthSessionManager).
THEOREM SessionCorrect == Spec => []SessionAgrees
<1>1. IInv => SessionAgrees
  <2> SUFFICES ASSUME IInv PROVE SessionAgrees
    OBVIOUS
  <2>1. state = "disabled" => announced = None
    BY DEF IInv, Told, User
  <2>2. state = "signedOut" /\ ~raced => announced = None
    BY DEF IInv, Queue
  <2> QED BY <2>1, <2>2 DEF IInv, Told, SessionAgrees
<1> QED BY <1>1, Inductive, PTL

\* A session that was ended leaves nothing in the keyring, unless a keyring
\* operation has failed (SignOut, HandleSessionRefreshFailure).
THEOREM ForgottenCorrect == Spec => []SignedOutIsForgotten
<1>1. IInv => SignedOutIsForgotten
  <2> SUFFICES ASSUME IInv, state = "signedOut", jobs = <<>>, ~raced, faults = 0
               PROVE  keyring = None
    BY DEF SignedOutIsForgotten
  <2>1. ~Reads(jobs) /\ ~EndsCleared(jobs)
    BY DEF Reads, EndsCleared
  <2> QED BY <2>1 DEF IInv, Queue
<1> QED BY <1>1, Inductive, PTL

-----------------------------------------------------------------------------
(* AI relay: sequences.                                                     *)

LEMMA AiTailLemma ==
  ASSUME NEW S, NEW s \in Seq(S), s # <<>>
  PROVE  /\ Head(s) \in S /\ Tail(s) \in Seq(S) /\ Head(s) = s[1]
         /\ Len(Tail(s)) = Len(s) - 1 /\ Len(s) \in Nat /\ Len(s) > 0
         /\ \A i \in 1 .. Len(Tail(s)) : Tail(s)[i] = s[i + 1] /\ i + 1 \in 1 .. Len(s)
  BY HeadTailProperties, EmptySeq

LEMMA ContextLemma ==
  ASSUME NEW t \in Seq(Letters), NEW c \in 0 .. Len(t)
  PROVE  Context(t, c) \in Seq(Letters)
<1> DEFINE m == IF c > ContextChars THEN c - ContextChars + 1 ELSE 1
<1>1. Len(t) \in Nat /\ ContextChars \in Nat
  BY LenProperties, AiRelayAssumption
<1>2. m \in Int /\ c \in Int /\ m >= 1 /\ c <= Len(t)
  BY <1>1
<1>3. \A i \in m .. c : t[i] \in Letters
  <2> SUFFICES ASSUME NEW i \in m .. c PROVE t[i] \in Letters
    OBVIOUS
  <2>1. i \in 1 .. Len(t)
    BY <1>1, <1>2
  <2> QED BY <2>1, ElementOfSeq
<1> HIDE DEF m
<1>4. SubSeq(t, m, c) \in Seq(Letters)
  BY <1>2, <1>3, SubSeqProperties
<1> QED BY <1>4 DEF Context, m

LEMMA PartLemma ==
  ASSUME NEW t \in Seq(Letters), NEW m \in Nat \ {0}, NEW n \in Int, n <= Len(t)
  PROVE  /\ SubSeq(t, m, n) \in Seq(Letters)
         /\ Len(SubSeq(t, m, n)) = IF m <= n THEN n - m + 1 ELSE 0
<1>1. Len(t) \in Nat
  BY LenProperties
<1>2. \A i \in m .. n : t[i] \in Letters
  <2> SUFFICES ASSUME NEW i \in m .. n PROVE t[i] \in Letters
    OBVIOUS
  <2>1. i \in 1 .. Len(t)
    BY <1>1
  <2> QED BY <2>1, ElementOfSeq
<1>3. m \in Int
  OBVIOUS
<1> QED BY <1>2, <1>3, SubSeqProperties

LEMMA InsertedLemma ==
  ASSUME NEW t \in Seq(Letters), NEW c \in 0 .. Len(t), NEW l \in Letters
  PROVE  Inserted(t, c, l) \in Seq(Letters) /\ Len(Inserted(t, c, l)) = Len(t) + 1
<1> DEFINE front == SubSeq(t, 1, c)
           back == SubSeq(t, c + 1, Len(t))
           middle == front \o <<l>>
<1>1. Len(t) \in Nat /\ 1 \in Nat \ {0} /\ c \in Int /\ c + 1 \in Nat \ {0} /\ Len(t) \in Int /\ c <= Len(t)
  BY LenProperties
<1>2. front \in Seq(Letters) /\ Len(front) = c
  BY <1>1, PartLemma
<1>3. back \in Seq(Letters) /\ Len(back) = Len(t) - c
  BY <1>1, PartLemma
<1>4. <<l>> \in Seq(Letters) /\ Len(<<l>>) = 1
  OBVIOUS
<1> HIDE DEF front, back
<1>5. middle \in Seq(Letters) /\ Len(middle) = c + 1
  BY <1>2, <1>4, ConcatProperties
<1>6. Inserted(t, c, l) = middle \o back
  BY DEF Inserted, front, back
<1> HIDE DEF middle
<1>7. middle \o back \in Seq(Letters) /\ Len(middle \o back) = Len(middle) + Len(back)
  BY <1>3, <1>5, ConcatProperties
<1> QED BY <1>1, <1>3, <1>5, <1>6, <1>7

LEMMA ErasedLemma ==
  ASSUME NEW t \in Seq(Letters), NEW c \in 1 .. Len(t)
  PROVE  LET u == SubSeq(t, 1, c - 1) \o SubSeq(t, c + 1, Len(t))
         IN  u \in Seq(Letters) /\ Len(u) = Len(t) - 1
<1> DEFINE front == SubSeq(t, 1, c - 1)
           back == SubSeq(t, c + 1, Len(t))
<1>1. /\ Len(t) \in Nat /\ 1 \in Nat \ {0} /\ c - 1 \in Int /\ c + 1 \in Nat \ {0}
      /\ Len(t) \in Int /\ c - 1 <= Len(t)
  BY LenProperties
<1>2. front \in Seq(Letters) /\ Len(front) = c - 1
  BY <1>1, PartLemma
<1>3. back \in Seq(Letters) /\ Len(back) = Len(t) - c
  BY <1>1, PartLemma
<1> HIDE DEF front, back
<1>4. front \o back \in Seq(Letters) /\ Len(front \o back) = Len(front) + Len(back)
  BY <1>2, <1>3, ConcatProperties
<1>5. front \o back \in Seq(Letters) /\ Len(front \o back) = Len(t) - 1
  BY <1>1, <1>2, <1>3, <1>4
<1> QED BY <1>5 DEF front, back

LEMMA TextLemma == Texts \subseteq Seq(Letters)
<1> SUFFICES ASSUME NEW n \in 0 .. MaxText, NEW t \in [1 .. n -> Letters] PROVE t \in Seq(Letters)
  BY DEF Texts
<1>1. n \in Nat
  OBVIOUS
<1> QED BY <1>1, SeqDef

-----------------------------------------------------------------------------
(* AI relay: types.                                                         *)

LEMMA MessageLemma ==
  /\ [m |-> "disconnect"] \in ToBridge /\ [m |-> "connect"] \in ToBridge
  /\ \A r \in Requests : [m |-> "start", r |-> r] \in ToBridge /\ [m |-> "id", r |-> r] \in ToEditor
  /\ \A r \in Requests, a \in Answers : [m |-> "end", r |-> r, text |-> a] \in ToEditor
  /\ \A x \in ToBridge : x.m = "start" => x.r \in Requests /\ x = [m |-> "start", r |-> x.r]
  /\ \A x \in ToEditor : x.r \in Requests /\ (x.m = "end" => x.text \in Answers)
  BY DEF ToBridge, ToEditor

\* Messages can be sent in either direction.
LEMMA SentLemma ==
  ASSUME AiTypeOK
  PROVE  /\ \A x \in ToBridge : Append(toBridge, x) \in Seq(ToBridge)
         /\ \A x \in ToEditor : Append(toEditor, x) \in Seq(ToEditor)
         /\ \A s \in Seq(ToEditor) : Forwarded(s) \in Seq(ToEditor)
  BY AppendProperties, ConcatProperties DEF AiTypeOK, Forwarded

LEMMA UnsubscribeType ==
  ASSUME AiTypeOK, NEW r, Unsubscribe(r)
  PROVE  open' \subseteq Requests /\ subs' \subseteq Requests /\ toBridge' \in Seq(ToBridge)
  BY SentLemma, MessageLemma DEF AiTypeOK, Unsubscribe

LEMMA CancelType ==
  ASSUME AiTypeOK, Cancel
  PROVE  /\ live' = Nothing /\ open' \subseteq Requests /\ subs' \subseteq Requests
         /\ toBridge' \in Seq(ToBridge)
         /\ UNCHANGED <<asked, toEditor, connected, relayVars, keyVars>>
  BY UnsubscribeType DEF AiTypeOK, Cancel

LEMMA AskType ==
  ASSUME AiTypeOK, NEW what \in Seq(Letters) \cup {Menu}, Ask(what)
  PROVE  /\ asked' \in [Requests -> Seq(Letters) \cup {Menu, Nothing}] /\ open' \subseteq Requests
         /\ toBridge' \in Seq(ToBridge) /\ live' \in Requests \cup {Nothing}
<1>1. PICK r \in Requests :
        /\ asked' = [asked EXCEPT ![r] = what]
        /\ open' = open \cup {r} /\ toBridge' = Append(toBridge, [m |-> "start", r |-> r])
        /\ live' = IF what = Menu THEN live ELSE r
  BY DEF Ask
<1>2. toBridge' \in Seq(ToBridge)
  BY <1>1, SentLemma, MessageLemma
<1> QED BY <1>1, <1>2 DEF AiTypeOK

LEMMA PlusLemma ==
  ASSUME NEW f \in [Requests -> Nat], NEW s
  PROVE  /\ Plus(f, s) \in [Requests -> Nat]
         /\ \A r \in Requests : Plus(f, s)[r] = IF \E i \in DOMAIN s : s[i] = r THEN f[r] + 1 ELSE f[r]
  BY DEF Plus

LEMMA ShownType ==
  ASSUME AiTypeOK, NEW r \in Requests, NEW l \in Answers
  PROVE  Shown(r, l) \in Ghosts \cup {Nothing}
<1>1. cursor \in Nat /\ Context(doc, cursor) \in Seq(Letters)
  BY ContextLemma, LenProperties DEF AiTypeOK
<1> QED BY <1>1 DEF AiTypeOK, Shown, Ghosts, Answers

LEMMA FailuresLemma ==
  ASSUME AiTypeOK
  PROVE  [i \in DOMAIN waiting |-> Failure(waiting[i])] \in Seq(ToEditor)
<1>1. Len(waiting) \in Nat /\ DOMAIN waiting = 1 .. Len(waiting)
  BY LenProperties DEF AiTypeOK
<1>2. \A i \in 1 .. Len(waiting) : Failure(waiting[i]) \in ToEditor
  BY ElementOfSeq, MessageLemma DEF AiTypeOK, Failure, Answers
<1>3. [i \in 1 .. Len(waiting) |-> Failure(waiting[i])] \in [1 .. Len(waiting) -> ToEditor]
  BY <1>2
<1> QED BY <1>1, <1>3, SeqDef

LEMMA AiTypeInit == AiInit => AiTypeOK
<1>1. AiInit => /\ doc \in Seq(Letters) /\ toBridge \in Seq(ToBridge) /\ toEditor \in Seq(ToEditor)
                /\ waiting \in Seq(Requests) /\ cursor \in 0 .. Len(doc)
  BY EmptySeq DEF AiInit, NoRequests
<1>2. AiInit => /\ asked \in [Requests -> Seq(Letters) \cup {Menu, Nothing}]
                /\ posts \in [Requests -> Nat] /\ ends \in [Requests -> Nat]
  BY DEF AiInit, NoRequests
<1>3. AiInit => connected = FALSE /\ reading = FALSE /\ emptied = FALSE
  BY Zenon DEF AiInit, NoRequests
<1>4. AiInit => loads = 0 /\ keyErrors = 0
  BY DEF AiInit, NoRequests
<1>5. AiInit => timer = Nothing /\ live = Nothing /\ ghost = Nothing /\ field = Nothing
  BY DEF AiInit, NoRequests
<1>6. AiInit => open = {} /\ subs = {}
  BY DEF AiInit, NoRequests
<1>7. AiInit => transport \in {"server", "local"} /\ key \in {"set", "missing"}
  BY Zenon DEF AiInit
<1>8. AiInit => connected \in BOOLEAN /\ reading \in BOOLEAN /\ emptied \in BOOLEAN
  BY <1>3, Zenon
<1>9. AiInit => /\ timer \in Seq(Letters) \cup {Nothing} /\ live \in Requests \cup {Nothing}
                /\ ghost \in Ghosts \cup {Nothing} /\ field \in {"empty", "key", Nothing}
  BY <1>5, Zenon
<1>10. AiInit => loads \in Nat /\ keyErrors \in Nat /\ open \subseteq Requests /\ subs \subseteq Requests
  BY <1>4, <1>6
<1> QED BY <1>1, <1>2, <1>7, <1>8, <1>9, <1>10, Zenon DEF AiTypeOK

\* An edit, or a movement of the cursor: what was asked for is cancelled.
Edits ==
  \/ \E l \in Letters : Typed(l)
  \/ Erased \/ \E c \in 0..MaxText : CursorMoved(c)
  \/ RangeSelected \/ \E t \in Texts : DocumentReplaced(t)
  \/ Accepted

LEMMA EditType ==
  ASSUME AiTypeOK, GhostContinuesText, Edits
  PROVE  /\ Cancel /\ doc' \in Seq(Letters) /\ cursor' \in 0 .. Len(doc')
         /\ timer' \in Seq(Letters) \cup {Nothing}
         /\ ghost' = Nothing \/ (ghost' = ghost /\ doc' = doc)
<1> USE DEF AiTypeOK, Schedule, TextChanged
<1>1. Len(doc) \in Nat
  BY LenProperties
<1>2. ASSUME NEW l \in Letters, Typed(l)
      PROVE  /\ Cancel /\ doc' \in Seq(Letters) /\ cursor' \in 0 .. Len(doc') /\ ghost' = Nothing
             /\ timer' \in Seq(Letters) \cup {Nothing}
  <2>1. doc' \in Seq(Letters) /\ cursor' \in 0 .. Len(doc')
    BY <1>1, <1>2, InsertedLemma DEF Typed
  <2>2. Context(doc', cursor') \in Seq(Letters)
    BY <2>1, ContextLemma
  <2> QED BY <1>2, <2>1, <2>2 DEF Typed
<1>3. ASSUME Erased
      PROVE  /\ Cancel /\ doc' \in Seq(Letters) /\ cursor' \in 0 .. Len(doc') /\ ghost' = Nothing
             /\ timer' \in Seq(Letters) \cup {Nothing}
  <2>1. cursor \in 1 .. Len(doc)
    BY <1>1, <1>3 DEF Erased
  <2>2. doc' \in Seq(Letters) /\ Len(doc') = Len(doc) - 1
    BY <1>3, <2>1, ErasedLemma DEF Erased
  <2>3. cursor' \in 0 .. Len(doc')
    <3>1. cursor' = cursor - 1
      BY <1>3 DEF Erased
    <3> QED BY <1>1, <2>1, <2>2, <3>1
  <2>4. Context(doc', cursor') \in Seq(Letters)
    BY <2>2, <2>3, ContextLemma
  <2> QED BY <1>3, <2>2, <2>3, <2>4 DEF Erased
<1>4. ASSUME NEW c \in 0 .. MaxText, CursorMoved(c)
      PROVE  /\ Cancel /\ doc' = doc /\ cursor' \in 0 .. Len(doc) /\ ghost' = ghost
             /\ timer' \in Seq(Letters) \cup {Nothing}
  <2>1. c \in 0 .. Len(doc) /\ Context(doc, c) \in Seq(Letters)
    BY <1>4, ContextLemma DEF CursorMoved
  <2> QED BY <1>4, <2>1 DEF CursorMoved
<1>5. ASSUME NEW t \in Texts, DocumentReplaced(t)
      PROVE  /\ Cancel /\ doc' \in Seq(Letters) /\ cursor' \in 0 .. Len(doc') /\ ghost' = Nothing
             /\ timer' \in Seq(Letters) \cup {Nothing}
  <2>1. doc' \in Seq(Letters) /\ Len(doc') \in Nat
    BY <1>5, TextLemma, LenProperties DEF DocumentReplaced
  <2> QED BY <1>5, <2>1 DEF DocumentReplaced
<1>6. ASSUME Accepted
      PROVE  /\ Cancel /\ doc' \in Seq(Letters) /\ cursor' \in 0 .. Len(doc') /\ ghost' = Nothing
             /\ timer' \in Seq(Letters) \cup {Nothing}
  <2>1. ghost.text \in Letters /\ ghost.from \in 0 .. Len(doc)
    BY <1>1, <1>6 DEF Accepted, Ghosts, GhostContinuesText
  <2>2. doc' \in Seq(Letters) /\ Len(doc') = Len(doc) + 1
    BY <1>6, <2>1, InsertedLemma DEF Accepted
  <2> QED BY <1>1, <1>6, <2>2 DEF Accepted
<1>7. ASSUME RangeSelected
      PROVE  Cancel /\ doc' = doc /\ cursor' = cursor /\ ghost' = ghost /\ timer' = Nothing
  BY <1>7 DEF RangeSelected
<1> QED BY <1>2, <1>3, <1>4, <1>5, <1>6, <1>7 DEF Edits

\* The steps, with the edits taken together.
LEMMA NextLemma ==
  ASSUME [AiNext]_aiVars
  PROVE  \/ Edits \/ Fired \/ MenuAsked \/ BridgeReceives \/ KeyLoaded \/ KeyLoadFailed
         \/ \E r \in Requests, answer \in Answers : Replied(r, answer)
         \/ EditorReceives
         \/ SettingsOpened \/ SettingsKeyRead \/ \E v \in {"empty", "key"} : FieldEdited(v)
         \/ AcceptAndSave \/ Rejected \/ UNCHANGED aiVars
  BY DEF AiNext, Edits

LEMMA AiTypeStep == AiTypeOK /\ GhostContinuesText /\ [AiNext]_aiVars => AiTypeOK'
<1> SUFFICES ASSUME AiTypeOK, GhostContinuesText, [AiNext]_aiVars PROVE AiTypeOK'
  OBVIOUS
<1>1. CASE Edits
  <2>1. /\ live' = Nothing /\ open' \subseteq Requests /\ subs' \subseteq Requests
        /\ toBridge' \in Seq(ToBridge)
        /\ UNCHANGED <<asked, toEditor, connected, relayVars, keyVars>>
    BY <1>1, EditType, CancelType
  <2>2. /\ doc' \in Seq(Letters) /\ cursor' \in 0 .. Len(doc')
        /\ timer' \in Seq(Letters) \cup {Nothing}
        /\ ghost' = Nothing \/ ghost' = ghost
    BY <1>1, EditType
  <2> QED BY <2>1, <2>2 DEF AiTypeOK, relayVars, keyVars
<1>2. CASE Fired
  <2>1. timer \in Seq(Letters) /\ Ask(timer)
    BY <1>2 DEF Fired, AiTypeOK
  <2> QED BY <1>2, <2>1, AskType DEF Fired, AiTypeOK, relayVars, keyVars
<1>3. CASE MenuAsked
  BY <1>3, AskType DEF MenuAsked, AiTypeOK, relayVars, keyVars
<1>4. CASE BridgeReceives
  <2> DEFINE message == Head(toBridge)
  <2>1. /\ message \in ToBridge /\ toBridge' \in Seq(ToBridge)
        /\ UNCHANGED <<editorVars, open, subs, transport, ends, keyVars>>
    BY <1>4, AiTailLemma DEF BridgeReceives, AiTypeOK
  <2>2. ASSUME NEW r \in Requests, StartAiRequest(r)
        PROVE  /\ toEditor' \in Seq(ToEditor) /\ waiting' \in Seq(Requests) /\ loads' \in Nat
               /\ posts' \in [Requests -> Nat] /\ connected' \in BOOLEAN
    <3>1. toEditor' \in Seq(ToEditor) /\ connected' = connected
      BY <2>2, SentLemma, MessageLemma DEF StartAiRequest
    <3>2. Append(waiting, r) \in Seq(Requests)
      BY AppendProperties DEF AiTypeOK
    <3>3. [posts EXCEPT ![r] = @ + 1] \in [Requests -> Nat] /\ loads + 1 \in Nat
      BY DEF AiTypeOK
    <3>4. \/ posts' = [posts EXCEPT ![r] = @ + 1] /\ waiting' = waiting /\ loads' = loads
          \/ waiting' = Append(waiting, r) /\ loads' = loads + 1 /\ posts' = posts
      BY <2>2 DEF StartAiRequest
    <3> QED BY <3>1, <3>2, <3>3, <3>4 DEF AiTypeOK
  <2>3. \/ \E r \in Requests : StartAiRequest(r)
        \/ connected' \in BOOLEAN /\ UNCHANGED <<toEditor, waiting, loads, posts>>
    BY <1>4, <2>1, MessageLemma DEF BridgeReceives
  <2> QED BY <2>1, <2>2, <2>3 DEF AiTypeOK, editorVars, keyVars
<1>5. CASE KeyLoaded
  <2>1. Forwarded([i \in DOMAIN waiting |-> Failure(waiting[i])]) \in Seq(ToEditor)
    BY FailuresLemma, SentLemma
  <2>2. <<>> \in Seq(Requests) /\ waiting' = <<>>
    BY <1>5, EmptySeq DEF KeyLoaded, Disconnected
  <2>3. loads' \in Nat /\ Plus(posts, waiting) \in [Requests -> Nat] /\ Plus(ends, waiting) \in [Requests -> Nat]
    <3>1. loads' \in Nat
      BY <1>5 DEF KeyLoaded, AiTypeOK
    <3> QED BY <3>1, PlusLemma DEF AiTypeOK
  <2> QED BY <1>5, <2>1, <2>2, <2>3 DEF KeyLoaded, AiTypeOK, editorVars, keyVars
<1>6. CASE KeyLoadFailed
  BY <1>6 DEF KeyLoadFailed, AiTypeOK, editorVars, channelVars
<1>7. ASSUME NEW r \in Requests, NEW answer \in Answers, Replied(r, answer) PROVE AiTypeOK'
  <2>1. <<[m |-> "end", r |-> r, text |-> answer]>> \in Seq(ToEditor)
    BY MessageLemma
  <2>2. toEditor' \in Seq(ToEditor)
    BY <1>7, <2>1, SentLemma DEF Replied
  <2> QED BY <1>7, <2>2 DEF Replied, AiTypeOK, editorVars, keyVars
<1>8. CASE EditorReceives
  <2> DEFINE message == Head(toEditor)
  <2>1. /\ message \in ToEditor /\ toEditor' \in Seq(ToEditor)
        /\ UNCHANGED <<doc, cursor, timer, asked, connected, relayVars, keyVars>>
    BY <1>8, AiTailLemma DEF EditorReceives, AiTypeOK
  <2>2. ASSUME NEW r \in Requests, IdReceived(r)
        PROVE  /\ open' \subseteq Requests /\ subs' \subseteq Requests
               /\ toBridge' \in Seq(ToBridge) /\ live' = live /\ ghost' = ghost
    BY <2>2, SentLemma, MessageLemma DEF IdReceived, AiTypeOK
  <2>3. ASSUME NEW r \in Requests, NEW l \in Answers, EndReceived(r, l)
        PROVE  /\ open' \subseteq Requests /\ subs' \subseteq Requests
               /\ toBridge' \in Seq(ToBridge) /\ live' \in {live, Nothing}
               /\ ghost' \in Ghosts \cup {Nothing}
    BY <2>3, UnsubscribeType, ShownType DEF EndReceived, AiTypeOK
  <2>4. \/ \E r \in Requests : IdReceived(r)
        \/ \E r \in Requests, l \in Answers : EndReceived(r, l)
    BY <1>8, <2>1, MessageLemma DEF EditorReceives
  <2> QED BY <2>1, <2>2, <2>3, <2>4 DEF AiTypeOK, relayVars, keyVars
<1>9. CASE SettingsOpened
  BY <1>9 DEF SettingsOpened, AiTypeOK, editorVars, channelVars, relayVars
<1>10. CASE SettingsKeyRead
  <2>1. /\ reading' = FALSE /\ field' \in {field, "key"} /\ keyErrors' \in {keyErrors, keyErrors + 1}
        /\ UNCHANGED <<editorVars, channelVars, relayVars, key, emptied>>
    BY <1>10 DEF SettingsKeyRead
  <2>2. keyErrors' \in Nat /\ field' \in {"empty", "key", Nothing}
    BY <2>1 DEF AiTypeOK
  <2> QED BY <2>1, <2>2 DEF AiTypeOK, editorVars, channelVars, relayVars
<1>11. ASSUME NEW v \in {"empty", "key"}, FieldEdited(v) PROVE AiTypeOK'
  BY <1>11 DEF FieldEdited, AiTypeOK, editorVars, channelVars, relayVars
<1>12. CASE AcceptAndSave
  <2>1. /\ reading' = FALSE /\ emptied' = FALSE /\ field' = Nothing
        /\ key' \in {key, "missing", "set"} /\ keyErrors' \in {keyErrors, keyErrors + 1}
        /\ UNCHANGED <<editorVars, channelVars, relayVars>>
    BY <1>12 DEF AcceptAndSave, Close
  <2>2. keyErrors' \in Nat /\ key' \in {"set", "missing"}
    BY <2>1 DEF AiTypeOK
  <2> QED BY <2>1, <2>2 DEF AiTypeOK, editorVars, channelVars, relayVars
<1>13. CASE Rejected
  BY <1>13 DEF Rejected, Close, AiTypeOK, editorVars, channelVars, relayVars
<1>14. CASE UNCHANGED aiVars
  BY <1>14 DEF AiTypeOK, aiVars, editorVars, channelVars, relayVars, keyVars
<1> QED BY <1>1, <1>2, <1>3, <1>4, <1>5, <1>6, <1>7, <1>8, <1>9, <1>10, <1>11, <1>12, <1>13,
           <1>14, NextLemma

-----------------------------------------------------------------------------
(* AI relay: the suggestion.                                                *)

LEMMA GhostStep == AiTypeOK /\ GhostContinuesText /\ [AiNext]_aiVars => GhostContinuesText'
<1> SUFFICES ASSUME AiTypeOK, GhostContinuesText, [AiNext]_aiVars PROVE GhostContinuesText'
  OBVIOUS
<1>1. ASSUME ghost' = Nothing \/ (ghost' = ghost /\ doc' = doc) PROVE GhostContinuesText'
  BY <1>1 DEF GhostContinuesText
<1>2. CASE EditorReceives
  <2>1. ASSUME NEW r, NEW l, ghost' = Shown(r, l), doc' = doc PROVE GhostContinuesText'
    <3>1. cursor <= Len(doc)
      BY LenProperties DEF AiTypeOK
    <3>2. CASE ghost' = ghost
      BY <2>1, <3>2 DEF GhostContinuesText
    <3>3. CASE ghost' = [from |-> cursor, text |-> l, for |-> asked[r]] /\ Context(doc, cursor) = asked[r]
      BY <2>1, <3>1, <3>3 DEF GhostContinuesText
    <3> QED BY <2>1, <3>2, <3>3 DEF Shown
  <2>2. doc' = doc /\ (ghost' = ghost \/ \E r, l : ghost' = Shown(r, l))
    BY <1>2 DEF EditorReceives, IdReceived, EndReceived
  <2> QED BY <1>1, <2>1, <2>2
<1>3. CASE Edits
  BY <1>1, <1>3, EditType
<1>4. CASE ~Edits /\ ~EditorReceives
  <2>1. ghost' = ghost /\ doc' = doc
    BY <1>4, NextLemma
       DEF Fired, MenuAsked, BridgeReceives, KeyLoaded, KeyLoadFailed, Replied, SettingsOpened,
           SettingsKeyRead, FieldEdited, AcceptAndSave, Rejected, aiVars, editorVars
  <2> QED BY <1>1, <2>1
<1> QED BY <1>2, <1>3, <1>4

-----------------------------------------------------------------------------
(* AI relay: where a request is.                                            *)

Start(r) == [m |-> "start", r |-> r]
SentIn(q, r) == \E i \in 1 .. Len(q) : q[i] = Start(r)
Distinct(q) == \A i, j \in 1 .. Len(q) : q[i].m = "start" /\ q[i] = q[j] => i = j
Waits(r) == \E i \in DOMAIN waiting : waiting[i] = r

\* A request is on its way to the bridge, waits for the key, or was posted; and it
\* is never in two of these places.
Once ==
  /\ Distinct(toBridge)
  /\ \A r \in Requests :
       /\ asked[r] = Nothing => ~SentIn(toBridge, r)
       /\ asked[r] = Nothing \/ SentIn(toBridge, r) => ~Waits(r)
       /\ asked[r] = Nothing \/ SentIn(toBridge, r) \/ Waits(r) => posts[r] = 0 /\ ends[r] = 0
       /\ posts[r] <= 1 /\ ends[r] <= 1
  /\ waiting # <<>> /\ keyErrors = 0 => loads > 0

LEMMA StartLemma ==
  /\ \A r, s : Start(r) = Start(s) => r = s
  /\ \A r : Start(r).m = "start" /\ Start(r).r = r
<1>1. \A r : Start(r).m = "start" /\ Start(r).r = r
  BY DEF Start
<1> QED BY <1>1

LEMMA AppendOther ==
  ASSUME NEW q \in Seq(ToBridge), NEW x \in ToBridge, x.m # "start"
  PROVE  /\ Distinct(q) => Distinct(Append(q, x))
         /\ \A r : SentIn(Append(q, x), r) <=> SentIn(q, r)
<1> DEFINE t == Append(q, x)
<1>1. /\ Len(t) = Len(q) + 1 /\ Len(q) \in Nat /\ t[Len(q) + 1] = x
      /\ \A i \in 1 .. Len(q) : t[i] = q[i]
  BY AppendProperties, LenProperties
<1> HIDE DEF t
<1>2. \A i \in 1 .. Len(t) : i \in 1 .. Len(q) \/ i = Len(q) + 1
  BY <1>1
<1>3. Distinct(q) => Distinct(t)
  BY <1>1, <1>2 DEF Distinct
<1>4. \A r : x # Start(r)
  BY StartLemma
<1>5. \A r : SentIn(t, r) <=> SentIn(q, r)
  BY <1>1, <1>2, <1>4 DEF SentIn
<1> QED BY <1>3, <1>5 DEF t

LEMMA AppendStart ==
  ASSUME NEW q \in Seq(ToBridge), NEW r \in Requests
  PROVE  /\ Distinct(q) /\ ~SentIn(q, r) => Distinct(Append(q, Start(r)))
         /\ \A s : SentIn(Append(q, Start(r)), s) => SentIn(q, s) \/ s = r
<1> DEFINE t == Append(q, Start(r))
<1>0. Start(r) \in ToBridge
  BY MessageLemma DEF Start
<1>1. /\ Len(t) = Len(q) + 1 /\ Len(q) \in Nat /\ t[Len(q) + 1] = Start(r)
      /\ \A i \in 1 .. Len(q) : t[i] = q[i]
  BY <1>0, AppendProperties, LenProperties
<1> HIDE DEF t
<1>2. \A i \in 1 .. Len(t) : i \in 1 .. Len(q) \/ i = Len(q) + 1
  BY <1>1
<1>3. Distinct(q) /\ ~SentIn(q, r) => Distinct(t)
  BY <1>1, <1>2 DEF Distinct, SentIn
<1>4. \A s : SentIn(t, s) => SentIn(q, s) \/ s = r
  BY <1>1, <1>2, StartLemma DEF SentIn
<1> QED BY <1>3, <1>4 DEF t

LEMMA TakeFirst ==
  ASSUME NEW q \in Seq(ToBridge), q # <<>>, Distinct(q)
  PROVE  /\ Distinct(Tail(q))
         /\ \A r : SentIn(Tail(q), r) => SentIn(q, r)
         /\ \A r : Head(q) = Start(r) => SentIn(q, r) /\ ~SentIn(Tail(q), r)
<1> DEFINE t == Tail(q)
<1>1. /\ Head(q) = q[1] /\ Len(t) = Len(q) - 1 /\ Len(q) \in Nat /\ Len(q) > 0
      /\ \A i \in 1 .. Len(t) : t[i] = q[i + 1] /\ i + 1 \in 1 .. Len(q)
  BY AiTailLemma
<1> HIDE DEF t
<1>2. Distinct(t)
  <2> SUFFICES ASSUME NEW i \in 1 .. Len(t), NEW j \in 1 .. Len(t), t[i].m = "start", t[i] = t[j]
               PROVE  i = j
    BY DEF Distinct
  <2>1. i + 1 = j + 1
    BY <1>1 DEF Distinct
  <2> QED BY <2>1
<1>3. \A r : SentIn(t, r) => SentIn(q, r)
  BY <1>1 DEF SentIn
<1>4. ASSUME NEW r, Head(q) = Start(r) PROVE SentIn(q, r) /\ ~SentIn(t, r)
  <2>1. 1 \in 1 .. Len(q) /\ q[1] = Start(r)
    BY <1>1, <1>4
  <2>2. ASSUME NEW i \in 1 .. Len(t), t[i] = Start(r) PROVE FALSE
    <3>1. q[i + 1] = q[1] /\ q[1].m = "start" /\ i + 1 \in 1 .. Len(q)
      BY <1>1, <2>1, <2>2, StartLemma
    <3>2. i + 1 = 1
      BY <2>1, <3>1 DEF Distinct
    <3> QED BY <3>2
  <2> QED BY <2>1, <2>2 DEF SentIn
<1> QED BY <1>2, <1>3, <1>4 DEF t

\* Nothing happens to a request, but the editor may have connected or disconnected.
LEMMA QuietOnce ==
  ASSUME AiTypeOK, Once, UNCHANGED <<asked, waiting, loads, posts, ends>>,
         keyErrors' = 0 => keyErrors = 0,
         \/ toBridge' = toBridge
         \/ \E x \in ToBridge : x.m # "start" /\ toBridge' = Append(toBridge, x)
  PROVE  Once'
<1>1. /\ Distinct(toBridge')
      /\ \A r : SentIn(toBridge', r) <=> SentIn(toBridge, r)
  BY AppendOther DEF AiTypeOK, Once
<1>2. \A r : Waits(r)' <=> Waits(r)
  BY DEF Waits
<1> QED BY <1>1, <1>2 DEF Once

LEMMA AskOnce ==
  ASSUME AiTypeOK, Once, NEW what \in Seq(Letters) \cup {Menu}, what # Nothing, Ask(what),
         UNCHANGED <<waiting, loads, posts, ends, keyErrors>>
  PROVE  Once'
<1>1. PICK r \in Requests :
        /\ asked[r] = Nothing /\ asked' = [asked EXCEPT ![r] = what]
        /\ toBridge' = Append(toBridge, Start(r))
  BY DEF Ask, Start
<1>2. /\ asked'[r] # Nothing /\ ~SentIn(toBridge, r)
      /\ \A s \in Requests : s # r => asked'[s] = asked[s]
  BY <1>1 DEF AiTypeOK, Once
<1>3. /\ Distinct(toBridge')
      /\ \A s : SentIn(toBridge', s) => SentIn(toBridge, s) \/ s = r
  BY <1>1, <1>2, AppendStart DEF AiTypeOK, Once
<1>4. \A s : Waits(s)' <=> Waits(s)
  BY DEF Waits
<1>5. posts[r] = 0 /\ ends[r] = 0 /\ ~Waits(r)
  BY <1>1 DEF Once
<1> QED BY <1>1, <1>2, <1>3, <1>4, <1>5 DEF Once

LEMMA StartOnce ==
  ASSUME AiTypeOK, Once, NEW r \in Requests, toBridge # <<>>, Head(toBridge) = Start(r),
         toBridge' = Tail(toBridge), StartAiRequest(r), UNCHANGED <<asked, ends, keyErrors>>
  PROVE  Once'
<1>1. /\ Distinct(toBridge') /\ ~SentIn(toBridge', r) /\ SentIn(toBridge, r)
      /\ \A s : SentIn(toBridge', s) => SentIn(toBridge, s)
  BY TakeFirst DEF AiTypeOK, Once
<1>2. posts[r] = 0 /\ ends[r] = 0 /\ ~Waits(r) /\ asked[r] # Nothing
  BY <1>1 DEF Once
<1>3. CASE posts' = [posts EXCEPT ![r] = @ + 1] /\ UNCHANGED <<waiting, loads>>
  <2>1. /\ posts'[r] = 1 /\ \A s \in Requests : s # r => posts'[s] = posts[s]
    BY <1>2, <1>3 DEF AiTypeOK
  <2>2. \A s : Waits(s)' <=> Waits(s)
    BY <1>3 DEF Waits
  <2> QED BY <1>1, <1>2, <1>3, <2>1, <2>2 DEF Once
<1>4. CASE waiting' = Append(waiting, r) /\ loads' = loads + 1 /\ posts' = posts
  <2>1. /\ DOMAIN waiting = 1 .. Len(waiting) /\ DOMAIN waiting' = 1 .. Len(waiting')
        /\ Len(waiting') = Len(waiting) + 1 /\ Len(waiting) \in Nat /\ waiting'[Len(waiting) + 1] = r
        /\ \A i \in 1 .. Len(waiting) : waiting'[i] = waiting[i]
    BY <1>4, AppendProperties, LenProperties DEF AiTypeOK
  <2>2. \A s : Waits(s)' => Waits(s) \/ s = r
    BY <2>1 DEF Waits
  <2>3. loads' > 0
    BY <1>4 DEF AiTypeOK
  <2> QED BY <1>1, <1>2, <1>4, <2>2, <2>3 DEF Once
<1> QED BY <1>3, <1>4 DEF StartAiRequest

LEMMA LoadedOnce ==
  ASSUME AiTypeOK, Once, KeyLoaded
  PROVE  Once'
<1>1. waiting' = <<>> /\ UNCHANGED <<asked, toBridge, keyErrors>>
  BY DEF KeyLoaded, Disconnected, editorVars, keyVars
<1>2. \A r : ~Waits(r)'
  BY <1>1 DEF Waits
<1>3. \A r \in Requests : SentIn(toBridge', r) = SentIn(toBridge, r)
  BY <1>1
<1>4. ASSUME NEW f \in [Requests -> Nat], NEW r \in Requests
      PROVE  Plus(f, waiting)[r] = IF Waits(r) THEN f[r] + 1 ELSE f[r]
  BY PlusLemma DEF Waits
<1>5. \A r \in Requests :
        IF Waits(r) THEN posts'[r] \in {posts[r], posts[r] + 1} /\ ends'[r] \in {ends[r], ends[r] + 1}
                    ELSE posts'[r] = posts[r] /\ ends'[r] = ends[r]
  BY <1>4 DEF KeyLoaded, AiTypeOK
<1>6. \A r \in Requests : posts'[r] <= 1 /\ ends'[r] <= 1
  BY <1>5 DEF Once
<1> QED BY <1>1, <1>2, <1>3, <1>5, <1>6 DEF Once

LEMMA RepliedOnce ==
  ASSUME AiTypeOK, Once, NEW r \in Requests, NEW a, Replied(r, a)
  PROVE  Once'
<1>1. /\ UNCHANGED <<asked, toBridge, waiting, loads, posts, keyErrors>>
      /\ posts[r] > ends[r] /\ ends' = [ends EXCEPT ![r] = @ + 1]
  BY DEF Replied, editorVars, keyVars
<1>2. posts[r] = 1 /\ ends[r] = 0
  BY <1>1 DEF AiTypeOK, Once
<1>3. ends'[r] = 1 /\ \A s \in Requests : s # r => ends'[s] = ends[s]
  BY <1>1, <1>2 DEF AiTypeOK
<1>4. \A s : Waits(s)' <=> Waits(s)
  BY <1>1 DEF Waits
<1>5. asked[r] # Nothing /\ ~SentIn(toBridge, r) /\ ~Waits(r)
  BY <1>2 DEF Once
<1> QED BY <1>1, <1>2, <1>3, <1>4, <1>5 DEF Once

LEMMA OnceStep ==
  AiTypeOK /\ GhostContinuesText /\ Once /\ [AiNext]_aiVars => Once'
<1> SUFFICES ASSUME AiTypeOK, GhostContinuesText, Once, [AiNext]_aiVars PROVE Once'
  OBVIOUS
<1> DEFINE Quiet ==
             /\ UNCHANGED <<asked, waiting, loads, posts, ends>>
             /\ keyErrors' = 0 => keyErrors = 0
             /\ \/ toBridge' = toBridge
                \/ \E x \in ToBridge : x.m # "start" /\ toBridge' = Append(toBridge, x)
<1>1. Quiet => Once'
  BY QuietOnce
<1>2. ASSUME NEW r, Unsubscribe(r)
      PROVE  \/ toBridge' = toBridge
             \/ \E x \in ToBridge : x.m # "start" /\ toBridge' = Append(toBridge, x)
  <2>1. [m |-> "disconnect"] \in ToBridge /\ [m |-> "disconnect"].m # "start"
    BY MessageLemma
  <2> QED BY <1>2, <2>1 DEF Unsubscribe
<1>3. CASE Edits
  <2>1. Cancel
    BY <1>3, EditType
  <2>2. UNCHANGED <<asked, waiting, loads, posts, ends, keyErrors>>
    BY <2>1 DEF Cancel, relayVars, keyVars
  <2>3. toBridge' = toBridge \/ \E r : Unsubscribe(r)
    BY <2>1 DEF Cancel
  <2> QED BY <1>1, <1>2, <2>2, <2>3
<1>4. CASE Fired
  <2>1. timer \in Seq(Letters) /\ timer # Nothing /\ Ask(timer)
    BY <1>4 DEF Fired, AiTypeOK
  <2>2. UNCHANGED <<waiting, loads, posts, ends, keyErrors>>
    BY <1>4 DEF Fired, relayVars, keyVars
  <2> QED BY <2>1, <2>2, AskOnce
<1>5. CASE MenuAsked
  BY <1>5, AskOnce, AiRelayAssumption DEF MenuAsked, relayVars, keyVars
<1>6. CASE BridgeReceives
  <2>1. /\ toBridge # <<>> /\ toBridge' = Tail(toBridge) /\ Head(toBridge) \in ToBridge
        /\ UNCHANGED <<asked, ends, keyErrors>>
    BY <1>6, AiTailLemma DEF BridgeReceives, AiTypeOK, editorVars, keyVars
  <2>2. CASE Head(toBridge).m = "start" /\ StartAiRequest(Head(toBridge).r)
    <3>1. Head(toBridge).r \in Requests /\ Head(toBridge) = Start(Head(toBridge).r)
      BY <2>1, <2>2, MessageLemma DEF Start
    <3> QED BY <2>1, <2>2, <3>1, StartOnce
  <2>3. CASE UNCHANGED <<waiting, loads, posts>>
    <3>1. /\ Distinct(toBridge') /\ \A r : SentIn(toBridge', r) => SentIn(toBridge, r)
      BY <2>1, TakeFirst DEF AiTypeOK, Once
    <3>2. \A r : Waits(r)' <=> Waits(r)
      BY <2>3 DEF Waits
    <3> QED BY <2>1, <2>3, <3>1, <3>2 DEF Once
  <2> QED BY <1>6, <2>2, <2>3 DEF BridgeReceives
<1>7. CASE KeyLoaded
  BY <1>7, LoadedOnce
<1>8. CASE KeyLoadFailed
  <2>1. /\ UNCHANGED <<asked, toBridge, waiting, posts, ends>> /\ keyErrors' > 0
    BY <1>8 DEF KeyLoadFailed, AiTypeOK, editorVars, channelVars
  <2>2. \A r : Waits(r)' <=> Waits(r)
    BY <2>1 DEF Waits
  <2> QED BY <2>1, <2>2 DEF Once
<1>9. ASSUME NEW r \in Requests, NEW a, Replied(r, a) PROVE Once'
  BY <1>9, RepliedOnce
<1>10. CASE EditorReceives
  <2>1. UNCHANGED <<asked, waiting, loads, posts, ends, keyErrors>>
    BY <1>10 DEF EditorReceives, relayVars, keyVars
  <2>2. \/ toBridge' = toBridge \/ toBridge' = Append(toBridge, [m |-> "connect"])
        \/ \E r : Unsubscribe(r)
    BY <1>10 DEF EditorReceives, IdReceived, EndReceived
  <2>3. [m |-> "connect"] \in ToBridge /\ [m |-> "connect"].m # "start"
    BY MessageLemma
  <2> QED BY <1>1, <1>2, <2>1, <2>2, <2>3
<1>11. CASE \/ SettingsOpened \/ SettingsKeyRead \/ \E v \in {"empty", "key"} : FieldEdited(v)
            \/ AcceptAndSave \/ Rejected \/ UNCHANGED aiVars
  <2>1. UNCHANGED <<asked, toBridge, waiting, loads, posts, ends>>
    BY <1>11 DEF SettingsOpened, SettingsKeyRead, FieldEdited, AcceptAndSave, Rejected, aiVars,
                 editorVars, channelVars, relayVars
  <2>2. keyErrors' \in {keyErrors, keyErrors + 1}
    BY <1>11 DEF SettingsOpened, SettingsKeyRead, FieldEdited, AcceptAndSave, Rejected, aiVars, keyVars
  <2>3. keyErrors' = 0 => keyErrors = 0
    BY <2>2 DEF AiTypeOK
  <2> QED BY <1>1, <2>1, <2>3
<1> QED BY <1>3, <1>4, <1>5, <1>6, <1>7, <1>8, <1>9, <1>10, <1>11, NextLemma

-----------------------------------------------------------------------------
(* AI relay: theorems.                                                      *)

AiIInv == AiTypeOK /\ GhostContinuesText /\ Once

LEMMA AiInductive == AiSpec => []AiIInv
<1>1. AiInit => AiIInv
  <2>1. AiInit => GhostContinuesText
    BY DEF AiInit, NoRequests, GhostContinuesText
  <2>2. AiInit => Once
    <3> SUFFICES ASSUME AiInit PROVE Once
      OBVIOUS
    <3>1. toBridge = <<>> /\ waiting = <<>> /\ \A r \in Requests : posts[r] = 0 /\ ends[r] = 0
      BY DEF AiInit, NoRequests
    <3>2. Distinct(toBridge) /\ \A r : ~SentIn(toBridge, r) /\ ~Waits(r)
      BY <3>1 DEF Distinct, SentIn, Waits
    <3> QED BY <3>1, <3>2 DEF Once
  <2> QED BY <2>1, <2>2, AiTypeInit DEF AiIInv
<1>2. AiIInv /\ [AiNext]_aiVars => AiIInv'
  BY AiTypeStep, GhostStep, OnceStep DEF AiIInv
<1> QED BY <1>1, <1>2, PTL DEF AiSpec

\* The cursor is in the document, a suggestion is a letter, a message is about a
\* request (inlineSuggestionScheduler.ts, editor_bridge.cc).
THEOREM AiTypeCorrect == AiSpec => []AiTypeOK
<1>1. AiIInv => AiTypeOK
  BY DEF AiIInv
<1> QED BY <1>1, AiInductive, PTL

\* However many requests share the signals of the key store, each is posted at
\* most once and ends at most once (StartLocalKeyAiRequest, CallProviderAndRelay).
THEOREM RelayCorrect == AiSpec => []EachIsRelayedOnce
<1>1. AiIInv => EachIsRelayedOnce
  BY DEF AiIInv, Once, EachIsRelayedOnce, AiTypeOK
<1> QED BY <1>1, AiInductive, PTL

\* No suggestion is shown that continues another text
\* (inlineSuggestionExtension.ts, inlineSuggestionScheduler.ts).
THEOREM GhostCorrect == AiSpec => []GhostContinuesText
<1>1. AiIInv => GhostContinuesText
  BY DEF AiIInv
<1> QED BY <1>1, AiInductive, PTL
=============================================================================
