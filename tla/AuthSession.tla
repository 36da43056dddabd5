----------------------------- MODULE AuthSession -----------------------------
(***************************************************************************)
(* The sign-in of the desktop (src/src/auth/auth_session_manager.cc) with  *)
(* its keyring store (auth_token_store.cc).                                *)
(*                                                                         *)
(* All handlers run on the GUI thread.  What comes back later is explicit: *)
(* jobs are the keyring operations under way, in order; request is what    *)
(* the OAuth flow waits for.  A token is the user it stands for, its age   *)
(* and whether a refresh token comes with it; profile, titles and the id   *)
(* token are left out.  The identity provider may answer or fail, the      *)
(* keyring may fail, and the program may be quit, which drops the jobs.    *)
(***************************************************************************)
EXTENDS Naturals, Sequences

CONSTANTS
  Users,     \* users that may sign in
  None,      \* no token
  MaxJobs,   \* bound on keyring operations under way
  MaxFaults  \* bound on failures of the keyring

VARIABLES
  config,     \* "off", "bad" or "good": enabled, and complete with a loopback URI
  state,      \* AuthSessionState
  flow,       \* whether oauth_flow_ is there, and its token
  request,    \* what the flow waits for: "none", "code", "refresh"
  announced,  \* the last accessTokenChanged
  keyring,    \* the stored session
  jobs,       \* keyring operations under way
  raced,      \* history: a session was begun or ended while the keyring was being read
  faults

vars == <<config, state, flow, request, announced, keyring, jobs, raced, faults>>

\* A stored session; the token in use is fresh or due for a refresh.
Stored == [user : Users, refresh : BOOLEAN]
Token == [user : Users, refresh : BOOLEAN, due : BOOLEAN]
InUse(t, due) == [user |-> t.user, refresh |-> t.refresh, due |-> due]
NoFlow == [there |-> FALSE, token |-> None]
Flow(t) == [there |-> TRUE, token |-> t]
Load == [do |-> "load"]
Clear == [do |-> "clear"]
Save(u, r) == [do |-> "save", token |-> [user |-> u, refresh |-> r]]
User(t) == IF t = None THEN None ELSE t.user

ASSUME AuthSessionAssumption == None \notin Users \cup Stored \cup Token

Init ==
  /\ config = "good" /\ state = "signedOut" /\ flow = Flow(None) /\ request = "none"
  /\ announced = None /\ keyring \in Stored \cup {None}
  /\ jobs = <<Load>> /\ raced = FALSE /\ faults = 0

Loading == \E n \in DOMAIN jobs : jobs[n] = Load
Race == raced' = (raced \/ Loading)
CanStartSignIn == config = "good" /\ state \in {"signedOut", "error"}
CanSignOut == state \in {"awaiting", "refreshing", "authenticated"}

Room == Len(jobs) < MaxJobs

-----------------------------------------------------------------------------
(* Settings, the sign-in button.                                            *)

\* RebuildOAuthFlow: the port of the callback may be taken.
RebuildOAuthFlow == flow' \in {Flow(None), NoFlow}

\* ApplySettings, after every change of the settings, whatever it changes.
ApplySettings(c) ==
  /\ config' = c
  /\ announced' = None /\ request' = "none"
  /\ \/ /\ c = "off" /\ flow' = NoFlow /\ state' = "disabled" /\ UNCHANGED jobs
     \/ /\ c = "bad" /\ flow' = NoFlow /\ state' = "error" /\ UNCHANGED jobs
     \/ /\ c = "good" /\ RebuildOAuthFlow
        /\ IF flow'.there THEN state' = "signedOut" /\ Room /\ jobs' = Append(jobs, Load)
                         ELSE state' = "error" /\ UNCHANGED jobs
  /\ UNCHANGED <<keyring, raced, faults>>

\* The flow asks the browser for a code; the browser may not open.
StartSignIn ==
  /\ CanStartSignIn
  /\ Race
  /\ \/ /\ flow' = IF flow.there THEN flow ELSE Flow(None)
        /\ state' \in {"awaiting", "error"} /\ request' = "code"
     \/ ~flow.there /\ state' = "error" /\ UNCHANGED <<flow, request>>
  /\ UNCHANGED <<config, announced, keyring, jobs, faults>>

\* Mutant: signing out leaves the keyring to itself.
SignOut_KeepKeyring ==
  /\ CanSignOut
  /\ announced' = None /\ request' = "none"
  /\ RebuildOAuthFlow /\ state' = "signedOut" /\ Race
  /\ UNCHANGED <<config, keyring, jobs, faults>>

\* SignOut, also "Cancel" while the browser is open.
SignOut ==
  /\ CanSignOut /\ Room
  /\ announced' = None /\ request' = "none"
  /\ jobs' = Append(jobs, Clear)
  /\ RebuildOAuthFlow /\ state' = "signedOut" /\ Race
  /\ UNCHANGED <<config, keyring, faults>>

\* The callback brings the code, even after the browser was reported missing.
AuthorizationCallbackReceived ==
  /\ request = "code" /\ state' = "awaiting"
  /\ UNCHANGED <<config, flow, request, announced, keyring, jobs, raced, faults>>

-----------------------------------------------------------------------------
(* Answers of the identity provider.                                        *)

\* PersistCurrentTokens for the signals of a new token: first with the refresh
\* token the flow had, then with the one it was given.
Persisted(old, t) ==
  (IF t.refresh /\ (old = None \/ ~old.refresh) THEN <<Save(t.user, FALSE)>> ELSE <<>>)
    \o <<Save(t.user, t.refresh)>>

\* tokenChanged, refreshTokenChanged, granted.
Granted(t) ==
  /\ request # "none" /\ ~t.due /\ Room
  /\ request = "refresh" => t.user = flow.token.user /\ t.refresh
  /\ flow' = Flow(t) /\ announced' = t.user
  /\ request' = "none" /\ state' = "authenticated"
  /\ jobs' = jobs \o Persisted(flow.token, t)
  /\ UNCHANGED <<config, keyring, raced, faults>>

\* Mutant: the stored session outlives a refresh that has failed.
SessionRefreshFailed_KeepToken ==
  /\ request' = "none" /\ RebuildOAuthFlow /\ state' = "signedOut" /\ Race
  /\ UNCHANGED <<announced, jobs>>

\* HandleSessionRefreshFailure.
SessionRefreshFailed ==
  /\ announced' = None /\ request' = "none"
  /\ jobs' = Append(jobs, Clear)
  /\ RebuildOAuthFlow /\ state' = "signedOut" /\ Race

\* requestFailed; a failure the server explains comes a second time, when the
\* session has been given up (serverReportedErrorOccurred).
RequestFailed ==
  /\ request # "none"
  /\ IF CanSignOut /\ state # "awaiting"
     THEN \/ SessionRefreshFailed
          \/ /\ announced' = None /\ request' = "none"
             /\ jobs' = Append(jobs, Clear)
             /\ RebuildOAuthFlow /\ state' = "error" /\ Race
     ELSE state' = "error" /\ request' = "none" /\ UNCHANGED <<flow, announced, jobs, raced>>
  /\ UNCHANGED <<config, keyring, faults>>

-----------------------------------------------------------------------------
(* Time.                                                                    *)

\* A token has less than a minute left.
FallsDue ==
  /\ flow.token # None /\ ~flow.token.due
  /\ flow' = Flow([flow.token EXCEPT !.due = TRUE])
  /\ UNCHANGED <<config, state, request, announced, keyring, jobs, raced, faults>>

\* Mutant: the watchdog leaves a session without a refresh token to itself.
WatchdogFires_RefreshOnly ==
  /\ state' = "refreshing"
  /\ request' = IF flow.token.refresh THEN "refresh" ELSE request
  /\ UNCHANGED <<flow, announced, jobs, raced>>

WatchdogFires ==
  IF ~flow.token.refresh THEN SessionRefreshFailed
  ELSE /\ state' = "refreshing" /\ request' = "refresh"
       /\ UNCHANGED <<flow, announced, jobs, raced>>

\* The watchdog, and Qt's own automatic refresh, which tells of itself
\* (accessTokenAboutToExpire) also when there is nothing to refresh with.
HandleTokenWatchdogTimeout ==
  /\ state \in {"authenticated", "refreshing"} /\ request = "none"
  /\ flow.token # None /\ flow.token.due
  /\ WatchdogFires
  /\ UNCHANGED <<config, keyring, faults>>

AccessTokenAboutToExpire ==
  /\ flow.token # None /\ flow.token.due /\ request = "none"
  /\ state = "authenticated" /\ state' = "refreshing"
  /\ request' = IF flow.token.refresh THEN "refresh" ELSE "none"
  /\ UNCHANGED <<config, flow, announced, keyring, jobs, raced, faults>>

-----------------------------------------------------------------------------
(* The keyring.                                                             *)

\* HandleStoredTokensLoaded.  setToken tells everybody of the token, and stores
\* it without its refresh token, before anybody looks whether it has expired.
HandleStoredTokensLoaded(t, expired) ==
  LET left == Tail(jobs) \o Persisted(flow.token, t) IN
  IF ~expired
  THEN /\ flow' = Flow(t) /\ announced' = t.user /\ state' = "authenticated"
       /\ jobs' = left /\ UNCHANGED <<request, raced>>
  ELSE IF t.refresh
  THEN /\ flow' = Flow(t) /\ announced' = t.user /\ state' = "refreshing"
       /\ request' = "refresh" /\ jobs' = left /\ UNCHANGED raced
  ELSE /\ announced' = None /\ request' = "none" /\ jobs' = Append(left, Clear)
       /\ RebuildOAuthFlow /\ state' = "signedOut"
       /\ raced' = (raced \/ \E n \in 2 .. Len(jobs) : jobs[n] = Load)

LoadDone ==
  /\ jobs # <<>> /\ Head(jobs) = Load
  /\ \/ /\ keyring # None /\ flow.there
        /\ \E expired \in BOOLEAN : HandleStoredTokensLoaded(InUse(keyring, expired), expired)
        /\ UNCHANGED faults
     \/ /\ keyring = None \/ ~flow.there
        /\ state' = IF flow.there THEN "signedOut" ELSE state
        /\ jobs' = Tail(jobs) /\ UNCHANGED <<flow, request, announced, raced, faults>>
     \/ /\ faults < MaxFaults /\ faults' = faults + 1 /\ state' = "error"
        /\ jobs' = Tail(jobs) /\ UNCHANGED <<flow, request, announced, raced>>
  /\ UNCHANGED <<config, keyring>>

SaveOrClearDone ==
  /\ jobs # <<>> /\ Head(jobs) # Load
  /\ \/ /\ keyring' = IF Head(jobs) = Clear THEN None ELSE Head(jobs).token
        /\ UNCHANGED faults
     \/ faults < MaxFaults /\ faults' = faults + 1 /\ UNCHANGED keyring
  /\ jobs' = Tail(jobs)
  /\ UNCHANGED <<config, state, flow, request, announced, raced>>

\* The program is quit and started again.
Restart ==
  /\ config = "good" /\ state' = "signedOut" /\ flow' = Flow(None) /\ request' = "none"
  /\ announced' = None /\ jobs' = <<Load>> /\ raced' = FALSE
  /\ UNCHANGED <<config, keyring, faults>>

Next ==
  \/ \E c \in {"off", "bad", "good"} : ApplySettings(c)
  \/ StartSignIn \/ SignOut \/ AuthorizationCallbackReceived
  \/ \E t \in Token : Granted(t)
  \/ RequestFailed
  \/ FallsDue \/ HandleTokenWatchdogTimeout \/ AccessTokenAboutToExpire
  \/ LoadDone \/ SaveOrClearDone \/ Restart

\* Timers fire, keyring jobs end, and the network answers or times out.  Nothing
\* is assumed of the user.
Fairness ==
  /\ WF_vars(HandleTokenWatchdogTimeout)
  /\ WF_vars(request = "refresh" /\ (RequestFailed \/ \E t \in Token : Granted(t)))
  /\ WF_vars(LoadDone \/ SaveOrClearDone)
Spec == Init /\ [][Next]_vars /\ Fairness

-----------------------------------------------------------------------------
(* What must hold.                                                          *)

Job == {Load, Clear} \cup [do : {"save"}, token : Stored]

\* The flow has a token only while it is there.
TypeOK ==
  /\ config \in {"off", "bad", "good"}
  /\ state \in {"disabled", "signedOut", "awaiting", "refreshing", "authenticated", "error"}
  /\ flow \in {NoFlow} \cup {Flow(t) : t \in Token \cup {None}}
  /\ request \in {"none", "code", "refresh"} /\ announced \in Users \cup {None}
  /\ keyring \in Stored \cup {None} /\ jobs \in Seq(Job)
  /\ raced \in BOOLEAN /\ faults \in Nat

\* The backend, the sync service and the bridge have been told of the token the
\* flow holds, and a session that is shown as signed in has one; once the keyring
\* is at rest, and if no session was begun or ended while it was being read, a
\* session that is shown as signed out is announced to nobody (AuthSessionManager).
SessionAgrees ==
  /\ announced = User(flow.token)
  /\ state = "authenticated" => announced # None
  /\ state \in {"signedOut", "disabled"} /\ ~raced /\ jobs = <<>> => announced = None

\* A user who signs out stays signed out over a restart: nothing is left in the
\* keyring of a session that was ended (SignOut, HandleSessionRefreshFailure).
SignedOutIsForgotten ==
  state = "signedOut" /\ jobs = <<>> /\ ~raced /\ faults = 0 => keyring = None

\* A session does not stay "Refreshing" (HandleTokenWatchdogTimeout).
RefreshEnds == (state = "refreshing") ~> (state # "refreshing")
=============================================================================
