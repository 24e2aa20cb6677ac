---------------------------- MODULE BrowserSession ----------------------------
(***************************************************************************)
(* The session a browser tab shows, and what is done in its name: requests *)
(* to the API, cached answers, password changes and password recovery.     *)
(*                                                                         *)
(* This is one tab of a browser. It shares with the other tabs one mark in *)
(* localStorage, the intent to be logged out, which they set and lift at   *)
(* any time. The provider's SDK is external: it may report any event about *)
(* any session at any time and in any order, and a read of its storage may *)
(* return any session, none, or fail. Whatever is awaited may be answered  *)
(* late, after a logout, another sign-in or a reload.                      *)
(*                                                                         *)
(* A counter of the code that is read before an await and compared after   *)
(* it is here the answer of the comparison, kept with what is awaited.     *)
(***************************************************************************)
EXTENDS Naturals

CONSTANTS
  Sessions,  \* provider sessions: user.id with session_id of the bearer
  Users,
  UserOf,    \* the user of each session
  None

VARIABLES
  intent,    \* localStorage: LOGOUT_INTENT_KEY is "1"
  notice,    \* a storage event that it became "1" is on its way to this tab
  tab,       \* the module state of auth-token.ts, the query cache, a request
  ended,     \* history: the user logged out and nobody signed in since
  older      \* history: what was awaited before the last sign-in and still is

vars == <<intent, notice, tab, ended, older>>

------------------------------------------------------------------------------
Identity == Sessions \cup {None}
Subject(s) == IF s = None THEN None ELSE UserOf[s]

(* generation: an awaited answer is `live` while snapshot.generation (and   *)
(* authAction, where the code compares it) is what it was at the start.     *)
Refresh == [user : Users, live : BOOLEAN]
Change  == [user : Users, live : BOOLEAN]
Capture == [session : Sessions, live : BOOLEAN]

ASSUME SessionAssumption ==
  /\ UserOf \in [Sessions -> Users]
  /\ None \notin Sessions \cup Users \cup Refresh \cup Change \cup Capture

(* stage queued: authSessionLink stamped it; reading: getSession is awaited *)
(* for a stale token, `read` while revision is unchanged; sent: the bearer  *)
(* left with it.                                                            *)
NoRequest == [stage |-> "none", for |-> None, live |-> FALSE, read |-> FALSE, bearer |-> None]
Request == [stage : {"none", "queued", "reading", "sent"}, for : Identity,
            live : BOOLEAN, read : BOOLEAN, bearer : Identity]

TabState == [
  out      : BOOLEAN,                       \* locallySignedOut
  shown    : Identity,                      \* snapshot.session, and its access token
  subject  : Users \cup {None},             \* providerSubject
  bridge   : {"reading", "overtaken", "ready"},
  signIn   : {"none", "asked", "moved"},    \* moved: the generation changed meanwhile
  waits    : BOOLEAN,                       \* a sign-in that found no logout awaits the bridge
  logout   : BOOLEAN,                       \* logoutPending
  refresh  : Refresh \cup {None},           \* forcedRefresh
  change   : Change \cup {None},            \* the pending change of passwordChanger
  recovery : {"idle", "ready", "submitting", "complete", "expired"},
  capture  : Capture \cup {None},           \* or, when complete, completedIdentity
  cached   : SUBSET Identity,               \* whose answers the query cache holds
  request  : Request]

SessionTypeOK ==
  /\ intent \in BOOLEAN /\ notice \in BOOLEAN /\ ended \in BOOLEAN
  /\ tab \in TabState
  /\ older \subseteq {"hydrate", "read", "refresh"}

Idle(r) == [r EXCEPT !.live = FALSE]
Overtaken(a) == IF a = None THEN None ELSE [a EXCEPT !.live = FALSE]

(* The module as it is loaded; recoveryCallback is the route /reset-password. *)
Loaded(callback, marked) ==
  [out |-> marked \/ callback, shown |-> None, subject |-> None, bridge |-> "reading",
   signIn |-> "none", waits |-> FALSE, logout |-> FALSE, refresh |-> None, change |-> None,
   recovery |-> "idle", capture |-> None, cached |-> {}, request |-> NoRequest]

Init ==
  /\ intent = FALSE /\ notice = FALSE /\ ended = FALSE /\ older = {}
  /\ tab = Loaded(FALSE, FALSE)

------------------------------------------------------------------------------
(* Fault: only the first read of the stored session is overtaken.           *)
RevisedBridge(m) == [m EXCEPT !.bridge = IF @ = "reading" THEN "overtaken" ELSE @]

(* revision += 1: a read that is under way may no longer publish.           *)
Revised(m) ==
  [m EXCEPT !.bridge = IF @ = "reading" THEN "overtaken" ELSE @,
            !.request.read = FALSE]

(* Fault: the identity listeners leave the query cache alone.               *)
NextGenerationKeepsCache(m) ==
  [m EXCEPT !.request = Idle(@), !.change = Overtaken(@),
            !.refresh = Overtaken(@), !.capture = Overtaken(@),
            !.signIn = IF @ = "asked" THEN "moved" ELSE @]

(* snapshot.generation += 1: the identity listeners clear the query cache   *)
(* and fail the requests of the old identity, the password changer cancels. *)
NextGeneration(m) ==
  [m EXCEPT !.cached = {}, !.request = Idle(@), !.change = Overtaken(@),
            !.refresh = Overtaken(@), !.capture = Overtaken(@),
            !.signIn = IF @ = "asked" THEN "moved" ELSE @]

(* publish: the identity is the user and the session id of the bearer.      *)
Publish(m, s, newBoundary) ==
  [(IF newBoundary \/ s # m.shown THEN NextGeneration(m) ELSE m) EXCEPT !.shown = s]

(* authAction += 1: an answer to an earlier sign-in is refused.             *)
NextAction(m) ==
  [m EXCEPT !.signIn = "none", !.refresh = Overtaken(@), !.change = Overtaken(@)]

(* discard() of the recovery controller: a submission under way is aborted  *)
(* and its epoch is over.                                                   *)
Discarded(m, status) == [m EXCEPT !.recovery = status, !.capture = None]

(* Fault: a recovery link or logout clears the session, not the flag that   *)
(* keeps provider events from bringing it back.                             *)
ClearedOnce(m, newBoundary) ==
  Publish([Revised(NextAction(Discarded(m, "idle"))) EXCEPT !.subject = None], None, newBoundary)

(* clearAccessToken; the callers write what it does to the intent.          *)
Cleared(m, newBoundary) ==
  Publish([Revised(NextAction(Discarded(m, "idle"))) EXCEPT !.out = TRUE, !.subject = None],
          None, newBoundary)

Active(m) == m.recovery # "idle"

(* onAuthStateChange, beside PASSWORD_RECOVERY.                             *)
Events == {"SIGNED_IN", "SIGNED_OUT", "INITIAL_SESSION", "TOKEN_REFRESHED"}

------------------------------------------------------------------------------
(* Provider events, in the order of the handler's early returns.            *)

(* PASSWORD_RECOVERY: whatever was shown is cleared; without a verified     *)
(* session the link has expired.                                            *)
RecoveryLink ==
  /\ \E s \in Identity :
       LET m == [Revised(Cleared(tab, TRUE)) EXCEPT !.subject = Subject(s)] IN
       \/ /\ s # None
          /\ tab' = [m EXCEPT !.recovery = "ready", !.capture = [session |-> s, live |-> TRUE]]
       \/ tab' = [m EXCEPT !.recovery = "expired"]
  /\ intent' = TRUE
  /\ UNCHANGED <<notice, ended>>

(* current() and identityMatches() of the recovery controller.              *)
Matches(m) == m.capture # None /\ m.capture.live /\ m.subject = UserOf[m.capture.session]

(* handleAuthEvent for the other events. good: the bearer of the event is   *)
(* the captured one (SIGNED_IN), or has not expired (TOKEN_REFRESHED).      *)
RecoveryHears(m, event, s, good) ==
  IF event \in {"SIGNED_IN", "SIGNED_OUT"}
    THEN IF /\ event = "SIGNED_IN" /\ Matches(m)
            /\ \/ s = m.capture.session /\ good
               \/ m.recovery = "complete" /\ UserOf[s] = UserOf[m.capture.session]
           THEN m
           ELSE IF Active(m) THEN Discarded(m, "idle") ELSE m
  ELSE IF m.capture = None \/ m.recovery = "complete" THEN m
  ELSE IF s = None \/ Subject(s) # UserOf[m.capture.session] \/ ~Matches(m)
    THEN Discarded(m, "idle")
  ELSE IF event # "TOKEN_REFRESHED" THEN m
  ELSE IF good THEN [m EXCEPT !.capture.session = s] ELSE Discarded(m, "expired")

(* TOKEN_REFRESHED of a forced refresh that was overtaken.                  *)
LateRefresh(m, event, s) ==
  /\ event = "TOKEN_REFRESHED" /\ s # None /\ m.refresh # None
  /\ m.refresh.user = UserOf[s] /\ ~m.refresh.live

Event(event, s, good) ==
  LET m == Revised(tab)
      heard == RecoveryHears([m EXCEPT !.subject = Subject(s)], event, s, good) IN
  /\ event = "SIGNED_OUT" => s = None
  /\ event \in {"SIGNED_IN", "TOKEN_REFRESHED"} => s # None
  /\ IF intent /\ ~m.out
       THEN tab' = Cleared(m, FALSE)
     ELSE IF LateRefresh(m, event, s)
       THEN tab' = m
     ELSE IF s = None \/ (~m.out /\ ~intent)
       THEN tab' = Publish(heard, s, FALSE)
     ELSE tab' = heard
  /\ UNCHANGED <<intent, notice, ended>>

(* The storage event of another tab's logout.                               *)
Notice ==
  /\ notice /\ notice' = FALSE
  /\ IF tab.out THEN UNCHANGED <<intent, tab>>
     ELSE tab' = Cleared(tab, FALSE) /\ intent' = TRUE
  /\ UNCHANGED ended

(* Other tabs: a logout or a recovery link marks the intent, and this tab   *)
(* hears of it when the value changed; a sign-in lifts it.                  *)
Elsewhere ==
  /\ \/ /\ intent' = TRUE /\ notice' = (notice \/ ~intent)
        /\ ended' \in {ended, TRUE}
     \/ intent' = FALSE /\ ended' = FALSE /\ UNCHANGED notice
  /\ UNCHANGED tab

(* The tab is loaded again, perhaps by a recovery link; then the bridge     *)
(* clears before it subscribes.                                             *)
Reload ==
  /\ \E callback \in BOOLEAN :
       /\ tab' = Loaded(callback, intent)
       /\ intent' = (intent \/ callback)
  /\ notice' = FALSE
  /\ UNCHANGED ended

(* The first read of the stored session is answered.                        *)
Hydrate ==
  /\ tab.bridge # "ready"
  /\ LET m == [tab EXCEPT !.bridge = "ready"] IN
       IF tab.bridge = "overtaken" \/ m.out \/ intent
         THEN tab' = m
         ELSE \E s \in Identity :
                tab' = Publish([m EXCEPT !.subject = Subject(s)], s, FALSE)
  /\ UNCHANGED <<intent, notice, ended>>

------------------------------------------------------------------------------
(* Explicit sign-in: waits for a logout of this tab, then for the bridge.   *)
(* A logout that begins during the second wait is not waited for.           *)
AwaitBridge ==
  /\ ~tab.logout /\ tab.bridge # "ready"
  /\ tab' = [tab EXCEPT !.waits = TRUE]
  /\ UNCHANGED <<intent, notice, ended>>

SignIn ==
  /\ tab.bridge = "ready" /\ (tab.logout => tab.waits)
  /\ tab' = [NextAction(Discarded(tab, "idle")) EXCEPT !.signIn = "asked", !.waits = FALSE]
  /\ UNCHANGED <<intent, notice, ended>>

(* Refused by the provider, or answered for another user than the one that  *)
(* was shown meanwhile.                                                     *)
SignInRefused ==
  /\ tab.signIn # "none"
  /\ tab' = [tab EXCEPT !.signIn = "none"]
  /\ UNCHANGED <<intent, notice, ended>>

SignedIn ==
  /\ tab.signIn # "none"
  /\ \E s \in Sessions :
       /\ IF tab.signIn = "moved" THEN Subject(tab.shown) = UserOf[s]
          ELSE s # tab.shown      \* the provider starts a new session
       /\ tab' = Publish([Revised(tab) EXCEPT !.signIn = "none", !.out = FALSE,
                                              !.subject = UserOf[s]], s, FALSE)
  /\ intent' = FALSE /\ ended' = FALSE
  /\ UNCHANGED notice

(* Logout clears at once; revoking and the cookie are awaited.              *)
SignOut ==
  /\ ~tab.logout
  /\ tab' = [Cleared(tab, FALSE) EXCEPT !.logout = TRUE]
  /\ intent' = TRUE /\ ended' = TRUE
  /\ UNCHANGED notice

SignOutAnswers ==
  /\ tab.logout
  /\ tab' = [tab EXCEPT !.logout = FALSE]
  /\ UNCHANGED <<intent, notice, ended>>

(* exitPasswordRecovery                                                     *)
ExitRecovery ==
  /\ tab' = Cleared(tab, FALSE)
  /\ intent' = TRUE
  /\ UNCHANGED <<notice, ended>>

------------------------------------------------------------------------------
(* refreshSupabaseSession: one attempt at a time, shared by its callers.    *)
ForceRefresh ==
  /\ ~tab.out /\ ~intent /\ tab.shown # None /\ tab.refresh = None
  /\ tab' = [tab EXCEPT !.refresh = [user |-> UserOf[tab.shown], live |-> TRUE]]
  /\ UNCHANGED <<intent, notice, ended>>

RefreshCurrent(m) ==
  /\ ~m.out /\ ~intent /\ m.refresh.live
  /\ Subject(m.shown) = m.refresh.user

(* A failure, or a session of another user, publishes what is shown again.  *)
RefreshAnswers ==
  /\ tab.refresh # None
  /\ LET m == [tab EXCEPT !.refresh = None] IN
     \/ tab' = m
     \/ \E s \in Sessions :
          /\ RefreshCurrent(tab) /\ UserOf[s] = tab.refresh.user
          /\ tab' = Publish(Revised(m), s, FALSE)
  /\ UNCHANGED <<intent, notice, ended>>

------------------------------------------------------------------------------
(* A tRPC operation: stamped at dispatch, its headers are built later.      *)
Dispatch ==
  /\ tab.request.stage = "none"
  /\ tab' = [tab EXCEPT !.request =
       [stage |-> "queued", for |-> tab.shown, live |-> TRUE, read |-> FALSE, bearer |-> None]]
  /\ UNCHANGED <<intent, notice, ended>>

(* Fault: the generation is not compared again after the token was read.    *)
SendingAnyway(m, bearer) ==
  [m EXCEPT !.request = [@ EXCEPT !.stage = "sent", !.bearer = bearer, !.read = FALSE]]

(* The second assertCurrent: the request leaves, or fails with              *)
(* "Session changed".                                                       *)
Sending(m, bearer) ==
  IF m.request.live
    THEN [m EXCEPT !.request = [@ EXCEPT !.stage = "sent", !.bearer = bearer, !.read = FALSE]]
    ELSE [m EXCEPT !.request = NoRequest]

(* Fault: a logout in another tab is noticed only by its storage event.     *)
BearerHere(m) == IF m.out THEN None ELSE m.shown

(* getAccessToken                                                           *)
Bearer(m) == IF m.out \/ intent THEN None ELSE m.shown

(* buildSessionAuthHeaders up to its first wait.                            *)
BuildHeaders ==
  LET m == tab IN
  /\ m.request.stage = "queued" /\ (m.bridge = "ready" \/ intent \/ m.out)
  /\ \/ /\ ~m.request.live
        /\ tab' = [tab EXCEPT !.request = NoRequest]
     \/ /\ m.request.live /\ intent /\ ~m.out
        /\ \/ tab' = Sending(Cleared(m, FALSE), None)
           \/ /\ m.bridge = "ready"  \* marked while the bridge was awaited
              /\ tab' = Sending(m, None)
     \/ /\ m.request.live /\ m.out
        /\ tab' = Sending(m, None)
     \/ /\ m.request.live /\ ~m.out /\ ~intent
        /\ \/ m.shown # None /\ tab' = Sending(m, m.shown)
           \/ tab' = [tab EXCEPT !.request = [@ EXCEPT !.stage = "reading", !.read = TRUE]]
  /\ UNCHANGED <<intent, notice, ended>>

(* getFreshAccessToken after the read of a stale token.                     *)
TokenRead ==
  LET m == tab IN
  /\ m.request.stage = "reading"
  /\ \E s \in Identity :
       LET n == IF m.request.read /\ ~m.out /\ ~intent THEN Publish(m, s, FALSE) ELSE m IN
       tab' = Sending(n, Bearer(n))
  /\ UNCHANGED <<intent, notice, ended>>

(* sameIdentity: the answer of an old generation is dropped. What the cache *)
(* keeps is an answer the server gave to the bearer.                        *)
Answered ==
  LET m == tab IN
  /\ m.request.stage = "sent"
  /\ \E kept \in {{}, {m.request.bearer}} :
       /\ kept # {} => m.request.live
       /\ tab' = [tab EXCEPT !.request = NoRequest, !.cached = @ \cup kept]
  /\ UNCHANGED <<intent, notice, ended>>

------------------------------------------------------------------------------
(* getContext of the password changer.                                      *)
MayChange(m) == ~m.out /\ ~intent /\ ~Active(m) /\ m.shown # None

ChangePassword ==
  /\ MayChange(tab) /\ (tab.change # None => ~tab.change.live)
  /\ tab' = [tab EXCEPT !.change = [user |-> UserOf[tab.shown], live |-> TRUE]]
  /\ UNCHANGED <<intent, notice, ended>>

(* Whatever the provider answers, nothing but the message is changed.       *)
ChangeAnswers ==
  /\ tab.change # None
  /\ tab' = [tab EXCEPT !.change = None]
  /\ UNCHANGED <<intent, notice, ended>>

(* submitPassword of the recovery controller, with the captured credential. *)
SubmitRecovery ==
  /\ tab.recovery = "ready" /\ tab.capture # None
  /\ IF Matches(tab)
       THEN \/ tab' = [tab EXCEPT !.recovery = "submitting"]
            \/ tab' = Discarded(tab, "expired")
       ELSE tab' = Discarded(tab, "idle")
  /\ UNCHANGED <<intent, notice, ended>>

SubmitAnswers ==
  /\ tab.recovery = "submitting"
  /\ IF Matches(tab)
       THEN \/ \E status \in {"complete", "ready"} : tab' = [tab EXCEPT !.recovery = status]
            \/ tab' = Discarded(tab, "expired")
       ELSE tab' = Discarded(tab, "idle")
  /\ UNCHANGED <<intent, notice, ended>>

------------------------------------------------------------------------------
(* What is awaited and would publish a session when it is answered.         *)
Awaited(m) ==
  {w \in {"hydrate", "read", "refresh"} :
     \/ w = "hydrate" /\ m.bridge # "ready"
     \/ w = "read" /\ m.request.stage = "reading"
     \/ w = "refresh" /\ m.refresh # None}

Other ==
  \/ RecoveryLink \/ Notice \/ Elsewhere \/ Hydrate
  \/ \E event \in Events, s \in Identity, good \in BOOLEAN : Event(event, s, good)
  \/ AwaitBridge \/ SignIn \/ SignOut \/ SignOutAnswers \/ ExitRecovery
  \/ ForceRefresh \/ RefreshAnswers
  \/ Dispatch \/ BuildHeaders \/ TokenRead \/ Answered
  \/ ChangePassword \/ ChangeAnswers \/ SubmitRecovery \/ SubmitAnswers

Next ==
  \/ SignInRefused /\ older' = older
  \/ SignedIn /\ older' = Awaited(tab)
  \/ Reload /\ older' = {}
  \/ Other /\ older' = older \cap Awaited(tab')

Spec == Init /\ [][Next]_vars

------------------------------------------------------------------------------
(* A request that left with a bearer left with that of the operator it was  *)
(* dispatched for, however long the batch and the token read took and       *)
(* whoever signed in meanwhile; and a change of password, or a refresh, that *)
(* may still be reported is of the operator that is shown.                  *)
BearerOfItsOperator ==
  /\ tab.request.stage = "sent" => tab.request.bearer \in {tab.request.for, None}
  /\ \A w \in {tab.change, tab.refresh} :
       w # None => (w.live => Subject(tab.shown) = w.user)

(* The query cache holds answers to the operator that is shown, or          *)
(* anonymous ones given within the same generation, never those of an       *)
(* operator who was shown before.                                           *)
CacheIsOwn == tab.cached \subseteq {tab.shown, None}

(* While a tab recovers a password, and after a recovery link or a logout   *)
(* until somebody signs in, it shows no session, whatever the provider      *)
(* reports; and what a link captured is kept only that long.                *)
RecoveryIsolated ==
  /\ tab.out \/ Active(tab) => tab.shown = None
  /\ tab.capture # None => Active(tab) /\ tab.out

(* After a logout in any tab no request leaves with a bearer until somebody *)
(* signs in, whatever the provider reports and whichever reads and          *)
(* refreshes were under way.                                                *)
NoBearerAfterLogout ==
  [][/\ ended
     /\ tab.request.stage # "sent" /\ tab'.request.stage = "sent"
     => tab'.request.bearer = None]_vars

(* Reads of the stored session and refreshes that were under way when an    *)
(* operator signed in bring no other operator back when they end.           *)
NewerSignInStands ==
  [][older \ older' # {} => Subject(tab'.shown) \in {Subject(tab.shown), None}]_vars

==============================================================================
