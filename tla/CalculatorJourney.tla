--------------------------- MODULE CalculatorJourney ---------------------------
(***************************************************************************)
(* Saving a calculated draft from the browser: the controllers of the      *)
(* Calculator page that share the session storage of one tab, the hint     *)
(* they keep there so that a save survives a reload, and the executor that *)
(* commits at most one draft per request id.                               *)
(*                                                                         *)
(* A call leaves the page, may reach the executor late or never, and its   *)
(* answer may be late or lost; meanwhile the user edits, reloads, opens    *)
(* another project or signs in again, and the prices change.               *)
(***************************************************************************)
EXTENDS Naturals

CONSTANTS
  Views,        \* controllers that can be mounted at the same time
  Pairs,        \* <<projectId, intakeFormId>> of the page's URL
  Requests,     \* crypto.randomUUID()
  Selections,   \* non-empty lists of assemblies with their quantities
  Sources,      \* what the executor would calculate from (the source hash)
  MaxSession,   \* bound: logins in this tab
  None

VARIABLES
  pair,       \* the pair in the URL
  session,    \* session_id of the signed-in session
  hint,       \* the stored intent
  expired,    \* 24 hours passed since it was written
  view,       \* the state of each controller
  calls,      \* calls whose answer is heard: the attempt is the current epoch
  arriving,   \* creates that may still reach the executor
  source,     \* the sources now in force
  created,    \* calculator_requests: the create commands that committed
  refused,    \* requests answered CONFIRMATION_STALE
  submitted,  \* requests whose create was ever sent
  released    \* requests whose hint the user gave up: other pair, login, 24 hours

vars == <<pair, session, hint, expired, view, calls, arriving, source, created,
          refused, submitted, released>>

------------------------------------------------------------------------------
(* The hashes a confirmation binds stand for what they are computed from.   *)
Result  == [selections : Selections, source : Sources]
Create  == [request : Requests, pair : Pairs, selections : Selections, expected : Result]
Intent  == [session : 1..MaxSession, command : Create]
Receipt == [status : {"confirmed", "not_found"}, request : Requests]

ASSUME JourneyAssumption ==
  /\ MaxSession \in Nat \ {0}
  /\ None \notin Pairs \cup Requests \cup Selections \cup Sources \cup Result \cup Create \cup Intent

Answer  == [kind : {"failed", "stale", "context"}, value : {None}]
      \cup [kind : {"result"}, value : Result] \cup [kind : {"receipt"}, value : Receipt]
Plain(kind) == [kind |-> kind, value |-> None]
Failure == Plain("failed")
Stale   == Plain("stale")

ViewState == [mounted : BOOLEAN, context : BOOLEAN, busy : BOOLEAN, confirmed : BOOLEAN,
              selections : Selections \cup {None}, result : Result \cup {None},
              intent : Create \cup {None}, receipt : Receipt \cup {None}]
Call == [view : Views, op : {"context"}, body : {None}, answer : Answer \cup {None}]
   \cup [view : Views, op : {"calculate"}, body : Selections, answer : Answer \cup {None}]
   \cup [view : Views, op : {"create"}, body : Create, answer : Answer \cup {None}]
   \cup [view : Views, op : {"recover"}, body : Requests, answer : Answer \cup {None}]

TypeOK ==
  /\ pair \in Pairs /\ session \in 1..MaxSession /\ source \in Sources
  /\ hint \in Intent \cup {None} /\ expired \in BOOLEAN
  /\ view \in [Views -> ViewState]
  /\ calls \subseteq Call
  /\ arriving \subseteq Create /\ created \subseteq Create
  /\ refused \subseteq Requests /\ submitted \subseteq Requests /\ released \subseteq Requests

Unmounted == [mounted |-> FALSE, context |-> FALSE, busy |-> FALSE, confirmed |-> FALSE,
              selections |-> None, result |-> None, intent |-> None, receipt |-> None]

(* readCalculatorIntent; a hint it does not accept is removed.              *)
Accepted == hint # None /\ ~expired /\ hint.session = session /\ hint.command.pair = pair
Named(h) == IF h = None THEN {} ELSE {h.command.request}

(* Fault: the answer of an abandoned attempt is heard.                      *)
Unsuperseded(v) == calls

(* ++epoch: nobody hears what the controller awaited; what it sent remains. *)
Superseded(v) == {k \in calls : k.view # v}

Awaiting(v, op, body) == [view |-> v, op |-> op, body |-> body, answer |-> None]

server == <<source, created, refused>>
ledgers == <<submitted, released>>

------------------------------------------------------------------------------
(* The page.                                                               *)

Restored == hint.command

(* createCalculatorJourney and the load it starts with.                     *)
Mount(v) ==
  /\ ~view[v].mounted
  /\ view' = [view EXCEPT ![v] =
       [Unmounted EXCEPT !.mounted = TRUE, !.busy = TRUE,
          !.intent     = IF Accepted THEN Restored ELSE None,
          !.selections = IF Accepted THEN hint.command.selections ELSE None]]
  /\ calls' = calls \cup {Awaiting(v, "context", None)}
  /\ hint' = IF Accepted THEN hint ELSE None
  /\ released' = IF Accepted THEN released ELSE released \cup Named(hint)
  /\ UNCHANGED <<pair, session, expired, arriving, server, submitted>>

(* A reload, or leaving the page: invalidate(false).                        *)
Unmount(v) ==
  /\ view[v].mounted
  /\ view' = [view EXCEPT ![v] = Unmounted]
  /\ calls' = Superseded(v)
  /\ UNCHANGED <<pair, session, hint, expired, arriving, server, ledgers>>

(* The component is keyed by the pair: its controllers go with it.          *)
Navigate(p) ==
  /\ p # pair
  /\ pair' = p
  /\ view' = [v \in Views |-> Unmounted]
  /\ calls' = {}
  /\ UNCHANGED <<session, hint, expired, arriving, server, ledgers>>

(* publish of another session: reconcileCalculatorIntentSession, then       *)
(* invalidate(true) of every controller.                                    *)
SignIn ==
  /\ session < MaxSession
  /\ session' = session + 1
  /\ hint' = None
  /\ released' = released \cup Named(hint)
  /\ view' = [v \in Views |-> Unmounted]
  /\ calls' = {}
  /\ UNCHANGED <<pair, expired, arriving, server, submitted>>

(* Calls end within 30 seconds, a hint within 24 hours.                     *)
Expire ==
  /\ hint # None /\ ~expired
  /\ calls = {} /\ arriving = {}
  /\ expired' = TRUE
  /\ released' = released \cup Named(hint)
  /\ UNCHANGED <<pair, session, hint, view, calls, arriving, server, submitted>>

Load(v) ==
  /\ view[v].mounted /\ ~view[v].busy
  /\ view' = [view EXCEPT ![v].busy = TRUE, ![v].context = FALSE]
  /\ calls' = Superseded(v) \cup {Awaiting(v, "context", None)}
  /\ UNCHANGED <<pair, session, hint, expired, arriving, server, ledgers>>

Select(v, s) ==
  /\ view[v].mounted /\ view[v].context
  /\ view[v].intent = None /\ view[v].receipt = None
  /\ view' = [view EXCEPT ![v].selections = s, ![v].result = None,
                          ![v].confirmed = FALSE, ![v].busy = FALSE]
  /\ calls' = Superseded(v)
  /\ UNCHANGED <<pair, session, hint, expired, arriving, server, ledgers>>

Calculate(v) ==
  /\ view[v].mounted /\ ~view[v].busy /\ view[v].context
  /\ view[v].intent = None /\ view[v].receipt = None
  /\ view[v].selections # None
  /\ view' = [view EXCEPT ![v].busy = TRUE, ![v].result = None, ![v].confirmed = FALSE]
  /\ calls' = Superseded(v) \cup {Awaiting(v, "calculate", view[v].selections)}
  /\ UNCHANGED <<pair, session, hint, expired, arriving, server, ledgers>>

Confirm(v, confirmed) ==
  /\ view[v].mounted /\ ~view[v].busy
  /\ view[v].result # None /\ view[v].intent = None
  /\ view' = [view EXCEPT ![v].confirmed = confirmed]
  /\ UNCHANGED <<pair, session, hint, expired, calls, arriving, server, ledgers>>

------------------------------------------------------------------------------
(* save.                                                                   *)

CanSave(v) ==
  /\ view[v].mounted /\ ~view[v].busy
  /\ view[v].intent = None /\ view[v].receipt = None
  /\ view[v].result # None /\ view[v].confirmed

(* Another controller of this tab already saved: its request is adopted.    *)
AdoptSaved(v) ==
  /\ CanSave(v) /\ Accepted
  /\ view' = [view EXCEPT ![v].intent = hint.command,
                          ![v].selections = hint.command.selections,
                          ![v].result = None, ![v].confirmed = FALSE]
  /\ UNCHANGED <<pair, session, hint, expired, calls, arriving, server, ledgers>>

Free == ~Accepted

(* Storage refuses the write: nothing is sent.                              *)
SaveUnstored(v) ==
  /\ CanSave(v) /\ Free
  /\ hint' = None
  /\ UNCHANGED <<pair, session, expired, view, calls, arriving, server, ledgers>>

Save(v, q) ==
  LET command == [request |-> q, pair |-> pair, selections |-> view[v].selections,
                  expected |-> view[v].result]
  IN /\ CanSave(v) /\ Free
     /\ q \notin submitted
     /\ hint' = [session |-> session, command |-> command] /\ expired' = FALSE
     /\ view' = [view EXCEPT ![v].intent = command, ![v].busy = TRUE]
     /\ calls' = Superseded(v) \cup {Awaiting(v, "create", command)}
     /\ arriving' = arriving \cup {command}
     /\ submitted' = submitted \cup {q}
     /\ UNCHANGED <<pair, session, server, released>>

(* Fault: a request the user noted goes before the controller's own.        *)
NotedFirst(v) == Requests

(* The controller's own request or, without one, any the user noted.        *)
Recoverable(v) == IF view[v].intent = None THEN Requests ELSE {view[v].intent.request}

Recover(v, q) ==
  /\ view[v].mounted /\ ~view[v].busy
  /\ q \in Recoverable(v)
  /\ view' = [view EXCEPT ![v].busy = TRUE, ![v].receipt = None,
                ![v].result     = IF view[v].intent = None THEN None ELSE @,
                ![v].confirmed  = IF view[v].intent = None THEN FALSE ELSE @,
                ![v].selections = IF view[v].intent = None THEN None ELSE @]
  /\ calls' = Superseded(v) \cup {Awaiting(v, "recover", q)}
  /\ UNCHANGED <<pair, session, hint, expired, arriving, server, ledgers>>

------------------------------------------------------------------------------
(* The executor: one serializable transaction per command.                 *)

ChangeSources(s) ==
  /\ s # source
  /\ source' = s
  /\ UNCHANGED <<pair, session, hint, expired, view, calls, arriving, created,
                 refused, ledgers>>

Answered(c, answer) ==
  {IF k.op = "create" /\ k.body = c /\ k.answer = None
     THEN [k EXCEPT !.answer = answer] ELSE k : k \in calls}

(* Fault: a create is sent to the executor again after its answer.          *)
Resent(c) == arriving

Arrived(c) == arriving \ {c}

Recorded(q) == {c \in created : c.request = q}
Found(q, status) == [kind |-> "receipt", value |-> [status |-> status, request |-> q]]
Calculated(s) == [selections |-> s, source |-> source]

(* calculator_create_v1: a known request is recovered, whatever the sources *)
(* are now; a new one must name the calculation of the current ones.        *)
CreateAnswer(c) ==
  IF Recorded(c.request) # {}
    THEN IF Recorded(c.request) = {c} THEN Found(c.request, "confirmed") ELSE Failure
    ELSE IF c.expected = Calculated(c.selections) THEN Found(c.request, "confirmed") ELSE Stale

RunCreate(c) ==
  LET answer == CreateAnswer(c) IN
  /\ c \in arriving
  /\ arriving' = Arrived(c)
  /\ calls' = Answered(c, answer)
  /\ created' = IF answer.kind = "receipt" THEN created \cup {c} ELSE created
  /\ refused' = IF answer = Stale THEN refused \cup {c.request} ELSE refused
  /\ UNCHANGED <<pair, session, hint, expired, view, source, ledgers>>

(* Lost on the way, no capacity, no authority, rolled back.                 *)
LoseCreate(c) ==
  /\ c \in arriving
  /\ arriving' = arriving \ {c}
  /\ calls' = Answered(c, Failure)
  /\ UNCHANGED <<pair, session, hint, expired, view, server, ledgers>>

ReadAnswer(k) ==
  CASE k.op = "context"   -> Plain("context")
    [] k.op = "calculate" -> [kind |-> "result", value |-> Calculated(k.body)]
    [] k.op = "recover"   ->
         IF Recorded(k.body) = {} THEN Found(k.body, "not_found")
         ELSE IF \A c \in Recorded(k.body) : c.pair = pair THEN Found(k.body, "confirmed")
              ELSE Failure

RunRead(k) ==
  /\ k \in calls /\ k.op # "create" /\ k.answer = None
  /\ calls' = (calls \ {k}) \cup {[k EXCEPT !.answer = ReadAnswer(k)]}
  /\ UNCHANGED <<pair, session, hint, expired, view, arriving, server, ledgers>>

(* A timeout or a lost answer; what was sent may still take effect.         *)
Fail(k) ==
  /\ k \in calls /\ k.answer # Failure
  /\ calls' = (calls \ {k}) \cup {[k EXCEPT !.answer = Failure]}
  /\ UNCHANGED <<pair, session, hint, expired, view, arriving, server, ledgers>>

------------------------------------------------------------------------------
(* The answers.                                                            *)

(* receipt(): the hashes of a creation are those the intent bound.          *)
Acceptable(row, r) ==
  r.status = "confirmed" /\ row.intent # None
    => \A c \in Recorded(r.request) : c.expected = row.intent.expected

Taken(row, answer) ==
  CASE answer.kind = "failed"  -> row
    [] answer.kind = "stale"   -> [row EXCEPT !.intent = None, !.result = None, !.confirmed = FALSE]
    [] answer.kind = "context" -> [row EXCEPT !.context = TRUE]
    [] answer.kind = "result"  -> [row EXCEPT !.result = answer.value]
    [] answer.kind = "receipt" ->
         IF Acceptable(row, answer.value) THEN [row EXCEPT !.receipt = answer.value] ELSE row

(* Fault: only a success ends the wait.                                     *)
SettledOnSuccess(row, k) == [row EXCEPT !.busy = k.answer = Failure]

Settled(row, k) == [row EXCEPT !.busy = FALSE]

(* Fault: a save that failed is forgotten.                                  *)
ForgetsFailure(k) == k.op = "create" /\ k.answer \in {Stale, Failure}

Forgets(k) == k.answer = Stale

(* Only the current attempt of a mounted controller is heard.               *)
Deliver(k) ==
  /\ k \in calls /\ k.answer # None
  /\ calls' = calls \ {k}
  /\ view' = [view EXCEPT ![k.view] = Settled(Taken(@, k.answer), k)]
  /\ hint' = IF Forgets(k) THEN None ELSE hint
  /\ UNCHANGED <<pair, session, expired, arriving, server, ledgers>>

------------------------------------------------------------------------------
Init ==
  /\ pair \in Pairs /\ source \in Sources
  /\ session = 1
  /\ hint = None /\ expired = FALSE
  /\ view = [v \in Views |-> Unmounted]
  /\ calls = {} /\ arriving = {} /\ created = {}
  /\ refused = {} /\ submitted = {} /\ released = {}

Next ==
  \/ \E v \in Views : Mount(v)
  \/ \E v \in Views : Unmount(v)
  \/ \E p \in Pairs : Navigate(p)
  \/ SignIn
  \/ Expire
  \/ \E v \in Views : Load(v)
  \/ \E v \in Views, s \in Selections \cup {None} : Select(v, s)
  \/ \E v \in Views : Calculate(v)
  \/ \E v \in Views, b \in BOOLEAN : Confirm(v, b)
  \/ \E v \in Views : AdoptSaved(v)
  \/ \E v \in Views : SaveUnstored(v)
  \/ \E v \in Views, q \in Requests : Save(v, q)
  \/ \E v \in Views, q \in Requests : Recover(v, q)
  \/ \E s \in Sources : ChangeSources(s)
  \/ \E c \in arriving : RunCreate(c)
  \/ \E c \in arriving : LoseCreate(c)
  \/ \E k \in calls : RunRead(k)
  \/ \E k \in calls : Fail(k)
  \/ \E k \in calls : Deliver(k)

Spec == Init /\ [][Next]_vars

(* Every call of the page ends: the web tier gives the executor 30 seconds  *)
(* (AbortSignal.timeout) and then answers.                                  *)
Settle(v) == \E k \in calls : k.view = v /\ (Fail(k) \/ Deliver(k))
FairSpec == Spec /\ \A v \in Views : WF_vars(Settle(v))

------------------------------------------------------------------------------
(* Properties.                                                             *)

(* "Persist before the first network write": a create that was ever sent,   *)
(* and was neither refused as stale nor given up by the user, is named by   *)
(* the hint this tab keeps.  One hint names one request, so a double click, *)
(* a lost answer, a reload or a second controller cannot submit another.    *)
OpenRequestHeld ==
  \A q \in submitted \ (released \cup refused) : q \in Named(hint)

(* A receipt on the screen is the truth: the executor holds a draft of that *)
(* request for this pair, and when the controller has an intent it is the   *)
(* draft of exactly that intent, whatever was edited while waiting.         *)
ReceiptsTrue ==
  \A v \in Views :
    LET r == view[v].receipt IN
    r # None /\ r.status = "confirmed" =>
      \E c \in created :
        /\ c.request = r.request /\ c.pair = pair
        /\ view[v].intent # None => c = view[v].intent

(* A request the executor refused as stale never becomes a draft, so the    *)
(* page may forget it and let the user save again.                          *)
RefusalFinal == \A c \in created : c.request \notin refused

(* What the user confirms is the calculation of what is selected, although  *)
(* the selection may change while a calculation is running.                 *)
ConfirmationBindsSelection ==
  \A v \in Views :
    /\ view[v].result # None => view[v].result.selections = view[v].selections
    /\ view[v].confirmed => view[v].result # None

(* No order of answers, failures and edits leaves a controller waiting: it  *)
(* becomes usable again.                                                    *)
BusyEnds == \A v \in Views : view[v].busy ~> ~view[v].busy
==============================================================================
