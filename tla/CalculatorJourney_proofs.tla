----------------------- MODULE CalculatorJourney_proofs -----------------------
(***************************************************************************)
(* Saving from the browser, for any controllers, pairs, requests and prices*)
(* and any number of logins: a request the executor refused is never       *)
(* committed, and what is confirmed was calculated for what is selected.   *)
(***************************************************************************)
EXTENDS CalculatorJourney, TLAPS

RequestsOf(C) == {c.request : c \in C}

(* A controller that changes one field within its type keeps the type.      *)
LEMMA RowUpdates ==
  ASSUME NEW row \in ViewState
  PROVE  /\ \A b \in BOOLEAN : [row EXCEPT !.context = b] \in ViewState
         /\ \A b \in BOOLEAN : [row EXCEPT !.busy = b] \in ViewState
         /\ \A b \in BOOLEAN : [row EXCEPT !.confirmed = b] \in ViewState
         /\ \A s \in Selections \cup {None} : [row EXCEPT !.selections = s] \in ViewState
         /\ \A x \in Result \cup {None} : [row EXCEPT !.result = x] \in ViewState
         /\ \A c \in Create \cup {None} : [row EXCEPT !.intent = c] \in ViewState
         /\ \A x \in Receipt \cup {None} : [row EXCEPT !.receipt = x] \in ViewState
<1>1. /\ \A b \in BOOLEAN : [row EXCEPT !.context = b] \in ViewState
      /\ \A b \in BOOLEAN : [row EXCEPT !.busy = b] \in ViewState
      /\ \A b \in BOOLEAN : [row EXCEPT !.confirmed = b] \in ViewState
  BY DEF ViewState
<1>2. /\ \A s \in Selections \cup {None} : [row EXCEPT !.selections = s] \in ViewState
      /\ \A x \in Result \cup {None} : [row EXCEPT !.result = x] \in ViewState
  BY DEF ViewState
<1>3. /\ \A c \in Create \cup {None} : [row EXCEPT !.intent = c] \in ViewState
      /\ \A x \in Receipt \cup {None} : [row EXCEPT !.receipt = x] \in ViewState
  BY DEF ViewState
<1> QED
  BY <1>1, <1>2, <1>3

(* The controller that recover leaves behind while it waits.                *)
LEMMA RecoveredType ==
  ASSUME NEW row \in ViewState
  PROVE  [row EXCEPT !.busy = TRUE, !.receipt = None,
                !.result     = IF row.intent = None THEN None ELSE @,
                !.confirmed  = IF row.intent = None THEN FALSE ELSE @,
                !.selections = IF row.intent = None THEN None ELSE @] \in ViewState
<1> DEFINE result     == IF row.intent = None THEN None ELSE row.result
           confirmed  == IF row.intent = None THEN FALSE ELSE row.confirmed
           selections == IF row.intent = None THEN None ELSE row.selections
           fresh      == [row EXCEPT !.busy = TRUE, !.receipt = None]
           changed    == [fresh EXCEPT !.result = result, !.confirmed = confirmed,
                                       !.selections = selections]
<1>1. /\ result \in Result \cup {None} /\ confirmed \in BOOLEAN
      /\ selections \in Selections \cup {None}
  BY DEF ViewState
<1>2. [row EXCEPT !.busy = TRUE] \in ViewState
  BY RowUpdates
<1>3. fresh \in ViewState
  BY <1>2, RowUpdates
<1>4. changed \in ViewState
  <2> HIDE DEF fresh, result, confirmed, selections
  <2>1. [fresh EXCEPT !.result = result] \in ViewState
    BY <1>1, <1>3, RowUpdates
  <2>2. [fresh EXCEPT !.result = result, !.confirmed = confirmed] \in ViewState
    BY <1>1, <2>1, RowUpdates
  <2> QED
    BY <1>1, <2>2, RowUpdates
<1> QED
  BY <1>4

------------------------------------------------------------------------------
(* The executor's side: every request is submitted once, and is then on its *)
(* way, committed, refused or lost.                                         *)
Fates ==
  /\ RequestsOf(arriving) \subseteq submitted
  /\ RequestsOf(created) \subseteq submitted
  /\ refused \subseteq submitted
  /\ \A c, e \in arriving : c.request = e.request => c = e
  /\ \A c \in arriving : c.request \notin RequestsOf(created) \cup refused
  /\ \A c \in created : c.request \notin refused

(* At the start nothing was submitted.                                      *)
LEMMA FatesInit == Init => Fates
BY DEF Init, Fates, RequestsOf

(* Each action of the page, the network and the executor keeps the fates.   *)
LEMMA FatesStep == Fates /\ [Next]_vars => Fates'
<1> SUFFICES ASSUME Fates, [Next]_vars PROVE Fates'
  OBVIOUS
<1>1. ASSUME UNCHANGED <<arriving, created, refused, submitted>> PROVE Fates'
  BY <1>1 DEF Fates, RequestsOf
<1>2. ASSUME NEW v \in Views, NEW q \in Requests, Save(v, q) PROVE Fates'
  <2>1. PICK c : /\ c.request = q /\ arriving' = arriving \cup {c}
                 /\ q \notin submitted /\ submitted' = submitted \cup {q}
                 /\ UNCHANGED <<created, refused>>
    BY <1>2 DEF Save, server
  <2> QED
    BY <2>1 DEF Fates, RequestsOf
<1>3. ASSUME NEW c \in arriving, RunCreate(c) PROVE Fates'
  <2>1. /\ arriving' = arriving \ {c} /\ submitted' = submitted
        /\ created' = created \/ (created' = created \cup {c} /\ refused' = refused)
        /\ refused' = refused \/ (refused' = refused \cup {c.request} /\ created' = created)
    BY <1>3 DEF RunCreate, Arrived, ledgers, Stale, Plain
  <2> QED
    BY <2>1 DEF Fates, RequestsOf
<1>4. ASSUME NEW c \in arriving, LoseCreate(c) PROVE Fates'
  BY <1>4 DEF LoseCreate, ledgers, server, Fates, RequestsOf
<1>5. CASE UNCHANGED vars
  BY <1>1, <1>5 DEF vars
<1> QED
  BY <1>1, <1>2, <1>3, <1>4, <1>5, Zenon
     DEF Next, Mount, Unmount, Navigate, SignIn, Expire, Load, Select, Calculate, Confirm,
         AdoptSaved, SaveUnstored, Recover, ChangeSources, RunRead, Fail, Deliver,
         ledgers, server

(* A request answered CONFIRMATION_STALE never becomes a draft.             *)
THEOREM Refusals == Spec => []RefusalFinal
<1>1. Fates => RefusalFinal
  BY DEF Fates, RefusalFinal
<1> QED
  BY <1>1, FatesInit, FatesStep, PTL DEF Spec

------------------------------------------------------------------------------
(* Types, and what a controller awaits: one call at a time, and a           *)
(* calculation of what is selected.                                         *)
Bound ==
  /\ \A k \in calls : view[k.view].mounted /\ view[k.view].busy
  /\ \A k, m \in calls : k.view = m.view => k = m
  /\ \A k \in calls : k.op = "calculate" => view[k.view].selections = k.body
  /\ \A k \in calls : k.answer # None /\ k.answer.kind = "result"
       => k.op = "calculate" /\ k.answer.value.selections = k.body
  /\ ConfirmationBindsSelection

(* The calls a controller may await are well typed.                         *)
LEMMA AwaitingType ==
  ASSUME NEW v \in Views
  PROVE  /\ Awaiting(v, "context", None) \in Call
         /\ \A s \in Selections : Awaiting(v, "calculate", s) \in Call
         /\ \A c \in Create : Awaiting(v, "create", c) \in Call
         /\ \A q \in Requests : Awaiting(v, "recover", q) \in Call
BY DEF Awaiting, Call

(* An answered call is the same call.                                       *)
LEMMA AnsweredType ==
  ASSUME NEW k \in Call, NEW answer \in Answer
  PROVE  /\ [k EXCEPT !.answer = answer] \in Call
         /\ [k EXCEPT !.answer = answer].view = k.view
         /\ [k EXCEPT !.answer = answer].op = k.op
         /\ [k EXCEPT !.answer = answer].body = k.body
         /\ [k EXCEPT !.answer = answer].answer = answer
BY DEF Call

(* The answers of the executor and of a broken connection.                  *)
LEMMA AnswerTypes ==
  ASSUME TypeOK
  PROVE  /\ Failure \in Answer /\ Stale \in Answer
         /\ \A c \in Create : CreateAnswer(c) \in Answer /\ CreateAnswer(c).kind # "result"
         /\ \A k \in Call : k.op # "create" => ReadAnswer(k) \in Answer
<1>1. Failure \in Answer /\ Stale \in Answer /\ Plain("context") \in Answer
  BY DEF Failure, Stale, Plain, Answer
<1>2. \A q \in Requests : /\ Found(q, "confirmed") \in Answer /\ Found(q, "not_found") \in Answer
                          /\ Found(q, "confirmed").kind = "receipt"
  BY DEF Found, Answer, Receipt
<1>3. \A c \in Create : c.request \in Requests
  BY DEF Create
<1>4. Failure.kind # "result" /\ Stale.kind # "result"
  BY DEF Failure, Stale, Plain
<1>5. \A s \in Selections : [kind |-> "result", value |-> Calculated(s)] \in Answer
  BY DEF Calculated, Answer, Result, TypeOK
<1>6. \A k \in Call : /\ k.op \in {"context", "calculate", "create", "recover"}
                      /\ k.op = "calculate" => k.body \in Selections
                      /\ k.op = "recover" => k.body \in Requests
  BY DEF Call
<1>7. \A k \in Call : k.op # "create" => ReadAnswer(k) \in Answer
  <2> SUFFICES ASSUME NEW k \in Call, k.op # "create" PROVE ReadAnswer(k) \in Answer
    OBVIOUS
  <2>1. CASE k.op = "context"
    BY <1>1, <2>1 DEF ReadAnswer
  <2>2. CASE k.op = "calculate"
    BY <1>5, <1>6, <2>2 DEF ReadAnswer
  <2>3. CASE k.op = "recover"
    BY <1>1, <1>2, <1>6, <2>3 DEF ReadAnswer
  <2> QED
    BY <1>6, <2>1, <2>2, <2>3
<1> QED
  BY <1>1, <1>2, <1>3, <1>4, <1>7 DEF CreateAnswer

(* At the start no controller is mounted.                                   *)
LEMMA PageInit == Init => TypeOK /\ Bound
<1> SUFFICES ASSUME Init PROVE TypeOK /\ Bound
  OBVIOUS
<1>1. Unmounted \in ViewState
  BY DEF Unmounted, ViewState
<1>2. TypeOK
  <2>1. 1 \in 1..MaxSession
    BY JourneyAssumption
  <2>2. view \in [Views -> ViewState]
    BY <1>1 DEF Init
  <2> QED
    BY <2>1, <2>2 DEF Init, TypeOK
<1>3. Unmounted.result = None /\ ~Unmounted.confirmed
  BY DEF Unmounted
<1>4. Bound
  BY <1>3 DEF Init, Bound, ConfirmationBindsSelection
<1> QED
  BY <1>2, <1>4

(* One controller's part of ConfirmationBindsSelection.                     *)
RowBinds(row) ==
  /\ row.result # None => row.result.selections = row.selections
  /\ row.confirmed => row.result # None

Page == view \in [Views -> ViewState] /\ calls \subseteq Call /\ Bound

(* A controller starts a call and gives up the one before.                  *)
LEMMA PageAwaits ==
  ASSUME Page, NEW CONSTANT v \in Views, NEW CONSTANT row \in ViewState, NEW CONSTANT k \in Call,
         view' = [view EXCEPT ![v] = row], calls' = Superseded(v) \cup {k},
         k.view = v, k.answer = None, row.mounted, row.busy, RowBinds(row),
         k.op = "calculate" => row.selections = k.body
  PROVE  Page'
<1>1. view' \in [Views -> ViewState] /\ calls' \subseteq Call
  BY DEF Page, Superseded
<1>2. /\ view'[v] = row /\ \A m \in Superseded(v) : view'[m.view] = view[m.view]
      /\ \A x \in Views \ {v} : view'[x] = view[x]
  <2>1. \A m \in Superseded(v) : m.view \in Views \ {v}
    BY DEF Page, Superseded, Call
  <2> QED
    BY <2>1 DEF Page
<1>3. ConfirmationBindsSelection'
  BY <1>2 DEF Page, Bound, ConfirmationBindsSelection, RowBinds
<1>4. Bound'
  BY <1>2, <1>3 DEF Page, Bound, Superseded
<1> QED
  BY <1>1, <1>4 DEF Page

(* A controller changes and awaits nothing.                                 *)
LEMMA PageRests ==
  ASSUME Page, NEW CONSTANT v \in Views, NEW CONSTANT row \in ViewState,
         view' = [view EXCEPT ![v] = row], calls' = Superseded(v), RowBinds(row)
  PROVE  Page'
<1>1. view' \in [Views -> ViewState] /\ calls' \subseteq Call
  BY DEF Page, Superseded
<1>2. /\ view'[v] = row /\ \A m \in Superseded(v) : view'[m.view] = view[m.view]
      /\ \A x \in Views \ {v} : view'[x] = view[x]
  <2>1. \A m \in Superseded(v) : m.view \in Views \ {v}
    BY DEF Page, Superseded, Call
  <2> QED
    BY <2>1 DEF Page
<1>3. ConfirmationBindsSelection'
  BY <1>2 DEF Page, Bound, ConfirmationBindsSelection, RowBinds
<1>4. Bound'
  BY <1>2, <1>3 DEF Page, Bound, Superseded
<1> QED
  BY <1>1, <1>4 DEF Page

(* Every controller of the page is gone.                                    *)
LEMMA PageGone ==
  ASSUME view' = [x \in Views |-> Unmounted], calls' = {}
  PROVE  Page'
<1>1. Unmounted \in ViewState /\ Unmounted.result = None /\ ~Unmounted.confirmed
  BY DEF Unmounted, ViewState
<1> QED
  BY <1>1 DEF Page, Bound, ConfirmationBindsSelection

(* An idle controller awaits nothing.                                       *)
LEMMA IdleAwaitsNothing ==
  ASSUME Page, NEW v \in Views, ~view[v].busy \/ ~view[v].mounted
  PROVE  Superseded(v) = calls
BY DEF Page, Bound, Superseded

(* A create is answered.                                                    *)
LEMMA PageAnswered ==
  ASSUME Page, NEW c, NEW answer \in Answer, answer.kind # "result",
         view' = view, calls' = Answered(c, answer)
  PROVE  Page'
<1> DEFINE f(k) == IF k.op = "create" /\ k.body = c /\ k.answer = None
                     THEN [k EXCEPT !.answer = answer] ELSE k
<1>1. calls' = {f(k) : k \in calls}
  BY DEF Answered
<1>2. \A k \in calls : /\ f(k) \in Call /\ f(k).view = k.view /\ f(k).op = k.op
                       /\ f(k).body = k.body
                       /\ f(k).answer = k.answer \/ f(k).answer = answer
  BY AnsweredType DEF Page
<1> HIDE DEF f
<1>3. \A m \in calls' : \E k \in calls : m = f(k)
  BY <1>1
<1>4. Bound'
  BY <1>2, <1>3 DEF Page, Bound, ConfirmationBindsSelection
<1> QED
  BY <1>2, <1>3, <1>4 DEF Page

(* One call is answered.                                                    *)
LEMMA PageReplaced ==
  ASSUME Page, NEW CONSTANT k \in calls, NEW CONSTANT answer \in Answer,
         answer.kind = "result" => k.op = "calculate" /\ answer.value.selections = k.body,
         view' = view, calls' = (calls \ {k}) \cup {[k EXCEPT !.answer = answer]}
  PROVE  Page'
<1> DEFINE new == [k EXCEPT !.answer = answer]
<1>1. new \in Call /\ new.view = k.view /\ new.op = k.op /\ new.body = k.body /\ new.answer = answer
  BY AnsweredType DEF Page
<1> HIDE DEF new
<1>2. calls' = (calls \ {k}) \cup {new}
  BY DEF new
<1>3. Bound'
  BY <1>1, <1>2 DEF Page, Bound, ConfirmationBindsSelection
<1> QED
  BY <1>1, <1>2, <1>3 DEF Page

(* What an answer does to its controller.                                   *)
LEMMA TakenType ==
  ASSUME NEW row \in ViewState, RowBinds(row), NEW answer \in Answer,
         answer.kind = "result" => answer.value.selections = row.selections
  PROVE  Taken(row, answer) \in ViewState /\ RowBinds(Taken(row, answer))
<1>1. CASE answer.kind = "failed"
  BY <1>1 DEF Taken
<1>2. CASE answer.kind = "stale"
  BY <1>2 DEF Taken, ViewState, RowBinds
<1>3. CASE answer.kind = "context"
  BY <1>3 DEF Taken, ViewState, RowBinds
<1>4. CASE answer.kind = "result"
  <2>1. answer.value \in Result /\ answer.value # None
    BY <1>4, JourneyAssumption DEF Answer
  <2>2. Taken(row, answer) = [row EXCEPT !.result = answer.value]
    BY <1>4 DEF Taken
  <2> QED
    BY <1>4, <2>1, <2>2 DEF ViewState, RowBinds
<1>5. CASE answer.kind = "receipt"
  <2>1. answer.value \in Receipt
    BY <1>5 DEF Answer
  <2>2. Taken(row, answer) \in {row, [row EXCEPT !.receipt = answer.value]}
    BY <1>5 DEF Taken
  <2> QED
    BY <2>1, <2>2 DEF ViewState, RowBinds
<1>6. answer.kind \in {"failed", "stale", "context", "result", "receipt"}
  BY DEF Answer
<1> QED
  BY <1>1, <1>2, <1>3, <1>4, <1>5, <1>6

(* Each action keeps the types and what the controllers await.              *)
LEMMA PageStep == TypeOK /\ Bound /\ [Next]_vars => (TypeOK /\ Bound)'
<1> SUFFICES ASSUME TypeOK, Bound, [Next]_vars PROVE (TypeOK /\ Bound)'
  OBVIOUS
<1> DEFINE Rest == /\ pair \in Pairs /\ session \in 1..MaxSession /\ source \in Sources
                   /\ hint \in Intent \cup {None} /\ expired \in BOOLEAN
                   /\ arriving \subseteq Create /\ created \subseteq Create
                   /\ refused \subseteq Requests /\ submitted \subseteq Requests
                   /\ released \subseteq Requests
<1>0. Page /\ Rest /\ (Page' /\ Rest' => (TypeOK /\ Bound)')
  BY DEF TypeOK, Page
<1>a. \A v \in Views : /\ view[v] \in ViewState /\ RowBinds(view[v])
  BY DEF TypeOK, Bound, ConfirmationBindsSelection, RowBinds
<1>b. hint # None => /\ hint.command \in Create /\ hint.command.selections \in Selections
                     /\ hint.command.request \in Requests
  BY DEF TypeOK, Intent, Create
<1>c. Named(hint) \subseteq Requests
  BY <1>b DEF Named
<1>d. None \notin Requests \cup Selections
  BY JourneyAssumption
<1>1. ASSUME NEW CONSTANT v \in Views, Mount(v) PROVE (TypeOK /\ Bound)'
  <2> DEFINE row == [Unmounted EXCEPT !.mounted = TRUE, !.busy = TRUE,
                       !.intent     = IF Accepted THEN Restored ELSE None,
                       !.selections = IF Accepted THEN hint.command.selections ELSE None]
  <2>1. /\ view' = [view EXCEPT ![v] = row]
        /\ calls' = Superseded(v) \cup {Awaiting(v, "context", None)}
    BY <1>0, <1>1, IdleAwaitsNothing DEF Mount
  <2>2. row \in ViewState /\ row.mounted /\ row.busy /\ RowBinds(row)
    BY <1>b DEF Accepted, Restored, Unmounted, ViewState, RowBinds
  <2>3. Page'
    <3>1. /\ Awaiting(v, "context", None).view = v /\ Awaiting(v, "context", None).answer = None
          /\ Awaiting(v, "context", None).op = "context"
      BY DEF Awaiting
    <3> HIDE DEF row
    <3> QED
      BY <1>0, <2>1, <2>2, <3>1, AwaitingType, PageAwaits
  <2>4. Rest'
    BY <1>0, <1>1, <1>c DEF Mount, server
  <2> QED
    BY <1>0, <2>3, <2>4
<1>2. ASSUME NEW CONSTANT v \in Views, Unmount(v) PROVE (TypeOK /\ Bound)'
  <2>1. Unmounted \in ViewState /\ RowBinds(Unmounted)
    BY DEF Unmounted, ViewState, RowBinds
  <2>2. Page'
    BY <1>0, <1>2, <2>1, PageRests DEF Unmount
  <2> QED
    BY <1>0, <1>2, <2>2 DEF Unmount, server, ledgers
<1>3. ASSUME NEW p \in Pairs, Navigate(p) PROVE (TypeOK /\ Bound)'
  BY <1>0, <1>3, PageGone DEF Navigate, server, ledgers
<1>4. CASE SignIn
  <2>1. session + 1 \in 1..MaxSession
    BY <1>0, <1>4, JourneyAssumption DEF SignIn
  <2> QED
    BY <1>0, <1>4, <1>c, <2>1, PageGone DEF SignIn, server
<1>5. CASE Expire
  <2>1. Page'
    BY <1>0, <1>5 DEF Expire, Page, Bound, ConfirmationBindsSelection
  <2> QED
    BY <1>0, <1>5, <1>c, <2>1 DEF Expire, server
<1>6. ASSUME NEW CONSTANT v \in Views, Load(v) PROVE (TypeOK /\ Bound)'
  <2> DEFINE row == [view[v] EXCEPT !.busy = TRUE, !.context = FALSE]
  <2>1. /\ row \in ViewState /\ row.mounted /\ row.busy /\ RowBinds(row)
        /\ view' = [view EXCEPT ![v] = row]
    BY <1>a, <1>6 DEF Load, ViewState, RowBinds
  <2>2. /\ Awaiting(v, "context", None).view = v /\ Awaiting(v, "context", None).answer = None
        /\ Awaiting(v, "context", None).op = "context"
    BY DEF Awaiting
  <2> HIDE DEF row
  <2>3. Page'
    BY <1>0, <1>6, <2>1, <2>2, AwaitingType, PageAwaits DEF Load
  <2> QED
    BY <1>0, <1>6, <2>3 DEF Load, server, ledgers
<1>7. ASSUME NEW CONSTANT v \in Views, NEW CONSTANT s \in Selections \cup {None}, Select(v, s)
      PROVE  (TypeOK /\ Bound)'
  <2> DEFINE row == [view[v] EXCEPT !.selections = s, !.result = None,
                                    !.confirmed = FALSE, !.busy = FALSE]
  <2>1. row \in ViewState /\ RowBinds(row) /\ view' = [view EXCEPT ![v] = row]
    BY <1>a, <1>7 DEF Select, ViewState, RowBinds
  <2> HIDE DEF row
  <2>2. Page'
    BY <1>0, <1>7, <2>1, PageRests DEF Select
  <2> QED
    BY <1>0, <1>7, <2>2 DEF Select, server, ledgers
<1>8. ASSUME NEW CONSTANT v \in Views, Calculate(v) PROVE (TypeOK /\ Bound)'
  <2> DEFINE row == [view[v] EXCEPT !.busy = TRUE, !.result = None, !.confirmed = FALSE]
             k   == Awaiting(v, "calculate", view[v].selections)
  <2>1. /\ row \in ViewState /\ row.mounted /\ row.busy /\ RowBinds(row)
        /\ view' = [view EXCEPT ![v] = row] /\ row.selections = view[v].selections
        /\ view[v].selections \in Selections
    BY <1>a, <1>8 DEF Calculate, ViewState, RowBinds
  <2>2. k \in Call /\ k.view = v /\ k.answer = None /\ k.body = view[v].selections
    BY <2>1, AwaitingType DEF Awaiting
  <2>3. calls' = Superseded(v) \cup {k}
    BY <1>8 DEF Calculate
  <2> HIDE DEF row, k
  <2>4. Page'
    BY <1>0, <2>1, <2>2, <2>3, PageAwaits
  <2> QED
    BY <1>0, <1>8, <2>4 DEF Calculate, server, ledgers
<1>9. ASSUME NEW CONSTANT v \in Views, NEW CONSTANT b \in BOOLEAN, Confirm(v, b)
      PROVE  (TypeOK /\ Bound)'
  <2> DEFINE row == [view[v] EXCEPT !.confirmed = b]
  <2>1. row \in ViewState /\ RowBinds(row) /\ view' = [view EXCEPT ![v] = row]
    BY <1>a, <1>9 DEF Confirm, ViewState, RowBinds
  <2> HIDE DEF row
  <2>2. Page'
    BY <1>0, <1>9, <2>1, PageRests, IdleAwaitsNothing DEF Confirm
  <2> QED
    BY <1>0, <1>9, <2>2 DEF Confirm, server, ledgers
<1>10. ASSUME NEW CONSTANT v \in Views, AdoptSaved(v) PROVE (TypeOK /\ Bound)'
  <2> DEFINE row == [view[v] EXCEPT !.intent = hint.command,
                       !.selections = hint.command.selections,
                       !.result = None, !.confirmed = FALSE]
  <2>1. row \in ViewState /\ RowBinds(row) /\ view' = [view EXCEPT ![v] = row]
    BY <1>a, <1>b, <1>10 DEF AdoptSaved, Accepted, ViewState, RowBinds
  <2> HIDE DEF row
  <2>2. Page'
    BY <1>0, <1>10, <2>1, PageRests, IdleAwaitsNothing DEF AdoptSaved, CanSave
  <2> QED
    BY <1>0, <1>10, <2>2 DEF AdoptSaved, server, ledgers
<1>11. ASSUME NEW v \in Views, SaveUnstored(v) PROVE (TypeOK /\ Bound)'
  <2>1. Page'
    BY <1>0, <1>11 DEF SaveUnstored, Page, Bound, ConfirmationBindsSelection
  <2> QED
    BY <1>0, <1>11, <2>1 DEF SaveUnstored, server, ledgers
<1>12. ASSUME NEW CONSTANT v \in Views, NEW CONSTANT q \in Requests, Save(v, q)
       PROVE  (TypeOK /\ Bound)'
  <2> DEFINE command == [request |-> q, pair |-> pair, selections |-> view[v].selections,
                         expected |-> view[v].result]
             row == [view[v] EXCEPT !.intent = command, !.busy = TRUE]
             k   == Awaiting(v, "create", command)
  <2>1. command \in Create
    <3>1. view[v].result \in Result /\ view[v].selections = view[v].result.selections
      BY <1>a, <1>12 DEF Save, CanSave, ViewState, RowBinds
    <3> QED
      BY <1>0, <3>1 DEF Create, Result
  <2>2. [session |-> session, command |-> command] \in Intent
    BY <1>0, <2>1 DEF Intent
  <2> HIDE DEF command
  <2>3. row \in ViewState /\ row.mounted /\ row.busy /\ RowBinds(row)
    BY <1>a, <1>12, <2>1 DEF Save, CanSave, ViewState, RowBinds
  <2>4. k \in Call /\ k.view = v /\ k.answer = None /\ k.op = "create"
    BY <2>1, AwaitingType DEF Awaiting
  <2>5. /\ view' = [view EXCEPT ![v] = row] /\ calls' = Superseded(v) \cup {k}
        /\ hint' = [session |-> session, command |-> command] /\ expired' = FALSE
        /\ arriving' = arriving \cup {command} /\ submitted' = submitted \cup {q}
        /\ UNCHANGED <<pair, session, source, created, refused, released>>
    BY <1>12 DEF Save, server, command
  <2> HIDE DEF row, k
  <2>6. Page'
    BY <1>0, <2>3, <2>4, <2>5, PageAwaits
  <2>7. Rest'
    BY <1>0, <2>1, <2>2, <2>5
  <2> QED
    BY <1>0, <2>6, <2>7
<1>13. ASSUME NEW CONSTANT v \in Views, NEW CONSTANT q \in Requests, Recover(v, q)
       PROVE  (TypeOK /\ Bound)'
  <2> DEFINE new == [view[v] EXCEPT !.busy = TRUE, !.receipt = None,
                !.result     = IF view[v].intent = None THEN None ELSE @,
                !.confirmed  = IF view[v].intent = None THEN FALSE ELSE @,
                !.selections = IF view[v].intent = None THEN None ELSE @]
             k   == Awaiting(v, "recover", q)
  <2>0. new \in ViewState
    BY <1>a, RecoveredType
  <2>1. new \in ViewState /\ new.mounted /\ new.busy /\ RowBinds(new)
    BY <1>a, <1>13, <2>0 DEF Recover, ViewState, RowBinds
  <2>2. view' = [view EXCEPT ![v] = new] /\ calls' = Superseded(v) \cup {k}
    BY <1>13 DEF Recover
  <2>3. k \in Call /\ k.view = v /\ k.answer = None /\ k.op = "recover"
    BY AwaitingType DEF Awaiting
  <2> HIDE DEF new, k
  <2>4. Page'
    BY <1>0, <2>1, <2>2, <2>3, PageAwaits
  <2> QED
    BY <1>0, <1>13, <2>4 DEF Recover, server, ledgers
<1>14. ASSUME NEW s \in Sources, ChangeSources(s) PROVE (TypeOK /\ Bound)'
  <2>1. Page'
    BY <1>0, <1>14 DEF ChangeSources, Page, Bound, ConfirmationBindsSelection
  <2> QED
    BY <1>0, <1>14, <2>1 DEF ChangeSources, ledgers
<1>15. ASSUME NEW c \in arriving, RunCreate(c) PROVE (TypeOK /\ Bound)'
  <2>1. c \in Create /\ c.request \in Requests
    BY <1>0 DEF Create
  <2>2. CreateAnswer(c) \in Answer /\ CreateAnswer(c).kind # "result"
    BY <2>1, AnswerTypes
  <2>3. Page'
    BY <1>0, <1>15, <2>2, PageAnswered DEF RunCreate
  <2>4. Rest'
    BY <1>0, <1>15, <2>1 DEF RunCreate, Arrived, ledgers
  <2> QED
    BY <1>0, <2>3, <2>4
<1>16. ASSUME NEW c \in arriving, LoseCreate(c) PROVE (TypeOK /\ Bound)'
  <2>1. Failure \in Answer /\ Failure.kind # "result"
    BY AnswerTypes DEF Failure, Plain
  <2>2. Page'
    BY <1>0, <1>16, <2>1, PageAnswered DEF LoseCreate
  <2> QED
    BY <1>0, <1>16, <2>2 DEF LoseCreate, server, ledgers
<1>17. ASSUME NEW CONSTANT k \in calls, RunRead(k) PROVE (TypeOK /\ Bound)'
  <2>1. k \in Call /\ k.op # "create" /\ ReadAnswer(k) \in Answer
    BY <1>0, <1>17, AnswerTypes DEF RunRead, Page
  <2>2. ReadAnswer(k).kind = "result"
          => k.op = "calculate" /\ ReadAnswer(k).value.selections = k.body
    BY <2>1 DEF ReadAnswer, Plain, Found, Failure, Calculated, Call
  <2>3. Page'
    BY <1>0, <1>17, <2>1, <2>2, PageReplaced DEF RunRead
  <2> QED
    BY <1>0, <1>17, <2>3 DEF RunRead, server, ledgers
<1>18. ASSUME NEW CONSTANT k \in calls, Fail(k) PROVE (TypeOK /\ Bound)'
  <2>1. Failure \in Answer /\ Failure.kind # "result"
    BY AnswerTypes DEF Failure, Plain
  <2>2. Page'
    BY <1>0, <1>18, <2>1, PageReplaced DEF Fail
  <2> QED
    BY <1>0, <1>18, <2>2 DEF Fail, server, ledgers
<1>19. ASSUME NEW CONSTANT k \in calls, Deliver(k) PROVE (TypeOK /\ Bound)'
  <2> DEFINE v   == k.view
             row == Settled(Taken(view[v], k.answer), k)
  <2>1. k \in Call /\ v \in Views /\ k.answer \in Answer
    BY <1>0, <1>19 DEF Page, Call, Deliver
  <2>2. k.answer.kind = "result" => k.answer.value.selections = view[v].selections
    BY <1>19 DEF Bound, Deliver
  <2>3. Taken(view[v], k.answer) \in ViewState /\ RowBinds(Taken(view[v], k.answer))
    BY <1>a, <2>1, <2>2, TakenType
  <2>4. row \in ViewState /\ RowBinds(row)
    BY <2>3 DEF Settled, ViewState, RowBinds
  <2>5. view' = [view EXCEPT ![v] = row] /\ calls' = Superseded(v)
    BY <1>19 DEF Deliver, Superseded, Bound
  <2> HIDE DEF v, row
  <2>6. Page'
    BY <1>0, <2>1, <2>4, <2>5, PageRests
  <2> QED
    BY <1>0, <1>19, <2>6 DEF Deliver, server, ledgers
<1>20. CASE UNCHANGED vars
  BY <1>20 DEF vars, TypeOK, Bound, ConfirmationBindsSelection
<1> QED
  BY <1>1, <1>2, <1>3, <1>4, <1>5, <1>6, <1>7, <1>8, <1>9, <1>10, <1>11, <1>12, <1>13,
     <1>14, <1>15, <1>16, <1>17, <1>18, <1>19, <1>20 DEF Next

(* Every variable keeps its type, whatever order answers come in.           *)
THEOREM JourneyTyping == Spec => []TypeOK
<1>1. TypeOK /\ Bound => TypeOK
  OBVIOUS
<1> QED
  BY <1>1, PageInit, PageStep, PTL DEF Spec

(* What the user confirms is the calculation of what is selected, for any   *)
(* number of controllers and any order of edits and late answers.           *)
THEOREM Confirmations == Spec => []ConfirmationBindsSelection
<1>1. TypeOK /\ Bound => ConfirmationBindsSelection
  BY DEF Bound
<1> QED
  BY <1>1, PageInit, PageStep, PTL DEF Spec

------------------------------------------------------------------------------
(* What the stored hint is worth: an open request is never forgotten by    *)
(* its tab, and a receipt on the screen is the truth.                      *)

(* The hint is of this login and, once a controller is mounted, of its pair;*)
(* one that expired was given up.                                           *)
HintKept ==
  hint # None =>
    /\ hint.session = session
    /\ \A v \in Views : view[v].mounted => hint.command.pair = pair
    /\ expired => hint.command.request \in released

(* The one create that is awaited is what the hint names, and only a create *)
(* is answered as stale.                                                    *)
CreateHinted ==
  /\ \A k \in calls : k.op = "create" => hint # None /\ ~expired /\ hint.command = k.body
  /\ \A k, m \in calls : k.op = "create" /\ m.op = "create" => k = m
  /\ \A k \in calls : k.answer # None /\ k.answer = Stale => k.op = "create" /\ k.body.request \in refused

HintInv == HintKept /\ CreateHinted /\ OpenRequestHeld

(* At the start there is no hint and nothing was submitted.                 *)
LEMMA HintInit == Init => HintInv
BY DEF Init, HintInv, HintKept, CreateHinted, OpenRequestHeld

(* A hint that a mounted controller does not accept was given up, and no    *)
(* create is awaited then.                                                  *)
LEMMA NotAccepted ==
  ASSUME TypeOK, Bound, HintInv, ~Accepted
  PROVE  /\ \A k \in calls : k.op # "create"
         /\ \A v \in Views : view[v].mounted => Named(hint) \subseteq released
<1>1. ASSUME NEW v \in Views, view[v].mounted, hint # None
      PROVE  expired /\ hint.command.request \in released
  BY <1>1 DEF HintInv, HintKept, Accepted
<1>2. ASSUME NEW k \in calls, k.op = "create" PROVE FALSE
  <2>1. k.view \in Views /\ view[k.view].mounted /\ hint # None /\ ~expired
    BY <1>2 DEF TypeOK, Call, Bound, HintInv, CreateHinted
  <2> QED
    BY <1>1, <2>1
<1> QED
  BY <1>1, <1>2 DEF Named

(* The hint stays: no controller appears, and calls are given up or started *)
(* without a create.                                                        *)
LEMMA HintStays ==
  ASSUME TypeOK, Bound, HintInv, UNCHANGED <<pair, session, hint, expired>>,
         \A v \in Views : view'[v].mounted => view[v].mounted,
         \A k \in calls' : k \in calls \/ (k.op # "create" /\ (k.answer = None \/ k.answer # Stale)),
         refused \subseteq refused', released \subseteq released', submitted' = submitted
  PROVE  HintInv'
<1>1. HintKept'
  BY DEF HintInv, HintKept
<1>2. CreateHinted'
  BY DEF HintInv, CreateHinted, Stale, Plain
<1>3. OpenRequestHeld'
  BY DEF HintInv, OpenRequestHeld, Named
<1> QED
  BY <1>1, <1>2, <1>3 DEF HintInv

(* A create is answered, as stale only if its request is refused.           *)
LEMMA HintAnswered ==
  ASSUME TypeOK, CreateHinted, NEW c, NEW answer, calls' = Answered(c, answer),
         UNCHANGED <<hint, expired>>, refused \subseteq refused',
         answer = Stale => c.request \in refused'
  PROVE  CreateHinted'
<1> DEFINE f(k) == IF k.op = "create" /\ k.body = c /\ k.answer = None
                     THEN [k EXCEPT !.answer = answer] ELSE k
<1>1. calls' = {f(k) : k \in calls}
  BY DEF Answered
<1>2. \A k \in calls : /\ f(k).op = k.op /\ f(k).body = k.body
                       /\ \/ f(k).answer = k.answer
                          \/ k.op = "create" /\ k.body = c /\ f(k).answer = answer
  BY DEF TypeOK, Call
<1> HIDE DEF f
<1> QED
  BY <1>1, <1>2 DEF CreateHinted

(* Each action keeps what the hint is worth.                                *)
LEMMA HintStep == TypeOK /\ Bound /\ HintInv /\ [Next]_vars => HintInv'
<1> SUFFICES ASSUME TypeOK, Bound, HintInv, [Next]_vars PROVE HintInv'
  OBVIOUS
<1>0. /\ Unmounted.mounted = FALSE
      /\ view \in [Views -> ViewState]
      /\ \A k \in calls : k.view \in Views /\ k.answer \in Answer \cup {None}
      /\ \A body : \A v \in Views, op \in {"context", "calculate", "recover"} :
           /\ Awaiting(v, op, body).op # "create"
           /\ Awaiting(v, op, body).answer = None
  BY DEF Unmounted, TypeOK, Call, Awaiting
<1>1. ASSUME NEW v \in Views, Mount(v) PROVE HintInv'
  <2>1. CASE Accepted
    <3>1. /\ hint' = hint /\ released' = released /\ calls' = calls \cup {Awaiting(v, "context", None)}
          /\ UNCHANGED <<pair, session, expired, refused, submitted>>
      BY <1>1, <2>1 DEF Mount, server
    <3>2. HintKept'
      BY <2>1, <3>1 DEF HintInv, HintKept, Accepted
    <3>3. CreateHinted'
      BY <1>0, <3>1 DEF HintInv, CreateHinted
    <3> QED
      BY <3>1, <3>2, <3>3 DEF HintInv, OpenRequestHeld, Named
  <2>2. CASE ~Accepted
    <3>1. /\ hint' = None /\ released' = released \cup Named(hint)
          /\ calls' = calls \cup {Awaiting(v, "context", None)}
          /\ UNCHANGED <<refused, submitted>>
      BY <1>1, <2>2 DEF Mount, server
    <3>2. CreateHinted'
      BY <1>0, <2>2, <3>1, NotAccepted DEF HintInv, CreateHinted
    <3> QED
      BY <3>1, <3>2 DEF HintInv, HintKept, OpenRequestHeld, Named
  <2> QED
    BY <2>1, <2>2
<1>2. ASSUME NEW v \in Views, Unmount(v) PROVE HintInv'
  BY <1>0, <1>2, HintStays DEF Unmount, Superseded, server, ledgers
<1>3. ASSUME NEW p \in Pairs, Navigate(p) PROVE HintInv'
  BY <1>0, <1>3 DEF Navigate, server, ledgers, HintInv, HintKept, CreateHinted, OpenRequestHeld, Named
<1>4. CASE SignIn
  BY <1>0, <1>4 DEF SignIn, server, HintInv, HintKept, CreateHinted, OpenRequestHeld, Named
<1>5. CASE Expire
  BY <1>5 DEF Expire, server, HintInv, HintKept, CreateHinted, OpenRequestHeld, Named
<1>6. ASSUME NEW v \in Views, Load(v) PROVE HintInv'
  BY <1>0, <1>6, HintStays DEF Load, Superseded, server, ledgers
<1>7. ASSUME NEW v \in Views, NEW s \in Selections \cup {None}, Select(v, s) PROVE HintInv'
  BY <1>0, <1>7, HintStays DEF Select, Superseded, server, ledgers
<1>8. ASSUME NEW v \in Views, Calculate(v) PROVE HintInv'
  BY <1>0, <1>8, HintStays DEF Calculate, Superseded, server, ledgers
<1>9. ASSUME NEW v \in Views, NEW b \in BOOLEAN, Confirm(v, b) PROVE HintInv'
  BY <1>0, <1>9, HintStays DEF Confirm, server, ledgers
<1>10. ASSUME NEW v \in Views, AdoptSaved(v) PROVE HintInv'
  BY <1>0, <1>10, HintStays DEF AdoptSaved, CanSave, server, ledgers
<1>11. ASSUME NEW v \in Views, SaveUnstored(v) PROVE HintInv'
  <2>1. Named(hint) \subseteq released /\ \A k \in calls : k.op # "create"
    BY <1>11, NotAccepted DEF SaveUnstored, CanSave, Free
  <2> QED
    BY <1>11, <2>1 DEF SaveUnstored, server, ledgers, HintInv, HintKept, CreateHinted,
                       OpenRequestHeld, Named
<1>12. ASSUME NEW v \in Views, NEW q \in Requests, Save(v, q) PROVE HintInv'
  <2> DEFINE command == [request |-> q, pair |-> pair, selections |-> view[v].selections,
                         expected |-> view[v].result]
             new     == [session |-> session, command |-> command]
             k       == Awaiting(v, "create", command)
  <2>1. Named(hint) \subseteq released /\ \A m \in calls : m.op # "create"
    BY <1>12, NotAccepted DEF Save, CanSave, Free
  <2>2. /\ hint' = new /\ expired' = FALSE /\ calls' = Superseded(v) \cup {k}
        /\ submitted' = submitted \cup {q}
        /\ UNCHANGED <<pair, session, refused, released>>
    BY <1>12 DEF Save, server
  <2>3. /\ new # None /\ new.session = session /\ new.command = command
        /\ command.request = q /\ command.pair = pair
    <3>1. new \in Intent
      <4>1. view[v].result \in Result /\ view[v].selections = view[v].result.selections
        BY <1>0, <1>12 DEF Save, CanSave, Bound, ConfirmationBindsSelection, ViewState
      <4> QED
        BY <4>1 DEF Intent, Create, Result, TypeOK
    <3> QED
      BY <3>1, JourneyAssumption
  <2>4. k.op = "create" /\ k.body = command /\ k.answer = None
    BY DEF Awaiting
  <2> HIDE DEF command, new, k
  <2>5. HintKept'
    BY <2>2, <2>3 DEF HintKept
  <2>6. CreateHinted'
    BY <2>1, <2>2, <2>3, <2>4 DEF HintInv, CreateHinted, Superseded
  <2>7. OpenRequestHeld'
    BY <2>1, <2>2, <2>3 DEF HintInv, OpenRequestHeld, Named
  <2> QED
    BY <2>5, <2>6, <2>7 DEF HintInv
<1>13. ASSUME NEW v \in Views, NEW q \in Requests, Recover(v, q) PROVE HintInv'
  BY <1>0, <1>13, HintStays DEF Recover, Superseded, server, ledgers
<1>14. ASSUME NEW s \in Sources, ChangeSources(s) PROVE HintInv'
  BY <1>0, <1>14, HintStays DEF ChangeSources, ledgers
<1>15. ASSUME NEW c \in arriving, RunCreate(c) PROVE HintInv'
  <2> DEFINE answer == CreateAnswer(c)
  <2>1. /\ calls' = Answered(c, answer)
        /\ refused' = IF answer = Stale THEN refused \cup {c.request} ELSE refused
        /\ UNCHANGED <<pair, session, hint, expired, view, submitted, released>>
    BY <1>15 DEF RunCreate, ledgers
  <2> HIDE DEF answer
  <2>2. CreateHinted'
    BY <2>1, HintAnswered DEF HintInv
  <2> QED
    BY <2>1, <2>2 DEF HintInv, HintKept, OpenRequestHeld
<1>16. ASSUME NEW c \in arriving, LoseCreate(c) PROVE HintInv'
  <2>1. /\ calls' = Answered(c, Failure) /\ Failure # Stale
        /\ UNCHANGED <<pair, session, hint, expired, view, submitted, released, refused>>
    BY <1>16 DEF LoseCreate, server, ledgers, Failure, Stale, Plain
  <2>2. CreateHinted'
    BY <2>1, HintAnswered DEF HintInv
  <2> QED
    BY <2>1, <2>2 DEF HintInv, HintKept, OpenRequestHeld
<1>17. ASSUME NEW k \in calls, RunRead(k) PROVE HintInv'
  <2>1. ReadAnswer(k) # Stale /\ [k EXCEPT !.answer = ReadAnswer(k)].answer = ReadAnswer(k)
    BY <1>17 DEF RunRead, ReadAnswer, Stale, Failure, Plain, Found, TypeOK, Call
  <2>2. [k EXCEPT !.answer = ReadAnswer(k)].op # "create"
    BY <1>17 DEF RunRead, TypeOK, Call
  <2> QED
    BY <1>0, <1>17, <2>1, <2>2, HintStays DEF RunRead, server, ledgers
<1>18. ASSUME NEW k \in calls, Fail(k) PROVE HintInv'
  <2> DEFINE new == [k EXCEPT !.answer = Failure]
  <2>1. new.answer # Stale /\ new.op = k.op /\ new.body = k.body
    BY DEF Failure, Stale, Plain, TypeOK, Call
  <2>2. calls' = (calls \ {k}) \cup {new}
    BY <1>18 DEF Fail
  <2> HIDE DEF new
  <2>3. CreateHinted'
    BY <1>18, <2>1, <2>2 DEF Fail, server, HintInv, CreateHinted
  <2> QED
    BY <1>18, <2>3 DEF Fail, server, ledgers, HintInv, HintKept, OpenRequestHeld
<1>19. ASSUME NEW k \in calls, Deliver(k) PROVE HintInv'
  <2>0. \A v \in Views : view'[v].mounted => view[v].mounted
    BY <1>0, <1>19 DEF Deliver, Settled, Taken, Bound
  <2>1. CASE Forgets(k)
    <3>1. k.op = "create" /\ hint.command = k.body /\ k.body.request \in refused
      BY <1>19, <2>1 DEF Deliver, Forgets, HintInv, CreateHinted
    <3> QED
      BY <1>19, <2>1, <3>1 DEF Deliver, server, ledgers, HintInv, HintKept, CreateHinted,
                               OpenRequestHeld, Named
  <2>2. CASE ~Forgets(k)
    BY <1>19, <2>0, <2>2, HintStays DEF Deliver, server, ledgers
  <2> QED
    BY <2>1, <2>2
<1>20. CASE UNCHANGED vars
  BY <1>20, HintStays DEF vars
<1> QED
  BY <1>1, <1>2, <1>3, <1>4, <1>5, <1>6, <1>7, <1>8, <1>9, <1>10, <1>11, <1>12, <1>13,
     <1>14, <1>15, <1>16, <1>17, <1>18, <1>19, <1>20 DEF Next

(* An open request is named by the hint of its tab: for any number of       *)
(* controllers, requests and logins, a reload, a lost answer or a second    *)
(* controller cannot make the page submit another in its place.             *)
THEOREM OpenRequests == Spec => []OpenRequestHeld
<1>1. TypeOK /\ Bound /\ HintInv => OpenRequestHeld
  BY DEF HintInv
<1> QED
  BY <1>1, PageInit, PageStep, HintInit, HintStep, PTL DEF Spec

------------------------------------------------------------------------------
(* Receipts.                                                               *)

(* The commands anybody still knows of.                                     *)
Known ==
  arriving \cup created \cup {view[v].intent : v \in Views}
    \cup (IF hint = None THEN {} ELSE {hint.command})

(* A request is one command, everywhere.                                    *)
OneRequest ==
  /\ \A c \in Known : c # None => c.request \in submitted
  /\ \A c, e \in Known : c # None /\ e # None /\ c.request = e.request => c = e

(* The draft of this pair that a receipt speaks of.                         *)
Backed(r) == \E c \in created : c.request = r.request /\ c.pair = pair

(* A controller with an intent awaits news of that intent only, and news of *)
(* a confirmed draft is true when it is sent.                               *)
News(k) ==
  /\ k.op = "create" => view[k.view].intent = k.body
  /\ k.op = "recover" /\ view[k.view].intent # None => k.body = view[k.view].intent.request
  /\ k.answer # None /\ k.answer.kind = "receipt" /\ k.answer.value.status = "confirmed"
       => /\ Backed(k.answer.value)
          /\ view[k.view].intent # None
               => k.answer.value.request = view[k.view].intent.request

(* ReceiptsTrue for one controller.                                         *)
Shown(v) ==
  view[v].receipt # None /\ view[v].receipt.status = "confirmed" =>
    \E c \in created :
      /\ c.request = view[v].receipt.request /\ c.pair = pair
      /\ view[v].intent # None => c = view[v].intent

ReceiptInv ==
  /\ OneRequest
  /\ \A k \in calls : News(k)
  /\ \A v \in Views : Shown(v)

(* At the start nobody knows of a command.                                  *)
LEMMA ReceiptInit == Init => ReceiptInv
<1> SUFFICES ASSUME Init PROVE ReceiptInv
  OBVIOUS
<1>1. \A v \in Views : view[v].intent = None /\ view[v].receipt = None
  BY DEF Init, Unmounted
<1>2. \A c \in Known : c = None
  BY <1>1 DEF Init, Known
<1> QED
  BY <1>1, <1>2 DEF Init, ReceiptInv, OneRequest, Shown

(* Commands that were known stay one per request when none is added.        *)
LEMMA OneRequestKept ==
  ASSUME OneRequest, submitted \subseteq submitted', Known' \subseteq Known \cup {None}
  PROVE  OneRequest'
BY DEF OneRequest

(* Intents come from the controllers themselves or from the hint.           *)
LEMMA KnownKept ==
  ASSUME (arriving \cup created)' \subseteq arriving \cup created,
         hint' = hint \/ hint' = None,
         \A v \in Views : \/ view'[v].intent \in {view[v].intent, None}
                         \/ (hint # None /\ view'[v].intent = hint.command)
  PROVE  Known' \subseteq Known \cup {None}
<1>1. \A v \in Views : view'[v].intent \in Known \cup {None}
  BY DEF Known
<1>2. (IF hint' = None THEN {} ELSE {hint'.command}) \subseteq Known
  BY DEF Known
<1>3. (arriving \cup created)' \subseteq Known
  BY DEF Known
<1> QED
  BY <1>1, <1>2, <1>3 DEF Known

(* What was true of a draft stays true.                                     *)
LEMMA ShownKept ==
  ASSUME ReceiptInv, pair' = pair, created \subseteq created',
         \A k \in calls' : News(k)' \/ (k \in calls /\ view'[k.view].intent = view[k.view].intent),
         \A v \in Views :
           \/ view'[v].receipt = None \/ Shown(v)'
           \/ /\ view'[v].receipt = view[v].receipt
              /\ view'[v].intent = view[v].intent \/ view'[v].intent = None
  PROVE  (\A k \in calls : News(k))' /\ (\A v \in Views : Shown(v))'
<1>1. ASSUME NEW CONSTANT k \in calls', k \in calls, view'[k.view].intent = view[k.view].intent
      PROVE  News(k)'
  BY <1>1 DEF ReceiptInv, News, Backed
<1>2. ASSUME NEW CONSTANT v \in Views, view'[v].receipt = view[v].receipt,
             view'[v].intent = view[v].intent \/ view'[v].intent = None
      PROVE  Shown(v)'
  BY <1>2 DEF ReceiptInv, Shown
<1>3. ASSUME NEW CONSTANT v \in Views, view'[v].receipt = None PROVE Shown(v)'
  BY <1>3 DEF Shown
<1> QED
  BY <1>1, <1>2, <1>3

(* A call that has no answer yet, and is neither a create nor a lookup.     *)
LEMMA NoNews ==
  ASSUME NEW k, k.answer = None, k.op # "create",
         k.op = "recover" => view[k.view].intent = None \/ k.body = view[k.view].intent.request
  PROVE  News(k)
BY DEF News

(* Each action keeps receipts true.                                         *)
LEMMA ReceiptStep ==
  TypeOK /\ Bound /\ HintInv /\ Fates /\ ReceiptInv /\ [Next]_vars => ReceiptInv'
<1> SUFFICES ASSUME TypeOK, Bound, HintInv, Fates, ReceiptInv, [Next]_vars PROVE ReceiptInv'
  OBVIOUS
<1> DEFINE Seen == (\A k \in calls : News(k)) /\ (\A v \in Views : Shown(v))
<1>0. /\ Unmounted.intent = None /\ Unmounted.receipt = None
      /\ view \in [Views -> ViewState]
      /\ \A k \in calls : k.view \in Views
      /\ OneRequest' /\ Seen' => ReceiptInv'
  BY DEF Unmounted, TypeOK, Call, ReceiptInv
<1>a. \A v \in Views : \A k \in Superseded(v) : k \in calls /\ k.view # v
  BY DEF Superseded
<1>b. ASSUME UNCHANGED <<pair, created, view>>, calls' \subseteq calls PROVE Seen'
  BY <1>b, ShownKept
<1>c. ASSUME UNCHANGED <<arriving, created, view, submitted>>, hint' = hint \/ hint' = None
      PROVE OneRequest'
  BY <1>c, KnownKept, OneRequestKept DEF ReceiptInv
<1>1. ASSUME NEW v \in Views, Mount(v) PROVE ReceiptInv'
  <2>1. /\ view'[v].receipt = None
        /\ view'[v].intent = None \/ (hint # None /\ view'[v].intent = hint.command)
        /\ \A x \in Views \ {v} : view'[x] = view[x]
    BY <1>0, <1>1 DEF Mount, Accepted, Restored
  <2>2. OneRequest'
    <3>1. Known' \subseteq Known \cup {None}
      BY <1>1, <2>1, KnownKept DEF Mount, server
    <3> QED
      BY <1>1, <3>1, OneRequestKept DEF Mount, ReceiptInv
  <2>3. /\ \A k \in calls : k.view # v
        /\ \A k \in calls' : k \in calls \/ k = Awaiting(v, "context", None)
    BY <1>1 DEF Mount, Bound
  <2>4. News(Awaiting(v, "context", None))'
    BY DEF News, Awaiting
  <2>5. Seen'
    BY <1>0, <1>1, <2>1, <2>3, <2>4, ShownKept DEF Mount, server
  <2> QED
    BY <1>0, <2>2, <2>5
<1>2. ASSUME NEW v \in Views, Unmount(v) PROVE ReceiptInv'
  <2>1. view'[v] = Unmounted /\ \A x \in Views \ {v} : view'[x] = view[x]
    BY <1>0, <1>2 DEF Unmount
  <2>2. OneRequest'
    BY <1>0, <1>2, <2>1, KnownKept, OneRequestKept DEF Unmount, server, ledgers, ReceiptInv
  <2>3. Seen'
    BY <1>0, <1>a, <1>2, <2>1, ShownKept DEF Unmount, server
  <2> QED
    BY <1>0, <2>2, <2>3
<1>3. ASSUME NEW p \in Pairs, Navigate(p) PROVE ReceiptInv'
  <2>1. \A x \in Views : view'[x] = Unmounted
    BY <1>3 DEF Navigate
  <2>2. OneRequest'
    BY <1>0, <1>3, <2>1, KnownKept, OneRequestKept DEF Navigate, server, ledgers, ReceiptInv
  <2>3. Seen'
    BY <1>0, <1>3, <2>1 DEF Navigate, Shown
  <2> QED
    BY <1>0, <2>2, <2>3
<1>4. CASE SignIn
  <2>1. \A x \in Views : view'[x] = Unmounted
    BY <1>4 DEF SignIn
  <2>2. OneRequest'
    BY <1>0, <1>4, <2>1, KnownKept, OneRequestKept DEF SignIn, server, ReceiptInv
  <2>3. Seen'
    BY <1>0, <1>4, <2>1 DEF SignIn, Shown
  <2> QED
    BY <1>0, <2>2, <2>3
<1>5. CASE Expire
  BY <1>0, <1>b, <1>c, <1>5 DEF Expire, server
<1>6. ASSUME NEW v \in Views, NEW row \in ViewState, NEW k,
             view' = [view EXCEPT ![v] = row], calls' = Superseded(v) \cup {k},
             UNCHANGED <<pair, hint, arriving, created, submitted>>,
             row.intent = view[v].intent, row.receipt \in {None, view[v].receipt},
             k.view = v, k.answer = None, k.op # "create",
             k.op = "recover" => row.intent = None \/ k.body = row.intent.request
      PROVE  ReceiptInv'
  <2>1. view'[v] = row /\ \A x \in Views \ {v} : view'[x] = view[x]
    BY <1>0, <1>6
  <2>2. OneRequest'
    BY <1>6, <2>1, KnownKept, OneRequestKept DEF ReceiptInv
  <2>3. News(k)'
    BY <1>6, <2>1 DEF News
  <2>4. Seen'
    BY <1>0, <1>a, <1>6, <2>1, <2>3, ShownKept
  <2> QED
    BY <1>0, <2>2, <2>4
<1>7. ASSUME NEW v \in Views, NEW row \in ViewState, view' = [view EXCEPT ![v] = row],
             calls' = Superseded(v), UNCHANGED <<pair, created, arriving, submitted>>,
             hint' = hint \/ hint' = None,
             \/ row.intent = view[v].intent /\ row.receipt = view[v].receipt
             \/ row.intent = None /\ row.receipt = view[v].receipt
             \/ hint # None /\ row.intent = hint.command /\ row.receipt = None
      PROVE  ReceiptInv'
  <2>1. view'[v] = row /\ \A x \in Views \ {v} : view'[x] = view[x]
    BY <1>0, <1>7
  <2>2. OneRequest'
    BY <1>7, <2>1, KnownKept, OneRequestKept DEF ReceiptInv
  <2>3. Seen'
    BY <1>0, <1>a, <1>7, <2>1, ShownKept
  <2> QED
    BY <1>0, <2>2, <2>3
<1>8. ASSUME NEW v \in Views, Load(v) PROVE ReceiptInv'
  <2> DEFINE row == [view[v] EXCEPT !.busy = TRUE, !.context = FALSE]
             k   == Awaiting(v, "context", None)
  <2>a. [view[v] EXCEPT !.busy = TRUE] \in ViewState
    BY <1>0, RowUpdates
  <2>b. row \in ViewState
    BY <2>a, RowUpdates
  <2>1. row \in ViewState /\ row.intent = view[v].intent /\ row.receipt = view[v].receipt
    BY <1>0, <2>b DEF ViewState
  <2>2. k.view = v /\ k.answer = None /\ k.op = "context"
    BY DEF Awaiting
  <2>3. view' = [view EXCEPT ![v] = row] /\ calls' = Superseded(v) \cup {k}
    BY <1>8 DEF Load
  <2> HIDE DEF row, k
  <2> QED
    BY <1>6, <1>8, <2>1, <2>2, <2>3 DEF Load, server, ledgers
<1>9. ASSUME NEW v \in Views, NEW s \in Selections \cup {None}, Select(v, s) PROVE ReceiptInv'
  <2> DEFINE row == [view[v] EXCEPT !.selections = s, !.result = None,
                                    !.confirmed = FALSE, !.busy = FALSE]
  <2>a. [view[v] EXCEPT !.selections = s] \in ViewState
    BY <1>0, RowUpdates
  <2>b. [view[v] EXCEPT !.selections = s, !.result = None] \in ViewState
    BY <2>a, RowUpdates
  <2>c. [view[v] EXCEPT !.selections = s, !.result = None, !.confirmed = FALSE] \in ViewState
    BY <2>b, RowUpdates
  <2>d. row \in ViewState
    BY <2>c, RowUpdates
  <2>1. row \in ViewState /\ row.intent = view[v].intent /\ row.receipt = view[v].receipt
    BY <1>0, <2>d DEF ViewState
  <2>2. view' = [view EXCEPT ![v] = row]
    BY <1>9 DEF Select
  <2> HIDE DEF row
  <2> QED
    BY <1>7, <1>9, <2>1, <2>2 DEF Select, server, ledgers
<1>10. ASSUME NEW v \in Views, Calculate(v) PROVE ReceiptInv'
  <2> DEFINE row == [view[v] EXCEPT !.busy = TRUE, !.result = None, !.confirmed = FALSE]
             k   == Awaiting(v, "calculate", view[v].selections)
  <2>a. [view[v] EXCEPT !.busy = TRUE] \in ViewState
    BY <1>0, RowUpdates
  <2>b. [view[v] EXCEPT !.busy = TRUE, !.result = None] \in ViewState
    BY <2>a, RowUpdates
  <2>c. row \in ViewState
    BY <2>b, RowUpdates
  <2>1. row \in ViewState /\ row.intent = view[v].intent /\ row.receipt = view[v].receipt
    BY <1>0, <2>c DEF ViewState
  <2>2. k.view = v /\ k.answer = None /\ k.op = "calculate"
    BY DEF Awaiting
  <2>3. view' = [view EXCEPT ![v] = row] /\ calls' = Superseded(v) \cup {k}
    BY <1>10 DEF Calculate
  <2> HIDE DEF row, k
  <2> QED
    BY <1>6, <1>10, <2>1, <2>2, <2>3 DEF Calculate, server, ledgers
<1>11. ASSUME NEW v \in Views, NEW b \in BOOLEAN, Confirm(v, b) PROVE ReceiptInv'
  <2> DEFINE row == [view[v] EXCEPT !.confirmed = b]
  <2>1. row \in ViewState /\ row.intent = view[v].intent /\ row.receipt = view[v].receipt
    BY <1>0 DEF ViewState
  <2>2. view' = [view EXCEPT ![v] = row] /\ calls' = Superseded(v)
    BY <1>11, IdleAwaitsNothing DEF Confirm, Page, TypeOK
  <2> HIDE DEF row
  <2> QED
    BY <1>7, <1>11, <2>1, <2>2 DEF Confirm, server, ledgers
<1>12. ASSUME NEW v \in Views, AdoptSaved(v) PROVE ReceiptInv'
  <2> DEFINE row == [view[v] EXCEPT !.intent = hint.command,
                       !.selections = hint.command.selections,
                       !.result = None, !.confirmed = FALSE]
  <2>1. hint # None /\ hint.command \in Create /\ hint.command.selections \in Selections
    BY <1>12 DEF AdoptSaved, Accepted, TypeOK, Intent, Create
  <2>2. row \in ViewState /\ row.intent = hint.command /\ row.receipt = None
    BY <1>0, <1>12, <2>1 DEF AdoptSaved, CanSave, ViewState
  <2>3. view' = [view EXCEPT ![v] = row] /\ calls' = Superseded(v)
    BY <1>12, IdleAwaitsNothing DEF AdoptSaved, CanSave, Page, TypeOK
  <2> HIDE DEF row
  <2> QED
    BY <1>7, <1>12, <2>1, <2>2, <2>3 DEF AdoptSaved, server, ledgers
<1>13. ASSUME NEW v \in Views, SaveUnstored(v) PROVE ReceiptInv'
  BY <1>0, <1>b, <1>c, <1>13 DEF SaveUnstored, server, ledgers
<1>14. ASSUME NEW v \in Views, NEW q \in Requests, Save(v, q) PROVE ReceiptInv'
  <2> DEFINE command == [request |-> q, pair |-> pair, selections |-> view[v].selections,
                         expected |-> view[v].result]
             new     == [session |-> session, command |-> command]
             k       == Awaiting(v, "create", command)
             row     == [view[v] EXCEPT !.intent = command, !.busy = TRUE]
  <2>1. /\ hint' = new /\ calls' = Superseded(v) \cup {k} /\ q \notin submitted
        /\ view' = [view EXCEPT ![v] = row] /\ arriving' = arriving \cup {command}
        /\ submitted' = submitted \cup {q}
        /\ UNCHANGED <<pair, created>>
    BY <1>14 DEF Save, server
  <2>2. new.command = command /\ command.request = q
    OBVIOUS
  <2>3. k.op = "create" /\ k.body = command /\ k.answer = None /\ k.view = v
    BY DEF Awaiting
  <2>4. row.intent = command /\ row.receipt = None
    BY <1>0, <1>14 DEF Save, CanSave, ViewState
  <2> HIDE DEF command, new, k, row
  <2>5. view'[v] = row /\ \A x \in Views \ {v} : view'[x] = view[x]
    BY <1>0, <2>1
  <2>6. Known' \subseteq Known \cup {command}
    BY <2>1, <2>2, <2>4, <2>5 DEF Known
  <2>7. OneRequest'
    BY <2>1, <2>2, <2>6 DEF ReceiptInv, OneRequest
  <2>8. \A m \in calls' : m \in Superseded(v) \/ News(m)'
    BY <2>1, <2>3, <2>4, <2>5 DEF News
  <2>9. Seen'
    BY <1>0, <1>a, <2>1, <2>4, <2>5, <2>8, ShownKept
  <2> QED
    BY <1>0, <2>7, <2>9
<1>15. ASSUME NEW v \in Views, NEW q \in Requests, Recover(v, q) PROVE ReceiptInv'
  <2> DEFINE row == [view[v] EXCEPT !.busy = TRUE, !.receipt = None,
                !.result     = IF view[v].intent = None THEN None ELSE @,
                !.confirmed  = IF view[v].intent = None THEN FALSE ELSE @,
                !.selections = IF view[v].intent = None THEN None ELSE @]
             k   == Awaiting(v, "recover", q)
  <2>0. row \in ViewState
    BY <1>0, RecoveredType
  <2>1. /\ row \in ViewState /\ row.intent = view[v].intent /\ row.receipt = None
        /\ row.intent = None \/ q = row.intent.request
    BY <1>0, <1>15, <2>0 DEF Recover, Recoverable, ViewState
  <2>2. k.view = v /\ k.answer = None /\ k.op = "recover" /\ k.body = q
    BY DEF Awaiting
  <2>3. view' = [view EXCEPT ![v] = row] /\ calls' = Superseded(v) \cup {k}
    BY <1>15 DEF Recover
  <2> HIDE DEF row, k
  <2> QED
    BY <1>6, <1>15, <2>1, <2>2, <2>3 DEF Recover, server, ledgers
<1>16. ASSUME NEW s \in Sources, ChangeSources(s) PROVE ReceiptInv'
  BY <1>0, <1>b, <1>c, <1>16 DEF ChangeSources, ledgers
<1>17. ASSUME NEW c \in arriving, RunCreate(c) PROVE ReceiptInv'
  <2>1. /\ arriving' = arriving \ {c} /\ calls' = Answered(c, CreateAnswer(c))
        /\ created' = IF CreateAnswer(c).kind = "receipt" THEN created \cup {c} ELSE created
        /\ UNCHANGED <<pair, hint, view, submitted>>
    BY <1>17 DEF RunCreate, Arrived, ledgers
  <2>2. OneRequest'
    BY <2>1, KnownKept, OneRequestKept DEF ReceiptInv
  <2>3. CreateAnswer(c).kind = "receipt" => CreateAnswer(c) = Found(c.request, "confirmed")
    BY DEF CreateAnswer, Failure, Stale, Plain
  <2>4. ASSUME NEW k \in calls, k.op = "create", k.body = c PROVE c.pair = pair
    BY <2>4 DEF HintInv, CreateHinted, HintKept, Bound, TypeOK, Call
  <2>5. ASSUME NEW m \in calls' PROVE News(m)' \/ m \in calls
    <3>1. PICK k \in calls : m = k \/ (/\ k.op = "create" /\ k.body = c
                                      /\ m = [k EXCEPT !.answer = CreateAnswer(c)])
      BY <2>1 DEF Answered
    <3>2. CASE m # k
      <4>1. /\ m.op = "create" /\ m.body = c /\ m.view = k.view /\ m.answer = CreateAnswer(c)
            /\ c.pair = pair
        BY <2>4, <3>1, <3>2 DEF TypeOK, Call
      <4>2. view[m.view].intent = c
        BY <3>1, <3>2, <4>1 DEF ReceiptInv, News
      <4>3. m.answer.kind = "receipt" => Backed(m.answer.value)' /\ m.answer.value.request = c.request
        BY <2>1, <2>3, <4>1 DEF Backed, Found
      <4> QED
        BY <2>1, <4>1, <4>2, <4>3 DEF News
    <3> QED
      BY <3>1, <3>2
  <2>6. Seen'
    BY <2>1, <2>5, ShownKept
  <2> QED
    BY <1>0, <2>2, <2>6
<1>18. ASSUME NEW c \in arriving, LoseCreate(c) PROVE ReceiptInv'
  <2>1. /\ arriving' = arriving \ {c} /\ calls' = Answered(c, Failure)
        /\ UNCHANGED <<pair, hint, view, submitted, created>>
    BY <1>18 DEF LoseCreate, server, ledgers
  <2>2. OneRequest'
    BY <2>1, KnownKept, OneRequestKept DEF ReceiptInv
  <2>3. ASSUME NEW m \in calls' PROVE News(m)' \/ m \in calls
    <3>1. PICK k \in calls : m = k \/ (m = [k EXCEPT !.answer = Failure])
      BY <2>1 DEF Answered
    <3>2. CASE m # k
      BY <2>1, <3>1, <3>2 DEF ReceiptInv, News, TypeOK, Call, Failure, Plain
    <3> QED
      BY <3>1, <3>2
  <2>4. Seen'
    BY <2>1, <2>3, ShownKept
  <2> QED
    BY <1>0, <2>2, <2>4
<1>19. ASSUME NEW k \in calls, RunRead(k) PROVE ReceiptInv'
  <2>1. /\ UNCHANGED <<pair, hint, view, arriving, created, submitted>>
        /\ calls' = (calls \ {k}) \cup {[k EXCEPT !.answer = ReadAnswer(k)]}
        /\ k.op # "create" /\ k \in Call
    BY <1>19 DEF RunRead, server, ledgers, TypeOK
  <2>2. ReadAnswer(k).kind = "receipt" /\ ReadAnswer(k).value.status = "confirmed"
          => k.op = "recover" /\ ReadAnswer(k).value.request = k.body /\ Backed(ReadAnswer(k).value)
    BY <2>1 DEF ReadAnswer, Plain, Found, Failure, Backed, Recorded, Call
  <2>3. \A m \in calls' : m \in calls \/ News(m)'
    <3> DEFINE answer == ReadAnswer(k)
               new    == [k EXCEPT !.answer = answer]
    <3>1. new.op = k.op /\ new.body = k.body /\ new.view = k.view /\ new.answer = answer
      BY <2>1 DEF Call
    <3>2. ASSUME NEW m \in calls', m \notin calls PROVE m = new
      BY <2>1, <3>2
    <3> HIDE DEF new, answer
    <3>3. ASSUME NEW m \in calls', m \notin calls, answer = ReadAnswer(k) PROVE News(m)'
      BY <2>1, <2>2, <3>1, <3>2, <3>3 DEF ReceiptInv, News, Backed
    <3> QED
      BY <3>3 DEF answer
  <2>4. OneRequest'
    BY <1>c, <2>1
  <2>5. Seen'
    BY <2>1, <2>3, ShownKept
  <2> QED
    BY <1>0, <2>4, <2>5
<1>20. ASSUME NEW k \in calls, Fail(k) PROVE ReceiptInv'
  <2>1. /\ UNCHANGED <<pair, hint, view, arriving, created, submitted>>
        /\ calls' = (calls \ {k}) \cup {[k EXCEPT !.answer = Failure]}
    BY <1>20 DEF Fail, server, ledgers
  <2>2. ASSUME NEW m \in calls', m \notin calls PROVE News(m)'
    BY <2>1, <2>2 DEF ReceiptInv, News, TypeOK, Call, Failure, Plain
  <2>3. OneRequest'
    BY <1>c, <2>1
  <2>4. Seen'
    BY <2>1, <2>2, ShownKept
  <2> QED
    BY <1>0, <2>3, <2>4
<1>21. ASSUME NEW k \in calls, Deliver(k) PROVE ReceiptInv'
  <2> DEFINE row == Settled(Taken(view[k.view], k.answer), k)
  <2>1. /\ calls' = calls \ {k} /\ view' = [view EXCEPT ![k.view] = row]
        /\ hint' = hint \/ hint' = None
        /\ UNCHANGED <<pair, arriving, created, submitted>>
        /\ k.answer # None /\ k.view \in Views /\ view[k.view] \in ViewState
    BY <1>0, <1>21 DEF Deliver, server, ledgers
  <2>2. calls' = Superseded(k.view)
    BY <2>1 DEF Superseded, Bound
  <2>3. k.answer \in Answer
    BY <2>1 DEF TypeOK, Call
  <2>4. \/ row.intent = view[k.view].intent /\ row.receipt = view[k.view].receipt
        \/ row.intent = None /\ row.receipt = view[k.view].receipt
        \/ /\ k.answer.kind = "receipt" /\ row.intent = view[k.view].intent
           /\ row.receipt = k.answer.value
    BY <2>1, <2>3 DEF Settled, Taken, ViewState, Answer
  <2> HIDE DEF row
  <2>5. view'[k.view] = row /\ \A x \in Views \ {k.view} : view'[x] = view[x]
    BY <1>0, <2>1
  <2>6. OneRequest'
    BY <2>1, <2>4, <2>5, KnownKept, OneRequestKept DEF ReceiptInv
  <2>7. ASSUME k.answer.kind = "receipt", row.intent = view[k.view].intent, row.receipt = k.answer.value
        PROVE  Shown(k.view)'
    <3> SUFFICES ASSUME row.receipt.status = "confirmed" PROVE Shown(k.view)'
      BY <2>5 DEF Shown
    <3>1. News(k)
      BY DEF ReceiptInv
    <3>2. PICK c \in created : c.request = k.answer.value.request /\ c.pair = pair
      BY <2>1, <2>7, <3>1 DEF News, Backed
    <3>3. view[k.view].intent # None => c = view[k.view].intent
      <4>1. c \in Known /\ view[k.view].intent \in Known /\ c # None
        BY <2>1, JourneyAssumption DEF Known, TypeOK
      <4> QED
        BY <2>1, <2>7, <3>1, <3>2, <4>1 DEF News, ReceiptInv, OneRequest
    <3> QED
      BY <2>1, <2>5, <2>7, <3>2, <3>3 DEF Shown
  <2>8. Seen'
    BY <1>0, <1>a, <2>1, <2>2, <2>4, <2>5, <2>7, ShownKept
  <2> QED
    BY <1>0, <2>6, <2>8
<1>22. CASE UNCHANGED vars
  BY <1>0, <1>b, <1>c, <1>22 DEF vars
<1> QED
  BY <1>1, <1>2, <1>3, <1>4, <1>5, <1>8, <1>9, <1>10, <1>11, <1>12, <1>13, <1>14, <1>15,
     <1>16, <1>17, <1>18, <1>19, <1>20, <1>21, <1>22 DEF Next

(* A receipt on the screen names a draft the executor holds for this pair,  *)
(* the one of the controller's own intent if it has one, for any number of  *)
(* controllers, requests and prices and any order of answers.               *)
THEOREM Receipts == Spec => []ReceiptsTrue
<1>1. ReceiptInv => ReceiptsTrue
  BY DEF ReceiptInv, ReceiptsTrue, Shown
<1> QED
  BY <1>1, PageInit, PageStep, HintInit, HintStep, FatesInit, FatesStep, ReceiptInit, ReceiptStep,
     PTL DEF Spec
==============================================================================
