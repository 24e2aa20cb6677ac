------------------------- MODULE BrowserSession_proofs -------------------------
(***************************************************************************)
(* Whatever the provider reports and however late answers are, a tab keeps *)
(* its requests, its cache and its recovery apart from other operators.    *)
(***************************************************************************)
EXTENDS BrowserSession, TLAPS

(* What every operator on the state of the tab preserves.                   *)
Isolated(m) ==
  /\ m.request.live => m.request.for = m.shown
  /\ m.request.stage = "sent" => m.request.bearer \in {m.request.for, None}
  /\ m.change # None => (m.change.live => Subject(m.shown) = m.change.user)
  /\ m.refresh # None => (m.refresh.live => Subject(m.shown) = m.refresh.user)
  /\ m.cached \subseteq {m.shown, None}

Quarantined(m) ==
  /\ m.out => m.shown = None
  /\ Active(m) => m.out
  /\ m.capture # None => Active(m)

Waiting(m) ==
  /\ m.signIn # "none" => m.bridge = "ready" /\ ~Active(m)
  /\ m.request.read => m.request.stage = "reading"

Good(m) == m \in TabState /\ Isolated(m) /\ Quarantined(m) /\ Waiting(m)

Signals ==
  /\ intent \in BOOLEAN /\ notice \in BOOLEAN /\ ended \in BOOLEAN
  /\ ended => intent

(* What was awaited before a sign-in was overtaken by it, but for a refresh, *)
(* which is live only for the user who is shown.                            *)
Overdue ==
  /\ older \subseteq Awaited(tab)
  /\ "read" \in older => ~tab.request.read
  /\ "hydrate" \in older => tab.bridge = "overtaken"

SessionInv == Signals /\ Good(tab) /\ Overdue

(* From m to n nothing that is awaited ends or is renewed.                  *)
Kept(m, n) ==
  /\ m.bridge # "ready" => n.bridge # "ready"
  /\ m.bridge = "overtaken" => n.bridge = "overtaken"
  /\ m.request.stage = "reading" => n.request.stage = "reading"
  /\ m.request.stage = "reading" => (n.request.read => m.request.read)
  /\ m.refresh # None => n.refresh # None

(* The step sends no bearer after a logout.                                 *)
Quiet ==
  ended /\ tab.request.stage # "sent" /\ tab'.request.stage = "sent"
    => tab'.request.bearer = None

(* The step lets no older answer bring another operator back.               *)
Stands == older \ older' # {} => Subject(tab'.shown) \in {Subject(tab.shown), None}

LEMMA SubjectType ==
  ASSUME NEW s \in Identity
  PROVE  /\ Subject(s) \in Users \cup {None}
         /\ s # None => s \in Sessions /\ Subject(s) = UserOf[s] /\ UserOf[s] \in Users
BY SessionAssumption DEF Identity, Subject

LEMMA KeptTransitive ==
  ASSUME NEW m, NEW n, NEW o, Kept(m, n), Kept(n, o)
  PROVE  Kept(m, o)
BY DEF Kept

------------------------------------------------------------------------------
(* What the operators on the tab do, field by field.                        *)
LEMMA OvertakenFields ==
  ASSUME NEW m \in TabState
  PROVE  /\ Overtaken(m.refresh) \in Refresh \cup {None}
         /\ Overtaken(m.change) \in Change \cup {None}
         /\ Overtaken(m.capture) \in Capture \cup {None}
         /\ Overtaken(m.refresh) # None => ~Overtaken(m.refresh).live
         /\ Overtaken(m.change) # None => ~Overtaken(m.change).live
         /\ Overtaken(m.capture) # None => m.capture # None
         /\ m.refresh # None => Overtaken(m.refresh) # None
<1>0. /\ m.refresh \in Refresh \cup {None} /\ m.change \in Change \cup {None}
      /\ m.capture \in Capture \cup {None}
      /\ None \notin Refresh \cup Change \cup Capture
  BY SessionAssumption DEF TabState
<1>1. /\ Overtaken(m.refresh) \in Refresh \cup {None}
      /\ Overtaken(m.refresh) # None => ~Overtaken(m.refresh).live
      /\ m.refresh # None => Overtaken(m.refresh) # None
  <2>1. m.refresh # None => Overtaken(m.refresh) \in Refresh /\ ~Overtaken(m.refresh).live
    BY <1>0 DEF Overtaken, Refresh
  <2> QED
    BY <1>0, <2>1 DEF Overtaken
<1>2. /\ Overtaken(m.change) \in Change \cup {None}
      /\ Overtaken(m.change) # None => ~Overtaken(m.change).live
  BY <1>0 DEF Overtaken, Change
<1>3. /\ Overtaken(m.capture) \in Capture \cup {None}
      /\ Overtaken(m.capture) # None => m.capture # None
  BY <1>0 DEF Overtaken, Capture
<1> QED
  BY <1>1, <1>2, <1>3

LEMMA RequestFields ==
  ASSUME NEW r \in Request
  PROVE  /\ Idle(r).stage = r.stage /\ Idle(r).for = r.for /\ Idle(r).bearer = r.bearer
         /\ ~Idle(r).live /\ Idle(r).read = r.read
         /\ [r EXCEPT !.read = FALSE].stage = r.stage /\ [r EXCEPT !.read = FALSE].for = r.for
         /\ [r EXCEPT !.read = FALSE].live = r.live
         /\ [r EXCEPT !.read = FALSE].bearer = r.bearer
         /\ ~[r EXCEPT !.read = FALSE].read
BY DEF Idle, Request

LEMMA RequestTyped ==
  ASSUME NEW r \in Request
  PROVE  Idle(r) \in Request /\ [r EXCEPT !.read = FALSE] \in Request
BY DEF Idle, Request

(* A tab that changes one field within its type keeps the type.             *)
LEMMA TabUpdates ==
  ASSUME NEW m \in TabState
  PROVE  /\ \A v \in BOOLEAN : [m EXCEPT !.out = v] \in TabState
         /\ \A v \in Identity : [m EXCEPT !.shown = v] \in TabState
         /\ \A v \in Users \cup {None} : [m EXCEPT !.subject = v] \in TabState
         /\ \A v \in {"none", "asked", "moved"} : [m EXCEPT !.signIn = v] \in TabState
         /\ \A v \in Refresh \cup {None} : [m EXCEPT !.refresh = v] \in TabState
         /\ \A v \in Change \cup {None} : [m EXCEPT !.change = v] \in TabState
         /\ \A v \in Capture \cup {None} : [m EXCEPT !.capture = v] \in TabState
         /\ \A v \in SUBSET Identity : [m EXCEPT !.cached = v] \in TabState
         /\ \A v \in Request : [m EXCEPT !.request = v] \in TabState
<1>1. /\ \A v \in BOOLEAN : [m EXCEPT !.out = v] \in TabState
      /\ \A v \in Identity : [m EXCEPT !.shown = v] \in TabState
      /\ \A v \in Users \cup {None} : [m EXCEPT !.subject = v] \in TabState
  BY DEF TabState
<1>2. /\ \A v \in {"none", "asked", "moved"} : [m EXCEPT !.signIn = v] \in TabState
      /\ \A v \in Refresh \cup {None} : [m EXCEPT !.refresh = v] \in TabState
      /\ \A v \in Change \cup {None} : [m EXCEPT !.change = v] \in TabState
  BY DEF TabState
<1>3. /\ \A v \in Capture \cup {None} : [m EXCEPT !.capture = v] \in TabState
      /\ \A v \in SUBSET Identity : [m EXCEPT !.cached = v] \in TabState
      /\ \A v \in Request : [m EXCEPT !.request = v] \in TabState
  BY DEF TabState
<1> QED
  BY <1>1, <1>2, <1>3

LEMMA GenerationFields ==
  ASSUME NEW m \in TabState, NEW s \in Identity
  PROVE  LET n == [NextGeneration(m) EXCEPT !.shown = s] IN
         /\ n \in TabState
         /\ n.shown = s /\ n.out = m.out /\ n.bridge = m.bridge /\ n.subject = m.subject
         /\ n.recovery = m.recovery /\ n.cached = {} /\ n.request = Idle(m.request)
         /\ n.refresh = Overtaken(m.refresh) /\ n.change = Overtaken(m.change)
         /\ n.capture = Overtaken(m.capture)
         /\ n.signIn = "none" <=> m.signIn = "none"
<1> DEFINE g == NextGeneration(m)
<1>1. g \in TabState /\ g.signIn = IF m.signIn = "asked" THEN "moved" ELSE m.signIn
  <2> DEFINE moved == IF m.signIn = "asked" THEN "moved" ELSE m.signIn
             a == [m EXCEPT !.cached = {}, !.request = Idle(m.request)]
             b == [a EXCEPT !.change = Overtaken(m.change), !.refresh = Overtaken(m.refresh)]
             c == [b EXCEPT !.capture = Overtaken(m.capture)]
  <2>1. /\ Idle(m.request) \in Request /\ moved \in {"none", "asked", "moved"}
    BY RequestTyped DEF TabState
  <2>2. a \in TabState
    <3>1. [m EXCEPT !.cached = {}] \in TabState
      BY TabUpdates
    <3> QED
      BY <2>1, <3>1, TabUpdates
  <2>3. b \in TabState
    <3> HIDE DEF a
    <3>1. [a EXCEPT !.change = Overtaken(m.change)] \in TabState
      BY <2>2, OvertakenFields, TabUpdates
    <3> QED
      BY <3>1, OvertakenFields, TabUpdates
  <2>4. c \in TabState
    <3> HIDE DEF b
    <3> QED
      BY <2>3, OvertakenFields, TabUpdates
  <2>5. [c EXCEPT !.signIn = moved] \in TabState /\ [c EXCEPT !.signIn = moved].signIn = moved
    <3> HIDE DEF c, moved
    <3>1. [c EXCEPT !.signIn = moved] \in TabState
      BY <2>1, <2>4, TabUpdates
    <3> QED
      BY <2>4, <3>1 DEF TabState
  <2>6. g = [c EXCEPT !.signIn = moved]
    BY DEF NextGeneration
  <2> QED
    BY <2>5, <2>6
<1>2. /\ g.out = m.out /\ g.bridge = m.bridge /\ g.subject = m.subject
      /\ g.recovery = m.recovery /\ g.cached = {} /\ g.request = Idle(m.request)
      /\ g.refresh = Overtaken(m.refresh) /\ g.change = Overtaken(m.change)
      /\ g.capture = Overtaken(m.capture)
  BY DEF NextGeneration, TabState
<1> HIDE DEF g
<1>3. LET n == [g EXCEPT !.shown = s] IN
         /\ n \in TabState
         /\ n.shown = s /\ n.out = m.out /\ n.bridge = m.bridge /\ n.subject = m.subject
         /\ n.recovery = m.recovery /\ n.cached = {} /\ n.request = Idle(m.request)
         /\ n.refresh = Overtaken(m.refresh) /\ n.change = Overtaken(m.change)
         /\ n.capture = Overtaken(m.capture)
         /\ n.signIn = "none" <=> m.signIn = "none"
  BY <1>1, <1>2 DEF TabState
<1> QED
  BY <1>3 DEF g

LEMMA RevisedFields ==
  ASSUME NEW m \in TabState
  PROVE  LET n == Revised(m) IN
         /\ n \in TabState
         /\ n.bridge = (IF m.bridge = "reading" THEN "overtaken" ELSE m.bridge)
         /\ n.request = [m.request EXCEPT !.read = FALSE]
         /\ n.out = m.out /\ n.shown = m.shown /\ n.subject = m.subject /\ n.signIn = m.signIn
         /\ n.refresh = m.refresh /\ n.change = m.change /\ n.recovery = m.recovery
         /\ n.capture = m.capture /\ n.cached = m.cached
<1>1. m.request \in Request /\ [m.request EXCEPT !.read = FALSE] \in Request
  BY RequestTyped DEF TabState
<1>2. Revised(m) \in TabState
  BY <1>1 DEF Revised, TabState
<1> QED
  BY <1>2 DEF Revised, TabState

LEMMA ActionFields ==
  ASSUME NEW m \in TabState
  PROVE  LET n == NextAction(m) IN
         /\ n \in TabState
         /\ n.signIn = "none" /\ n.refresh = Overtaken(m.refresh)
         /\ n.change = Overtaken(m.change)
         /\ n.out = m.out /\ n.shown = m.shown /\ n.subject = m.subject /\ n.bridge = m.bridge
         /\ n.recovery = m.recovery /\ n.capture = m.capture /\ n.cached = m.cached
         /\ n.request = m.request
BY OvertakenFields DEF NextAction, TabState

LEMMA DiscardedFields ==
  ASSUME NEW m \in TabState, NEW status \in {"idle", "expired"}
  PROVE  LET n == Discarded(m, status) IN
         /\ n \in TabState
         /\ n.recovery = status /\ n.capture = None
         /\ n.out = m.out /\ n.shown = m.shown /\ n.subject = m.subject /\ n.bridge = m.bridge
         /\ n.signIn = m.signIn /\ n.refresh = m.refresh /\ n.change = m.change
         /\ n.cached = m.cached /\ n.request = m.request
BY DEF Discarded, TabState

------------------------------------------------------------------------------
(* They keep the tab good.                                                  *)
LEMMA RevisedGood ==
  ASSUME NEW m, Good(m)
  PROVE  LET n == Revised(m) IN
         Good(n) /\ Kept(m, n) /\ n.request.stage = m.request.stage /\ ~n.request.read
<1> DEFINE n == Revised(m)
<1>1. m \in TabState /\ m.request \in Request
  BY DEF Good, TabState
<1>2. n.request = [m.request EXCEPT !.read = FALSE]
  BY <1>1, RevisedFields
<1>3. /\ n.request.stage = m.request.stage /\ n.request.for = m.request.for
      /\ n.request.live = m.request.live /\ n.request.bearer = m.request.bearer
      /\ ~n.request.read
  BY <1>1, <1>2, RequestFields
<1>4. /\ n \in TabState
      /\ n.bridge = (IF m.bridge = "reading" THEN "overtaken" ELSE m.bridge)
      /\ n.out = m.out /\ n.shown = m.shown /\ n.signIn = m.signIn
      /\ n.refresh = m.refresh /\ n.change = m.change /\ n.recovery = m.recovery
      /\ n.capture = m.capture /\ n.cached = m.cached
  BY <1>1, RevisedFields
<1> HIDE DEF n
<1>5. Isolated(n) /\ Quarantined(n)
  BY <1>3, <1>4 DEF Good, Isolated, Quarantined, Active
<1>6. Waiting(n) /\ Kept(m, n)
  BY <1>3, <1>4 DEF Good, Waiting, Active, Kept
<1>7. Good(n)
  BY <1>4, <1>5, <1>6 DEF Good
<1> QED
  BY <1>3, <1>6, <1>7 DEF n

(* A bump of the generation makes all work idle, whatever is shown next.    *)
LEMMA GenerationGood ==
  ASSUME NEW m \in TabState, Quarantined(m), Waiting(m),
         m.request.stage = "sent" => m.request.bearer \in {m.request.for, None},
         NEW s \in Identity, s # None => ~m.out
  PROVE  LET n == [NextGeneration(m) EXCEPT !.shown = s] IN
         Good(n) /\ Kept(m, n) /\ n.request.stage = m.request.stage
<1> DEFINE n == [NextGeneration(m) EXCEPT !.shown = s]
<1>1. /\ n \in TabState
      /\ n.shown = s /\ n.out = m.out /\ n.bridge = m.bridge /\ n.recovery = m.recovery
      /\ n.cached = {} /\ n.refresh = Overtaken(m.refresh) /\ n.change = Overtaken(m.change)
      /\ n.capture = Overtaken(m.capture) /\ n.request = Idle(m.request)
      /\ n.signIn = "none" <=> m.signIn = "none"
  BY GenerationFields
<1> HIDE DEF n
<1>2. /\ n.request.stage = m.request.stage /\ n.request.for = m.request.for
      /\ ~n.request.live /\ n.request.read = m.request.read
      /\ n.request.bearer = m.request.bearer
  BY <1>1, RequestFields DEF TabState
<1>3. Isolated(n)
  BY <1>1, <1>2, OvertakenFields DEF Isolated
<1>4. Quarantined(n)
  BY <1>1, <1>2, OvertakenFields DEF Quarantined, Active
<1>5. Waiting(n)
  BY <1>1, <1>2 DEF Waiting, Active
<1>6. Kept(m, n)
  BY <1>1, <1>2, OvertakenFields DEF Kept
<1> QED
  BY <1>1, <1>2, <1>3, <1>4, <1>5, <1>6 DEF Good, n

LEMMA PublishGood ==
  ASSUME NEW m, Good(m), NEW s \in Identity, NEW b \in BOOLEAN, s # None => ~m.out
  PROVE  LET n == Publish(m, s, b) IN
         /\ Good(n) /\ Kept(m, n) /\ n.request.stage = m.request.stage
         /\ n.shown = s /\ n.request.read = m.request.read /\ n.bridge = m.bridge
<1>1. CASE b \/ s # m.shown
  <2>1. Publish(m, s, b) = [NextGeneration(m) EXCEPT !.shown = s]
    BY <1>1 DEF Publish
  <2>2. Idle(m.request).read = m.request.read
    BY RequestFields DEF Good, TabState
  <2> QED
    BY <2>1, <2>2, GenerationGood, GenerationFields DEF Good, Isolated
<1>2. CASE ~b /\ s = m.shown
  <2>1. Publish(m, s, b) = m
    BY <1>2 DEF Publish, Good, TabState
  <2> QED
    BY <1>2, <2>1 DEF Kept
<1> QED
  BY <1>1, <1>2

LEMMA ActionGood ==
  ASSUME NEW m, Good(m)
  PROVE  LET n == NextAction(m) IN
         Good(n) /\ Kept(m, n) /\ n.request.stage = m.request.stage
<1>1. m \in TabState
  BY DEF Good
<1>2. Isolated(NextAction(m))
  BY <1>1, ActionFields, OvertakenFields DEF Good, Isolated
<1>3. Quarantined(NextAction(m)) /\ Waiting(NextAction(m))
  BY <1>1, ActionFields DEF Good, Quarantined, Waiting, Active
<1>4. Kept(m, NextAction(m))
  BY <1>1, ActionFields, OvertakenFields DEF Kept
<1> QED
  BY <1>1, <1>2, <1>3, <1>4, ActionFields DEF Good

LEMMA DiscardedGood ==
  ASSUME NEW m, Good(m), NEW status \in {"idle", "expired"}, status = "expired" => Active(m)
  PROVE  LET n == Discarded(m, status) IN
         Good(n) /\ Kept(m, n) /\ n.request.stage = m.request.stage
<1>1. m \in TabState
  BY DEF Good
<1> QED
  BY <1>1, DiscardedFields DEF Good, Isolated, Quarantined, Waiting, Active, Kept

LEMMA ClearedGood ==
  ASSUME NEW m, Good(m), NEW b \in BOOLEAN
  PROVE  LET n == Cleared(m, b) IN
         /\ Good(n) /\ Kept(m, n) /\ n.request.stage = m.request.stage
         /\ n.out /\ n.shown = None /\ ~Active(n) /\ n.signIn = "none" /\ n.bridge # "reading"
         /\ n.capture = None /\ ~n.request.read
<1> DEFINE d == Discarded(m, "idle")
           a == NextAction(d)
           r == Revised(a)
           q == [r EXCEPT !.out = TRUE, !.subject = None]
<1>1. /\ Good(d) /\ Kept(m, d) /\ d.request.stage = m.request.stage
      /\ d.recovery = "idle" /\ d.capture = None
  BY DiscardedGood, DiscardedFields DEF Good
<1> HIDE DEF d
<1>2. /\ Good(a) /\ Kept(d, a) /\ a.request.stage = d.request.stage
      /\ a.recovery = "idle" /\ a.capture = None /\ a.signIn = "none"
  BY <1>1, ActionGood, ActionFields DEF Good
<1> HIDE DEF a
<1>3. /\ Good(r) /\ Kept(a, r) /\ r.request.stage = a.request.stage /\ ~r.request.read
      /\ r.recovery = "idle" /\ r.capture = None /\ r.signIn = "none" /\ r.bridge # "reading"
  <2>1. Good(r) /\ Kept(a, r) /\ r.request.stage = a.request.stage /\ ~r.request.read
    BY <1>2, RevisedGood
  <2>2. /\ r.recovery = a.recovery /\ r.capture = a.capture /\ r.signIn = a.signIn
        /\ r.bridge = (IF a.bridge = "reading" THEN "overtaken" ELSE a.bridge)
    BY <1>2, RevisedFields DEF Good
  <2> HIDE DEF r
  <2> QED
    BY <1>2, <2>1, <2>2
<1>4. Kept(m, r) /\ r.request.stage = m.request.stage
  BY <1>1, <1>2, <1>3, KeptTransitive
<1> HIDE DEF r
<1>5. /\ q \in TabState /\ q.out /\ q.shown = r.shown /\ q.bridge = r.bridge
      /\ q.recovery = "idle" /\ q.capture = None /\ q.signIn = "none"
      /\ q.request = r.request /\ q.refresh = r.refresh /\ q.change = r.change
      /\ q.cached = r.cached
  <2>1. r \in TabState /\ [r EXCEPT !.out = TRUE] \in TabState
    BY <1>3, TabUpdates DEF Good
  <2>2. q \in TabState
    BY <2>1, TabUpdates
  <2> QED
    BY <1>3, <2>1, <2>2 DEF TabState
<1>6. Kept(r, q)
  BY <1>5 DEF Kept
<1> DEFINE n == Publish(q, None, b)
<1>7. n = Cleared(m, b)
  BY DEF Cleared, d, a, r
<1> HIDE DEF q
<1>8. CASE r.shown = None /\ ~b
  <2>1. n = q
    BY <1>5, <1>8 DEF Publish, TabState
  <2>2. Good(q)
    BY <1>3, <1>5, <1>8 DEF Good, Isolated, Quarantined, Waiting, Active
  <2>3. Kept(m, q)
    BY <1>4, <1>6, KeptTransitive
  <2>4. /\ q.request.stage = m.request.stage
        /\ q.out /\ q.shown = None /\ ~Active(q) /\ q.signIn = "none" /\ q.bridge # "reading"
        /\ q.capture = None /\ ~q.request.read
    BY <1>3, <1>4, <1>5, <1>8 DEF Active
  <2> QED
    BY <1>7, <2>1, <2>2, <2>3, <2>4
<1>9. CASE r.shown # None \/ b
  <2> DEFINE p == [NextGeneration(q) EXCEPT !.shown = None]
  <2>1. n = p
    BY <1>5, <1>9 DEF Publish
  <2>2. NextGeneration(q).out = q.out
    BY <1>5 DEF NextGeneration, TabState
  <2>3. /\ p \in TabState /\ p.shown = None /\ p.out /\ p.bridge = q.bridge
        /\ p.recovery = "idle" /\ p.signIn = "none" /\ p.cached = {}
        /\ p.refresh = Overtaken(q.refresh) /\ p.change = Overtaken(q.change)
        /\ p.capture = Overtaken(q.capture) /\ p.request = Idle(q.request)
    BY <1>5, GenerationFields DEF Identity
  <2>4. p.capture = None
    BY <1>5, <2>3 DEF Overtaken
  <2>5. /\ p.request.stage = q.request.stage /\ p.request.for = q.request.for
        /\ ~p.request.live /\ p.request.read = q.request.read
        /\ p.request.bearer = q.request.bearer
    BY <1>5, <2>3, RequestFields DEF TabState
  <2> HIDE DEF p
  <2>6. Isolated(p)
    BY <1>3, <1>5, <2>3, <2>5, OvertakenFields DEF Good, Isolated
  <2>7. Quarantined(p) /\ Waiting(p)
    BY <1>3, <1>5, <2>3, <2>4, <2>5 DEF Good, Quarantined, Waiting, Active
  <2>8. Kept(q, p)
    BY <1>5, <2>3, <2>5, OvertakenFields DEF Kept
  <2>9. Kept(m, p)
    BY <1>4, <1>6, <2>8, KeptTransitive
  <2>10. /\ p.request.stage = m.request.stage /\ ~Active(p) /\ p.bridge # "reading"
         /\ ~p.request.read
    BY <1>3, <1>4, <1>5, <2>3, <2>5 DEF Active
  <2> QED
    BY <1>7, <2>1, <2>3, <2>4, <2>6, <2>7, <2>9, <2>10 DEF Good
<1> QED
  BY <1>8, <1>9

LEMMA SubjectGood ==
  ASSUME NEW m, Good(m), NEW s \in Identity
  PROVE  LET n == [m EXCEPT !.subject = Subject(s)] IN
         /\ Good(n) /\ Kept(m, n) /\ n.request = m.request /\ n.out = m.out
         /\ n.shown = m.shown /\ n.capture = m.capture /\ n.recovery = m.recovery
         /\ n.signIn = m.signIn /\ n.bridge = m.bridge
<1> DEFINE n == [m EXCEPT !.subject = Subject(s)]
<1>1. m \in TabState
  BY DEF Good
<1>2. /\ n \in TabState
      /\ n.out = m.out /\ n.shown = m.shown /\ n.bridge = m.bridge /\ n.signIn = m.signIn
      /\ n.refresh = m.refresh /\ n.change = m.change /\ n.recovery = m.recovery
      /\ n.capture = m.capture /\ n.cached = m.cached /\ n.request = m.request
  BY <1>1, SubjectType DEF TabState
<1> HIDE DEF n
<1>3. Good(n) /\ Kept(m, n)
  BY <1>2 DEF Good, Isolated, Quarantined, Waiting, Active, Kept
<1> QED
  BY <1>2, <1>3 DEF n

(* What the recovery controller does about a session or a capture.          *)
LEMMA CaptureGood ==
  ASSUME NEW m, Good(m), NEW status \in {"ready", "submitting", "complete", "expired"},
         NEW c \in Capture \cup {None}, m.out, m.signIn = "none",
         NEW n, n.out = m.out, n.shown = m.shown, n.bridge = m.bridge, n.signIn = m.signIn,
         n.refresh = m.refresh, n.change = m.change, n.recovery = status, n.capture = c,
         n.cached = m.cached, n.request = m.request, n \in TabState
  PROVE  Good(n) /\ Kept(m, n)
BY DEF Good, Isolated, Quarantined, Waiting, Active, Kept

------------------------------------------------------------------------------
(* A step that ends nothing older.                                          *)
Fine == Good(tab') /\ Kept(tab, tab') /\ Signals' /\ Quiet

LEMMA FineStep ==
  ASSUME SessionInv, Fine, older' = older \cap Awaited(tab')
  PROVE  SessionInv' /\ Stands
<1>1. Awaited(tab) \subseteq Awaited(tab')
  BY DEF Fine, Kept, Awaited
<1>2. older' = older
  BY <1>1 DEF SessionInv, Overdue
<1>3. Overdue'
  <2>1. older' \subseteq Awaited(tab')
    OBVIOUS
  <2>2. "read" \in older => ~tab.request.read /\ tab.request.stage = "reading"
    BY DEF SessionInv, Overdue, Awaited
  <2>3. "hydrate" \in older => tab.bridge = "overtaken"
    BY DEF SessionInv, Overdue
  <2> QED
    BY <1>2, <2>1, <2>2, <2>3 DEF Fine, Kept, Overdue
<1> QED
  BY <1>2, <1>3 DEF Fine, SessionInv, Stands

LEMMA RecoveryLinkFine ==
  ASSUME SessionInv, RecoveryLink
  PROVE  Fine
<1> DEFINE c == Cleared(tab, TRUE)
           r == Revised(c)
<1>1. /\ Good(c) /\ Kept(tab, c) /\ c.request.stage = tab.request.stage
      /\ c.out /\ c.signIn = "none"
  BY ClearedGood DEF SessionInv
<1> HIDE DEF c
<1>2. /\ Good(r) /\ Kept(c, r) /\ r.request.stage = c.request.stage
      /\ r.out /\ r.signIn = "none"
  BY <1>1, RevisedGood, RevisedFields DEF Good
<1> HIDE DEF r
<1>3. PICK s \in Identity :
        LET m == [r EXCEPT !.subject = Subject(s)] IN
        \/ /\ s # None
           /\ tab' = [m EXCEPT !.recovery = "ready", !.capture = [session |-> s, live |-> TRUE]]
        \/ tab' = [m EXCEPT !.recovery = "expired"]
  BY DEF RecoveryLink, c, r
<1> DEFINE m == [r EXCEPT !.subject = Subject(s)]
<1>4. /\ Good(m) /\ Kept(r, m) /\ m.request = r.request /\ m.out /\ m.signIn = "none"
  BY <1>2, SubjectGood
<1>5. s # None => [session |-> s, live |-> TRUE] \in Capture
  BY DEF Capture, Identity
<1> HIDE DEF m
<1>6. m \in TabState /\ m.capture \in Capture \cup {None}
  BY <1>4 DEF Good, TabState
<1>7. [m EXCEPT !.recovery = "expired"]
        = [m EXCEPT !.recovery = "expired", !.capture = m.capture]
  BY <1>6 DEF TabState
<1>8. PICK status \in {"ready", "expired"}, d \in Capture \cup {None} :
        tab' = [m EXCEPT !.recovery = status, !.capture = d]
  BY <1>3, <1>5, <1>6, <1>7 DEF m
<1>9. Good(tab') /\ Kept(m, tab') /\ tab'.request = m.request
  <2>1. /\ tab'.out = m.out /\ tab'.shown = m.shown /\ tab'.bridge = m.bridge
        /\ tab'.signIn = m.signIn /\ tab'.refresh = m.refresh /\ tab'.change = m.change
        /\ tab'.recovery = status /\ tab'.capture = d
        /\ tab'.cached = m.cached /\ tab'.request = m.request /\ tab' \in TabState
    BY <1>6, <1>8 DEF TabState
  <2> QED
    BY <1>4, <2>1, CaptureGood
<1>10. Kept(tab, tab')
  BY <1>1, <1>2, <1>4, <1>9, KeptTransitive
<1>11. tab'.request.stage = tab.request.stage
  BY <1>1, <1>2, <1>4, <1>9
<1>12. Signals'
  BY DEF SessionInv, Signals, RecoveryLink
<1> QED
  BY <1>9, <1>10, <1>11, <1>12 DEF Fine, Quiet

LEMMA HearsGood ==
  ASSUME NEW m, Good(m), NEW event, NEW s \in Identity, NEW good
  PROVE  LET n == RecoveryHears(m, event, s, good) IN
         /\ Good(n) /\ Kept(m, n) /\ n.request.stage = m.request.stage /\ n.out = m.out
<1> DEFINE n == RecoveryHears(m, event, s, good)
<1>1. m \in TabState
  BY DEF Good
<1>2. CASE n = m
  BY <1>2 DEF Kept
<1>3. CASE n = Discarded(m, "idle")
  BY <1>1, <1>3, DiscardedGood, DiscardedFields
<1>4. CASE n = Discarded(m, "expired") /\ m.capture # None
  BY <1>1, <1>4, DiscardedGood, DiscardedFields DEF Good, Quarantined
<1>5. CASE n = [m EXCEPT !.capture.session = s] /\ m.capture # None /\ s # None
  <2>1. s \in Sessions /\ m.capture \in Capture
    BY <1>1, <1>5 DEF Identity, TabState
  <2>2. [m.capture EXCEPT !.session = s] \in Capture
    BY <2>1 DEF Capture
  <2>3. /\ n \in TabState
        /\ n.out = m.out /\ n.shown = m.shown /\ n.bridge = m.bridge /\ n.signIn = m.signIn
        /\ n.refresh = m.refresh /\ n.change = m.change /\ n.recovery = m.recovery
        /\ n.cached = m.cached /\ n.request = m.request
    BY <1>1, <1>5, <2>2 DEF TabState
  <2> HIDE DEF n
  <2>4. Good(n) /\ Kept(m, n)
    BY <1>5, <2>3 DEF Good, Isolated, Quarantined, Waiting, Active, Kept
  <2> QED
    BY <2>3, <2>4 DEF n
<1>6. \/ n = m
      \/ n = Discarded(m, "idle")
      \/ n = Discarded(m, "expired") /\ m.capture # None
      \/ n = [m EXCEPT !.capture.session = s] /\ m.capture # None /\ s # None
  BY DEF RecoveryHears
<1> QED
  BY <1>2, <1>3, <1>4, <1>5, <1>6

LEMMA EventFine ==
  ASSUME SessionInv, NEW event, NEW s \in Identity, NEW good, Event(event, s, good)
  PROVE  Fine
<1> DEFINE m == Revised(tab)
           w == [m EXCEPT !.subject = Subject(s)]
           heard == RecoveryHears(w, event, s, good)
<1>1. Good(m) /\ Kept(tab, m) /\ m.request.stage = tab.request.stage
  BY RevisedGood DEF SessionInv
<1>2. \/ tab' = Cleared(m, FALSE)
      \/ tab' = m
      \/ tab' = heard
      \/ tab' = Publish(heard, s, FALSE) /\ (s # None => ~m.out)
  BY DEF Event
<1> HIDE DEF m
<1>3. Good(w) /\ Kept(m, w) /\ w.request = m.request /\ w.out = m.out
  BY <1>1, SubjectGood
<1> HIDE DEF w
<1>4. Good(heard) /\ Kept(w, heard) /\ heard.request.stage = w.request.stage /\ heard.out = w.out
  BY <1>3, HearsGood
<1> HIDE DEF heard
<1>5. Kept(tab, heard) /\ heard.request.stage = tab.request.stage /\ heard.out = m.out
  BY <1>1, <1>3, <1>4, KeptTransitive
<1>6. Good(tab') /\ Kept(tab, tab') /\ tab'.request.stage = tab.request.stage
  <2>1. CASE tab' = Cleared(m, FALSE)
    <3>1. Good(tab') /\ Kept(m, tab') /\ tab'.request.stage = m.request.stage
      BY <1>1, <2>1, ClearedGood
    <3> QED
      BY <1>1, <3>1, KeptTransitive
  <2>2. CASE tab' = m
    BY <1>1, <2>2
  <2>3. CASE tab' = heard
    BY <1>4, <1>5, <2>3
  <2>4. CASE tab' = Publish(heard, s, FALSE) /\ (s # None => ~m.out)
    <3>1. Good(tab') /\ Kept(heard, tab') /\ tab'.request.stage = heard.request.stage
      BY <1>4, <1>5, <2>4, PublishGood
    <3> QED
      BY <1>5, <3>1, KeptTransitive
  <2> QED
    BY <1>2, <2>1, <2>2, <2>3, <2>4
<1>7. Signals'
  BY DEF SessionInv, Signals, Event
<1> QED
  BY <1>6, <1>7 DEF Fine, Quiet

LEMMA NoticeFine ==
  ASSUME SessionInv, Notice
  PROVE  Fine
<1>1. Signals'
  BY DEF SessionInv, Signals, Notice
<1>2. CASE tab.out
  BY <1>1, <1>2 DEF Fine, Quiet, SessionInv, Notice, Kept
<1>3. CASE ~tab.out
  <2>1. tab' = Cleared(tab, FALSE)
    BY <1>3 DEF Notice
  <2> QED
    BY <1>1, <2>1, ClearedGood DEF Fine, Quiet, SessionInv
<1> QED
  BY <1>2, <1>3

LEMMA ElsewhereFine ==
  ASSUME SessionInv, Elsewhere
  PROVE  Fine
BY DEF Fine, Quiet, Kept, Signals, SessionInv, Elsewhere

LEMMA SignInFine ==
  ASSUME SessionInv, SignIn
  PROVE  Fine
<1> DEFINE d == Discarded(tab, "idle")
           a == NextAction(d)
<1>1. /\ Good(d) /\ Kept(tab, d) /\ d.request.stage = tab.request.stage
      /\ d.recovery = "idle" /\ d.bridge = "ready"
  BY DiscardedGood, DiscardedFields DEF SessionInv, SignIn, Good
<1> HIDE DEF d
<1>2. /\ Good(a) /\ Kept(d, a) /\ a.request.stage = d.request.stage
      /\ a.recovery = "idle" /\ a.bridge = "ready"
  BY <1>1, ActionGood, ActionFields DEF Good
<1> HIDE DEF a
<1>3. tab' = [a EXCEPT !.signIn = "asked", !.waits = FALSE]
  BY DEF SignIn, a, d
<1>4. /\ tab' \in TabState
      /\ tab'.out = a.out /\ tab'.shown = a.shown /\ tab'.bridge = a.bridge
      /\ tab'.refresh = a.refresh /\ tab'.change = a.change /\ tab'.recovery = a.recovery
      /\ tab'.capture = a.capture /\ tab'.cached = a.cached /\ tab'.request = a.request
  BY <1>2, <1>3 DEF Good, TabState
<1>5. Good(tab') /\ Kept(a, tab')
  BY <1>2, <1>4 DEF Good, Isolated, Quarantined, Waiting, Active, Kept
<1>6. Kept(tab, tab')
  BY <1>1, <1>2, <1>5, KeptTransitive
<1>7. Signals'
  BY DEF SessionInv, Signals, SignIn
<1> QED
  BY <1>1, <1>2, <1>4, <1>5, <1>6, <1>7 DEF Fine, Quiet

LEMMA SignInRefusedFine ==
  ASSUME SessionInv, SignInRefused
  PROVE  Fine
<1>1. /\ tab' \in TabState
      /\ tab'.out = tab.out /\ tab'.shown = tab.shown /\ tab'.bridge = tab.bridge
      /\ tab'.refresh = tab.refresh /\ tab'.change = tab.change
      /\ tab'.recovery = tab.recovery /\ tab'.signIn = "none"
      /\ tab'.capture = tab.capture /\ tab'.cached = tab.cached /\ tab'.request = tab.request
  BY DEF SessionInv, SignInRefused, Good, TabState
<1>2. Good(tab') /\ Kept(tab, tab')
  BY <1>1 DEF SessionInv, Good, Isolated, Quarantined, Waiting, Active, Kept
<1> QED
  BY <1>1, <1>2 DEF Fine, Quiet, SessionInv, Signals, SignInRefused

LEMMA SignOutFine ==
  ASSUME SessionInv, SignOut
  PROVE  Fine
<1> DEFINE c == Cleared(tab, FALSE)
<1>1. Good(c) /\ Kept(tab, c) /\ c.request.stage = tab.request.stage
  BY ClearedGood DEF SessionInv
<1>2. tab' = [c EXCEPT !.logout = TRUE]
  BY DEF SignOut
<1> HIDE DEF c
<1>3. /\ tab' \in TabState
      /\ tab'.out = c.out /\ tab'.shown = c.shown /\ tab'.bridge = c.bridge
      /\ tab'.refresh = c.refresh /\ tab'.change = c.change
      /\ tab'.recovery = c.recovery /\ tab'.signIn = c.signIn
      /\ tab'.capture = c.capture /\ tab'.cached = c.cached /\ tab'.request = c.request
  BY <1>1, <1>2 DEF Good, TabState
<1>4. Good(tab') /\ Kept(c, tab')
  BY <1>1, <1>3 DEF Good, Isolated, Quarantined, Waiting, Active, Kept
<1>5. Kept(tab, tab')
  BY <1>1, <1>4, KeptTransitive
<1> QED
  BY <1>1, <1>3, <1>4, <1>5 DEF Fine, Quiet, SessionInv, Signals, SignOut

(* Steps that touch neither the session nor what is awaited.                *)
LEMMA AsideFine ==
  ASSUME SessionInv,
         tab' \in TabState,
         tab'.out = tab.out, tab'.shown = tab.shown, tab'.bridge = tab.bridge,
         tab'.recovery = tab.recovery, tab'.signIn = tab.signIn, tab'.capture = tab.capture,
         tab'.cached = tab.cached, tab'.request = tab.request,
         tab'.refresh # None => (tab'.refresh.live => Subject(tab.shown) = tab'.refresh.user),
         tab'.change # None => (tab'.change.live => Subject(tab.shown) = tab'.change.user),
         tab.refresh # None => tab'.refresh # None,
         UNCHANGED <<intent, notice, ended>>
  PROVE  Fine
<1>1. Good(tab') /\ Kept(tab, tab')
  BY DEF SessionInv, Good, Isolated, Quarantined, Waiting, Active, Kept
<1> QED
  BY <1>1 DEF Fine, Quiet, SessionInv, Signals

LEMMA AwaitBridgeFine ==
  ASSUME SessionInv, AwaitBridge
  PROVE  Fine
<1>1. tab \in TabState /\ Isolated(tab)
  BY DEF SessionInv, Good
<1>2. /\ tab' \in TabState
      /\ tab'.out = tab.out /\ tab'.shown = tab.shown /\ tab'.bridge = tab.bridge
      /\ tab'.refresh = tab.refresh /\ tab'.change = tab.change
      /\ tab'.recovery = tab.recovery /\ tab'.signIn = tab.signIn
      /\ tab'.capture = tab.capture /\ tab'.cached = tab.cached /\ tab'.request = tab.request
  BY <1>1 DEF AwaitBridge, TabState
<1> QED
  BY <1>1, <1>2, AsideFine DEF AwaitBridge, Isolated

LEMMA SignOutAnswersFine ==
  ASSUME SessionInv, SignOutAnswers
  PROVE  Fine
<1>1. tab \in TabState /\ Isolated(tab)
  BY DEF SessionInv, Good
<1>2. /\ tab' \in TabState
      /\ tab'.out = tab.out /\ tab'.shown = tab.shown /\ tab'.bridge = tab.bridge
      /\ tab'.refresh = tab.refresh /\ tab'.change = tab.change
      /\ tab'.recovery = tab.recovery /\ tab'.signIn = tab.signIn
      /\ tab'.capture = tab.capture /\ tab'.cached = tab.cached /\ tab'.request = tab.request
  BY <1>1 DEF SignOutAnswers, TabState
<1> QED
  BY <1>1, <1>2, AsideFine DEF SignOutAnswers, Isolated

LEMMA ExitRecoveryFine ==
  ASSUME SessionInv, ExitRecovery
  PROVE  Fine
<1>1. tab' = Cleared(tab, FALSE)
  BY DEF ExitRecovery
<1> QED
  BY <1>1, ClearedGood DEF Fine, Quiet, SessionInv, Signals, ExitRecovery

LEMMA ForceRefreshFine ==
  ASSUME SessionInv, ForceRefresh
  PROVE  Fine
<1> DEFINE r == [user |-> UserOf[tab.shown], live |-> TRUE]
<1>1. tab \in TabState /\ Isolated(tab)
  BY DEF SessionInv, Good
<1>2. tab.shown # None /\ tab.shown \in Identity /\ tab.refresh = None
  BY <1>1 DEF ForceRefresh, TabState
<1>3. r \in Refresh /\ r.live /\ r.user = Subject(tab.shown)
  BY <1>2, SubjectType DEF Refresh
<1>4. tab' = [tab EXCEPT !.refresh = r]
  BY DEF ForceRefresh
<1> HIDE DEF r
<1>5. /\ tab' \in TabState
      /\ tab'.out = tab.out /\ tab'.shown = tab.shown /\ tab'.bridge = tab.bridge
      /\ tab'.refresh = r /\ tab'.change = tab.change
      /\ tab'.recovery = tab.recovery /\ tab'.signIn = tab.signIn
      /\ tab'.capture = tab.capture /\ tab'.cached = tab.cached /\ tab'.request = tab.request
  BY <1>1, <1>3, <1>4 DEF TabState
<1> QED
  BY <1>1, <1>2, <1>3, <1>5, AsideFine DEF ForceRefresh, Isolated

LEMMA ChangePasswordFine ==
  ASSUME SessionInv, ChangePassword
  PROVE  Fine
<1> DEFINE c == [user |-> UserOf[tab.shown], live |-> TRUE]
<1>1. tab \in TabState /\ Isolated(tab)
  BY DEF SessionInv, Good
<1>2. tab.shown # None /\ tab.shown \in Identity
  BY <1>1 DEF ChangePassword, MayChange, TabState
<1>3. c \in Change /\ c.live /\ c.user = Subject(tab.shown)
  BY <1>2, SubjectType DEF Change
<1>4. tab' = [tab EXCEPT !.change = c]
  BY DEF ChangePassword
<1> HIDE DEF c
<1>5. /\ tab' \in TabState
      /\ tab'.out = tab.out /\ tab'.shown = tab.shown /\ tab'.bridge = tab.bridge
      /\ tab'.refresh = tab.refresh /\ tab'.change = c
      /\ tab'.recovery = tab.recovery /\ tab'.signIn = tab.signIn
      /\ tab'.capture = tab.capture /\ tab'.cached = tab.cached /\ tab'.request = tab.request
  BY <1>1, <1>3, <1>4 DEF TabState
<1> QED
  BY <1>1, <1>3, <1>5, AsideFine DEF ChangePassword, Isolated

LEMMA ChangeAnswersFine ==
  ASSUME SessionInv, ChangeAnswers
  PROVE  Fine
<1>1. tab \in TabState /\ Isolated(tab)
  BY DEF SessionInv, Good
<1>2. /\ tab' \in TabState
      /\ tab'.out = tab.out /\ tab'.shown = tab.shown /\ tab'.bridge = tab.bridge
      /\ tab'.refresh = tab.refresh /\ tab'.change = None
      /\ tab'.recovery = tab.recovery /\ tab'.signIn = tab.signIn
      /\ tab'.capture = tab.capture /\ tab'.cached = tab.cached /\ tab'.request = tab.request
  BY <1>1 DEF ChangeAnswers, TabState
<1> QED
  BY <1>1, <1>2, AsideFine DEF ChangeAnswers, Isolated

------------------------------------------------------------------------------
(* Recovery of a password.                                                  *)
LEMMA RecoveryStatusFine ==
  ASSUME SessionInv, Active(tab), NEW status \in {"submitting", "complete", "ready"},
         tab' = [tab EXCEPT !.recovery = status], UNCHANGED <<intent, notice, ended>>
  PROVE  Fine
<1>1. tab \in TabState /\ tab.out /\ tab.signIn = "none" /\ Good(tab)
  BY DEF SessionInv, Good, Quarantined, Waiting
<1>2. /\ tab'.out = tab.out /\ tab'.shown = tab.shown /\ tab'.bridge = tab.bridge
      /\ tab'.signIn = tab.signIn /\ tab'.refresh = tab.refresh /\ tab'.change = tab.change
      /\ tab'.recovery = status /\ tab'.capture = tab.capture
      /\ tab'.cached = tab.cached /\ tab'.request = tab.request /\ tab' \in TabState
      /\ tab.capture \in Capture \cup {None}
  BY <1>1 DEF TabState
<1>3. Good(tab') /\ Kept(tab, tab')
  BY <1>1, <1>2, CaptureGood
<1> QED
  BY <1>2, <1>3 DEF Fine, Quiet, SessionInv, Signals

LEMMA RecoveryOverFine ==
  ASSUME SessionInv, NEW status \in {"idle", "expired"}, Active(tab),
         tab' = Discarded(tab, status), UNCHANGED <<intent, notice, ended>>
  PROVE  Fine
BY DiscardedGood DEF Fine, Quiet, SessionInv, Signals

LEMMA SubmitRecoveryFine ==
  ASSUME SessionInv, SubmitRecovery
  PROVE  Fine
<1>1. Active(tab) /\ UNCHANGED <<intent, notice, ended>>
  BY DEF SubmitRecovery, Active
<1>2. CASE tab' = [tab EXCEPT !.recovery = "submitting"]
  BY <1>1, <1>2, RecoveryStatusFine
<1>3. CASE \E status \in {"idle", "expired"} : tab' = Discarded(tab, status)
  BY <1>1, <1>3, RecoveryOverFine
<1> QED
  BY <1>2, <1>3 DEF SubmitRecovery

LEMMA SubmitAnswersFine ==
  ASSUME SessionInv, SubmitAnswers
  PROVE  Fine
<1>1. Active(tab) /\ UNCHANGED <<intent, notice, ended>>
  BY DEF SubmitAnswers, Active
<1>2. CASE \E status \in {"complete", "ready"} : tab' = [tab EXCEPT !.recovery = status]
  <2>1. PICK status \in {"complete", "ready"} : tab' = [tab EXCEPT !.recovery = status]
    BY <1>2
  <2> QED
    BY <1>1, <2>1, RecoveryStatusFine
<1>3. CASE \E status \in {"idle", "expired"} : tab' = Discarded(tab, status)
  BY <1>1, <1>3, RecoveryOverFine
<1> QED
  BY <1>2, <1>3 DEF SubmitAnswers

------------------------------------------------------------------------------
(* Requests.                                                                *)

(* A tab whose request alone was replaced.                                  *)
LEMMA RequestGood ==
  ASSUME NEW m, Good(m), NEW n, NEW r \in Request, n \in TabState,
         n.out = m.out, n.shown = m.shown, n.bridge = m.bridge, n.signIn = m.signIn,
         n.refresh = m.refresh, n.change = m.change, n.recovery = m.recovery,
         n.capture = m.capture, n.cached = m.cached, n.request = r,
         r.live => r.for = m.shown,
         r.stage = "sent" => r.bearer \in {r.for, None},
         r.read => r.stage = "reading"
  PROVE  Good(n)
BY DEF Good, Isolated, Quarantined, Waiting, Active

LEMMA NoRequestType ==
  NoRequest \in Request /\ ~NoRequest.live /\ NoRequest.stage = "none" /\ ~NoRequest.read
BY DEF NoRequest, Request, Identity

LEMMA SendingGood ==
  ASSUME NEW m, Good(m), NEW bearer \in Identity,
         m.request.live => bearer \in {m.request.for, None}
  PROVE  LET n == Sending(m, bearer) IN
         /\ Good(n) /\ n.shown = m.shown /\ n.bridge = m.bridge /\ n.refresh = m.refresh
         /\ ~n.request.read
         /\ n.request.stage \in {"none", "sent"}
         /\ n.request.stage = "sent" => n.request.bearer = bearer
<1> DEFINE n == Sending(m, bearer)
<1>1. m \in TabState /\ m.request \in Request
  BY DEF Good, TabState
<1>2. CASE m.request.live
  <2> DEFINE r == [m.request EXCEPT !.stage = "sent", !.bearer = bearer, !.read = FALSE]
  <2>1. /\ r \in Request /\ r.stage = "sent" /\ r.bearer = bearer /\ ~r.read
        /\ r.live = m.request.live /\ r.for = m.request.for
    BY <1>1 DEF Request
  <2>2. n = [m EXCEPT !.request = r]
    BY <1>2 DEF Sending
  <2> HIDE DEF r
  <2>3. n.request = r
    BY <1>1, <2>2 DEF TabState
  <2>4. /\ n.out = m.out /\ n.shown = m.shown /\ n.bridge = m.bridge /\ n.signIn = m.signIn
        /\ n.refresh = m.refresh /\ n.change = m.change /\ n.recovery = m.recovery
        /\ n.capture = m.capture /\ n.cached = m.cached
    BY <1>1, <2>2 DEF TabState
  <2>5. n \in TabState
    BY <1>1, <2>1, <2>2 DEF TabState
  <2> HIDE DEF n
  <2>6. r.for = m.shown /\ r.bearer \in {r.for, None}
    BY <1>2, <2>1 DEF Good, Isolated
  <2>7. Good(n)
    BY <2>1, <2>3, <2>4, <2>5, <2>6, RequestGood
  <2> QED
    BY <2>1, <2>3, <2>4, <2>7 DEF n
<1>3. CASE ~m.request.live
  <2>1. n = [m EXCEPT !.request = NoRequest]
    BY <1>3 DEF Sending
  <2>2. /\ n \in TabState
        /\ n.out = m.out /\ n.shown = m.shown /\ n.bridge = m.bridge /\ n.signIn = m.signIn
        /\ n.refresh = m.refresh /\ n.change = m.change /\ n.recovery = m.recovery
        /\ n.capture = m.capture /\ n.cached = m.cached /\ n.request = NoRequest
    BY <1>1, <2>1, NoRequestType DEF TabState
  <2> HIDE DEF n
  <2>3. Good(n)
    BY <2>2, NoRequestType, RequestGood
  <2> QED
    BY <2>2, <2>3, NoRequestType DEF n
<1> QED
  BY <1>2, <1>3

LEMMA DispatchFine ==
  ASSUME SessionInv, Dispatch
  PROVE  Fine
<1> DEFINE r == [stage |-> "queued", for |-> tab.shown, live |-> TRUE, read |-> FALSE,
                 bearer |-> None]
<1>1. tab \in TabState /\ Good(tab) /\ tab' = [tab EXCEPT !.request = r]
  BY DEF SessionInv, Good, Dispatch
<1>2. r \in Request /\ r.live /\ r.for = tab.shown /\ r.stage = "queued" /\ ~r.read
  BY <1>1 DEF Request, TabState, Identity
<1> HIDE DEF r
<1>3. /\ tab' \in TabState
      /\ tab'.out = tab.out /\ tab'.shown = tab.shown /\ tab'.bridge = tab.bridge
      /\ tab'.signIn = tab.signIn /\ tab'.refresh = tab.refresh /\ tab'.change = tab.change
      /\ tab'.recovery = tab.recovery /\ tab'.capture = tab.capture
      /\ tab'.cached = tab.cached /\ tab'.request = r
  BY <1>1, <1>2 DEF TabState
<1>4. Good(tab')
  BY <1>1, <1>2, <1>3, RequestGood
<1>5. Kept(tab, tab')
  BY <1>3 DEF Kept, Dispatch
<1> QED
  BY <1>2, <1>3, <1>4, <1>5 DEF Fine, Quiet, SessionInv, Signals, Dispatch

LEMMA AnsweredFine ==
  ASSUME SessionInv, Answered
  PROVE  Fine
<1>1. tab \in TabState /\ Good(tab) /\ tab.request \in Request
  BY DEF SessionInv, Good, TabState
<1>2. PICK kept \in {{}, {tab.request.bearer}} :
        /\ kept # {} => tab.request.live
        /\ tab' = [tab EXCEPT !.request = NoRequest, !.cached = @ \cup kept]
  BY DEF Answered
<1>3. kept \subseteq {tab.shown, None} /\ kept \subseteq Identity
  BY <1>1, <1>2 DEF Good, Isolated, Answered, TabState, Request, Identity
<1>4. /\ tab' \in TabState
      /\ tab'.out = tab.out /\ tab'.shown = tab.shown /\ tab'.bridge = tab.bridge
      /\ tab'.signIn = tab.signIn /\ tab'.refresh = tab.refresh /\ tab'.change = tab.change
      /\ tab'.recovery = tab.recovery /\ tab'.capture = tab.capture
      /\ tab'.cached = tab.cached \cup kept /\ tab'.request = NoRequest
  BY <1>1, <1>2, <1>3, NoRequestType DEF TabState
<1>5. Good(tab')
  BY <1>1, <1>3, <1>4, NoRequestType DEF Good, Isolated, Quarantined, Waiting, Active
<1>6. Kept(tab, tab')
  BY <1>4 DEF Kept, Answered
<1> QED
  BY <1>4, <1>5, <1>6, NoRequestType DEF Fine, Quiet, SessionInv, Signals, Answered

LEMMA BuildHeadersFine ==
  ASSUME SessionInv, BuildHeaders
  PROVE  Fine
<1>1. /\ Good(tab) /\ tab \in TabState /\ tab.request \in Request
      /\ tab.request.stage = "queued" /\ Signals'
  BY DEF SessionInv, Good, TabState, BuildHeaders, Signals
<1>2. CASE tab' = [tab EXCEPT !.request = NoRequest]
  <2>1. /\ tab' \in TabState
        /\ tab'.out = tab.out /\ tab'.shown = tab.shown /\ tab'.bridge = tab.bridge
        /\ tab'.signIn = tab.signIn /\ tab'.refresh = tab.refresh /\ tab'.change = tab.change
        /\ tab'.recovery = tab.recovery /\ tab'.capture = tab.capture
        /\ tab'.cached = tab.cached /\ tab'.request = NoRequest
    BY <1>1, <1>2, NoRequestType DEF TabState
  <2>2. Good(tab')
    BY <1>1, <2>1, NoRequestType, RequestGood
  <2> QED
    BY <1>1, <2>1, <2>2, NoRequestType DEF Fine, Quiet, Kept
<1>3. CASE tab' = Sending(Cleared(tab, FALSE), None)
  <2> DEFINE c == Cleared(tab, FALSE)
  <2>1. Good(c) /\ Kept(tab, c) /\ tab' = Sending(c, None)
    BY <1>1, <1>3, ClearedGood
  <2> HIDE DEF c
  <2>2. /\ Good(tab') /\ tab'.bridge = c.bridge /\ tab'.refresh = c.refresh
        /\ tab'.request.stage = "sent" => tab'.request.bearer = None
    BY <2>1, SendingGood DEF Identity
  <2> QED
    BY <1>1, <2>1, <2>2 DEF Fine, Quiet, Kept
<1>4. CASE tab' = Sending(tab, None)
  <2>1. /\ Good(tab') /\ tab'.bridge = tab.bridge /\ tab'.refresh = tab.refresh
        /\ tab'.request.stage = "sent" => tab'.request.bearer = None
    BY <1>1, <1>4, SendingGood DEF Identity
  <2> QED
    BY <1>1, <2>1 DEF Fine, Quiet, Kept
<1>5. CASE ~intent /\ tab.request.live /\ tab' = Sending(tab, tab.shown)
  <2>1. tab.shown \in Identity /\ tab.request.for = tab.shown
    BY <1>1, <1>5 DEF Good, Isolated, TabState
  <2>2. Good(tab') /\ tab'.bridge = tab.bridge /\ tab'.refresh = tab.refresh
    BY <1>1, <1>5, <2>1, SendingGood
  <2>3. ~ended
    BY <1>5 DEF SessionInv, Signals
  <2> QED
    BY <1>1, <2>2, <2>3 DEF Fine, Quiet, Kept
<1>6. CASE tab' = [tab EXCEPT !.request = [@ EXCEPT !.stage = "reading", !.read = TRUE]]
  <2> DEFINE r == [tab.request EXCEPT !.stage = "reading", !.read = TRUE]
  <2>1. /\ r \in Request /\ r.stage = "reading" /\ r.live = tab.request.live
        /\ r.for = tab.request.for
    BY <1>1 DEF Request
  <2>2. tab' = [tab EXCEPT !.request = r]
    BY <1>6
  <2> HIDE DEF r
  <2>3. /\ tab' \in TabState
        /\ tab'.out = tab.out /\ tab'.shown = tab.shown /\ tab'.bridge = tab.bridge
        /\ tab'.signIn = tab.signIn /\ tab'.refresh = tab.refresh /\ tab'.change = tab.change
        /\ tab'.recovery = tab.recovery /\ tab'.capture = tab.capture
        /\ tab'.cached = tab.cached /\ tab'.request = r
    BY <1>1, <2>1, <2>2 DEF TabState
  <2>4. r.live => r.for = tab.shown
    BY <1>1, <2>1 DEF Good, Isolated
  <2>5. Good(tab')
    BY <1>1, <2>1, <2>3, <2>4, RequestGood
  <2> QED
    BY <1>1, <2>1, <2>3, <2>5 DEF Fine, Quiet, Kept
<1> QED
  BY <1>2, <1>3, <1>4, <1>5, <1>6 DEF BuildHeaders

------------------------------------------------------------------------------
(* The steps that end what was awaited.                                     *)
LEMMA TokenReadStep ==
  ASSUME SessionInv, TokenRead, older' = older \cap Awaited(tab')
  PROVE  SessionInv' /\ Stands /\ Quiet
<1>1. Good(tab) /\ tab \in TabState
  BY DEF SessionInv, Good
<1>2. PICK s \in Identity :
        LET n == IF tab.request.read /\ ~tab.out /\ ~intent THEN Publish(tab, s, FALSE) ELSE tab IN
        tab' = Sending(n, Bearer(n))
  BY DEF TokenRead
<1> DEFINE n == IF tab.request.read /\ ~tab.out /\ ~intent THEN Publish(tab, s, FALSE) ELSE tab
<1>3. Good(n) /\ Kept(tab, n) /\ (~tab.request.read => n = tab)
  <2>1. CASE tab.request.read /\ ~tab.out /\ ~intent
    <3>1. n = Publish(tab, s, FALSE)
      BY <2>1
    <3> HIDE DEF n
    <3> QED
      BY <1>1, <2>1, <3>1, PublishGood
  <2>2. CASE ~(tab.request.read /\ ~tab.out /\ ~intent)
    <3>1. n = tab
      BY <2>2
    <3> HIDE DEF n
    <3> QED
      BY <1>1, <3>1 DEF Kept
  <2> QED
    BY <2>1, <2>2
<1> HIDE DEF n
<1>4. /\ Bearer(n) \in Identity
      /\ intent => Bearer(n) = None
      /\ n.request.live => Bearer(n) \in {n.request.for, None}
  BY <1>3 DEF Bearer, Good, TabState, Identity, Isolated
<1>5. tab' = Sending(n, Bearer(n))
  BY <1>2 DEF n
<1>6. /\ Good(tab') /\ tab'.shown = n.shown /\ tab'.bridge = n.bridge
      /\ tab'.refresh = n.refresh /\ tab'.request.stage \in {"none", "sent"}
      /\ tab'.request.stage = "sent" => tab'.request.bearer = Bearer(n)
  BY <1>3, <1>4, <1>5, SendingGood
<1>7. Signals'
  BY DEF SessionInv, Signals, TokenRead
<1>8. "read" \notin older'
  BY <1>6 DEF Awaited
<1>9. \A w \in {"hydrate", "refresh"} : w \in older => w \in older'
  BY <1>3, <1>6 DEF SessionInv, Overdue, Awaited, Kept
<1>10. Overdue'
  <2>1. older' \subseteq Awaited(tab') /\ ("hydrate" \in older' => "hydrate" \in older)
    OBVIOUS
  <2> QED
    BY <1>3, <1>6, <1>8, <2>1 DEF SessionInv, Overdue, Kept
<1>11. Stands
  <2>1. CASE "read" \in older
    BY <1>3, <1>6, <2>1 DEF SessionInv, Overdue, Stands
  <2>2. CASE "read" \notin older
    BY <1>9, <2>2 DEF SessionInv, Overdue, Awaited, Stands
  <2> QED
    BY <2>1, <2>2
<1>12. Quiet
  BY <1>4, <1>6 DEF SessionInv, Signals, Quiet
<1> QED
  BY <1>6, <1>7, <1>10, <1>11, <1>12 DEF SessionInv

LEMMA HydrateStep ==
  ASSUME SessionInv, Hydrate, older' = older \cap Awaited(tab')
  PROVE  SessionInv' /\ Stands /\ Quiet
<1> DEFINE m == [tab EXCEPT !.bridge = "ready"]
<1>1. Good(tab) /\ tab \in TabState /\ tab.bridge # "ready"
  BY DEF SessionInv, Good, Hydrate
<1>2. /\ m \in TabState
      /\ m.out = tab.out /\ m.shown = tab.shown /\ m.bridge = "ready" /\ m.signIn = tab.signIn
      /\ m.refresh = tab.refresh /\ m.change = tab.change /\ m.recovery = tab.recovery
      /\ m.capture = tab.capture /\ m.cached = tab.cached /\ m.request = tab.request
  BY <1>1 DEF TabState
<1>3. \/ tab' = m
      \/ /\ tab.bridge # "overtaken" /\ ~m.out
         /\ \E s \in Identity : tab' = Publish([m EXCEPT !.subject = Subject(s)], s, FALSE)
  BY DEF Hydrate
<1> HIDE DEF m
<1>4. Good(m)
  BY <1>1, <1>2 DEF Good, Isolated, Quarantined, Waiting, Active
<1>5. /\ Good(tab') /\ Kept(m, tab') /\ tab'.request.stage = m.request.stage
      /\ tab'.request.read = m.request.read /\ tab'.bridge = "ready"
      /\ tab.bridge = "overtaken" => tab' = m
  <2>1. CASE tab' = m
    BY <1>2, <1>4, <2>1 DEF Kept
  <2>2. CASE /\ tab.bridge # "overtaken" /\ ~m.out
             /\ \E s \in Identity : tab' = Publish([m EXCEPT !.subject = Subject(s)], s, FALSE)
    <3>1. PICK s \in Identity : tab' = Publish([m EXCEPT !.subject = Subject(s)], s, FALSE)
      BY <2>2
    <3> DEFINE w == [m EXCEPT !.subject = Subject(s)]
    <3>2. Good(w) /\ Kept(m, w) /\ w.request = m.request /\ w.out = m.out
          /\ w.bridge = "ready"
      BY <1>2, <1>4, SubjectGood
    <3> HIDE DEF w
    <3>3. /\ Good(tab') /\ Kept(w, tab') /\ tab'.request.stage = w.request.stage
          /\ tab'.request.read = w.request.read /\ tab'.bridge = w.bridge
      BY <2>2, <3>1, <3>2, PublishGood DEF w
    <3> QED
      BY <2>2, <3>2, <3>3, KeptTransitive
  <2> QED
    BY <1>3, <2>1, <2>2
<1>6. Signals'
  BY DEF SessionInv, Signals, Hydrate
<1>7. \A w \in {"read", "refresh"} : w \in older => w \in older'
  BY <1>2, <1>5 DEF SessionInv, Overdue, Awaited, Kept
<1>8. Overdue'
  <2>1. "hydrate" \notin older' /\ older' \subseteq Awaited(tab')
    BY <1>5 DEF Awaited
  <2>2. "read" \in older' => ~tab.request.read
    BY DEF SessionInv, Overdue
  <2> QED
    BY <1>2, <1>5, <2>1, <2>2 DEF Overdue
<1>9. Stands
  <2>1. CASE "hydrate" \in older
    BY <1>2, <1>5, <2>1 DEF SessionInv, Overdue, Stands
  <2>2. CASE "hydrate" \notin older
    BY <1>7, <2>2 DEF SessionInv, Overdue, Awaited, Stands
  <2> QED
    BY <2>1, <2>2
<1> QED
  BY <1>2, <1>5, <1>6, <1>8, <1>9 DEF SessionInv, Quiet

LEMMA RefreshAnswersStep ==
  ASSUME SessionInv, RefreshAnswers, older' = older \cap Awaited(tab')
  PROVE  SessionInv' /\ Stands /\ Quiet
<1> DEFINE m == [tab EXCEPT !.refresh = None]
           r == Revised(m)
<1>1. Good(tab) /\ tab \in TabState
  BY DEF SessionInv, Good
<1>2. /\ m \in TabState
      /\ m.out = tab.out /\ m.shown = tab.shown /\ m.bridge = tab.bridge
      /\ m.signIn = tab.signIn /\ m.refresh = None /\ m.change = tab.change
      /\ m.recovery = tab.recovery /\ m.capture = tab.capture /\ m.cached = tab.cached
      /\ m.request = tab.request
  BY <1>1 DEF TabState
<1>3. \/ tab' = m
      \/ /\ RefreshCurrent(tab)
         /\ \E s \in Sessions : UserOf[s] = tab.refresh.user /\ tab' = Publish(r, s, FALSE)
  BY DEF RefreshAnswers
<1> HIDE DEF m
<1>4. Good(m)
  BY <1>1, <1>2 DEF Good, Isolated, Quarantined, Waiting, Active
<1>5. /\ Good(r) /\ Kept(m, r) /\ r.request.stage = m.request.stage /\ r.out = m.out
  BY <1>4, RevisedGood, RevisedFields DEF Good
<1> HIDE DEF r
<1>6. /\ Good(tab') /\ Kept(m, tab') /\ tab'.request.stage = tab.request.stage
      /\ Subject(tab'.shown) = Subject(tab.shown)
  <2>1. CASE tab' = m
    BY <1>2, <1>4, <2>1 DEF Kept
  <2>2. CASE /\ RefreshCurrent(tab)
             /\ \E s \in Sessions : UserOf[s] = tab.refresh.user /\ tab' = Publish(r, s, FALSE)
    <3>1. PICK s \in Sessions : UserOf[s] = tab.refresh.user /\ tab' = Publish(r, s, FALSE)
      BY <2>2
    <3>2. s \in Identity /\ s # None /\ Subject(s) = Subject(tab.shown) /\ ~tab.out
      BY <2>2, <3>1, SessionAssumption DEF Identity, Subject, RefreshCurrent
    <3>3. /\ Good(tab') /\ Kept(r, tab') /\ tab'.request.stage = r.request.stage
          /\ tab'.shown = s
      BY <1>2, <1>5, <3>1, <3>2, PublishGood
    <3> QED
      BY <1>2, <1>5, <3>2, <3>3, KeptTransitive
  <2> QED
    BY <1>3, <2>1, <2>2
<1>7. Signals'
  BY DEF SessionInv, Signals, RefreshAnswers
<1>8. Overdue'
  <2>1. older' \subseteq Awaited(tab') /\ older' \subseteq older
    OBVIOUS
  <2> QED
    BY <1>2, <1>6, <2>1 DEF SessionInv, Overdue, Kept, Awaited
<1> QED
  BY <1>6, <1>7, <1>8 DEF SessionInv, Stands, Quiet

LEMMA SignedInStep ==
  ASSUME SessionInv, SignedIn, older' = Awaited(tab)
  PROVE  SessionInv' /\ Stands /\ Quiet
<1> DEFINE r == Revised(tab)
<1>1. Good(tab) /\ tab.bridge = "ready" /\ ~Active(tab)
  BY DEF SessionInv, Good, Waiting, SignedIn
<1>2. /\ Good(r) /\ Kept(tab, r) /\ r.request.stage = tab.request.stage /\ ~r.request.read
      /\ r.bridge = "ready" /\ r.recovery = tab.recovery /\ r.refresh = tab.refresh
  BY <1>1, RevisedGood, RevisedFields DEF Good
<1>3. PICK s \in Sessions :
        tab' = Publish([r EXCEPT !.signIn = "none", !.out = FALSE, !.subject = UserOf[s]],
                       s, FALSE)
  BY DEF SignedIn
<1> HIDE DEF r
<1> DEFINE w == [r EXCEPT !.signIn = "none", !.out = FALSE, !.subject = UserOf[s]]
<1>4. /\ w \in TabState
      /\ ~w.out /\ w.shown = r.shown /\ w.bridge = r.bridge /\ w.signIn = "none"
      /\ w.refresh = r.refresh /\ w.change = r.change /\ w.recovery = r.recovery
      /\ w.capture = r.capture /\ w.cached = r.cached /\ w.request = r.request
  BY <1>2, SessionAssumption DEF Good, TabState
<1>0. tab' = Publish(w, s, FALSE) /\ s \in Identity
  BY <1>3 DEF Identity
<1> HIDE DEF w
<1>5. Good(w) /\ Kept(r, w)
  BY <1>1, <1>2, <1>4 DEF Good, Isolated, Quarantined, Waiting, Active, Kept
<1>6. /\ Good(tab') /\ Kept(w, tab') /\ tab'.request.stage = w.request.stage
      /\ tab'.request.read = w.request.read
  BY <1>0, <1>4, <1>5, PublishGood
<1>7. Kept(tab, tab')
  BY <1>2, <1>5, <1>6, KeptTransitive
<1>8. Overdue'
  BY <1>1, <1>2, <1>4, <1>6, <1>7 DEF Overdue, Awaited, Kept
<1>9. Signals'
  BY DEF SessionInv, Signals, SignedIn
<1> QED
  BY <1>2, <1>4, <1>6, <1>8, <1>9 DEF SessionInv, Overdue, Stands, Quiet

LEMMA ReloadStep ==
  ASSUME SessionInv, Reload, older' = {}
  PROVE  SessionInv' /\ Stands /\ Quiet
<1>1. PICK callback \in BOOLEAN :
        tab' = Loaded(callback, intent) /\ intent' = (intent \/ callback)
  BY DEF Reload
<1>2. intent \in BOOLEAN
  BY DEF SessionInv, Signals
<1>3. Good(tab') /\ tab'.shown = None /\ tab'.request.stage = "none"
  BY <1>1, <1>2, NoRequestType
  DEF Loaded, Good, TabState, Identity, Isolated, Quarantined, Waiting, Active
<1>4. Signals'
  BY <1>1 DEF SessionInv, Signals, Reload
<1> QED
  BY <1>3, <1>4 DEF SessionInv, Overdue, Stands, Quiet, Subject

------------------------------------------------------------------------------
LEMMA SessionInit == Init => SessionInv
<1> SUFFICES ASSUME Init PROVE SessionInv
  OBVIOUS
<1>1. Good(tab)
  BY NoRequestType
  DEF Init, Loaded, Good, TabState, Identity, Isolated, Quarantined, Waiting, Active
<1> QED
  BY <1>1 DEF Init, SessionInv, Signals, Overdue

LEMMA SessionStep == SessionInv /\ [Next]_vars => SessionInv' /\ Stands /\ Quiet
<1> SUFFICES ASSUME SessionInv, [Next]_vars PROVE SessionInv' /\ Stands /\ Quiet
  OBVIOUS
<1>1. CASE SignInRefused /\ older' = older
  <2>1. Fine
    BY <1>1, SignInRefusedFine
  <2>2. Awaited(tab) \subseteq Awaited(tab')
    BY <2>1 DEF Fine, Kept, Awaited
  <2>3. older' = older \cap Awaited(tab')
    BY <1>1, <2>2 DEF SessionInv, Overdue
  <2> QED
    BY <2>1, <2>3, FineStep DEF Fine
<1>2. CASE SignedIn /\ older' = Awaited(tab)
  BY <1>2, SignedInStep
<1>3. CASE Reload /\ older' = {}
  BY <1>3, ReloadStep
<1>4. CASE Other /\ older' = older \cap Awaited(tab')
  <2>1. CASE Fine
    BY <1>4, <2>1, FineStep DEF Fine
  <2>2. CASE TokenRead
    BY <1>4, <2>2, TokenReadStep
  <2>3. CASE Hydrate
    BY <1>4, <2>3, HydrateStep
  <2>4. CASE RefreshAnswers
    BY <1>4, <2>4, RefreshAnswersStep
  <2>5. Fine \/ TokenRead \/ Hydrate \/ RefreshAnswers
    BY <1>4, RecoveryLinkFine, NoticeFine, ElsewhereFine, EventFine, SignInFine, SignOutFine,
       AwaitBridgeFine, SignOutAnswersFine, ExitRecoveryFine, ForceRefreshFine, DispatchFine, BuildHeadersFine,
       AnsweredFine, ChangePasswordFine, ChangeAnswersFine, SubmitRecoveryFine,
       SubmitAnswersFine
    DEF Other
  <2> QED
    BY <2>1, <2>2, <2>3, <2>4, <2>5
<1>5. CASE UNCHANGED vars
  BY <1>5
  DEF vars, SessionInv, Signals, Overdue, Good, Isolated, Quarantined, Waiting, Active, Awaited,
      Stands, Quiet
<1> QED
  BY <1>1, <1>2, <1>3, <1>4, <1>5 DEF Next

LEMMA SessionAlways == Spec => []SessionInv
<1>1. SessionInv /\ [Next]_vars => SessionInv'
  BY SessionStep
<1> QED
  BY SessionInit, <1>1, PTL DEF Spec

(* The session of a tab keeps its shape: counters and pending answers that   *)
(* auth-token.ts compares are always those of a session it knows.           *)
THEOREM SessionTyping == Spec => []SessionTypeOK
<1>1. SessionInv => SessionTypeOK
  BY DEF SessionInv, Signals, Overdue, Good, Awaited, SessionTypeOK
<1> QED
  BY <1>1, SessionAlways, PTL

(* However many operators sign in and out while a batch, a token read, a     *)
(* refresh or a change of password is under way, none is done or reported   *)
(* in the name of another (auth-session-cache.ts, auth-token.ts).           *)
THEOREM Bearers == Spec => []BearerOfItsOperator
<1>1. SessionInv => BearerOfItsOperator
  BY DEF SessionInv, Good, Isolated, BearerOfItsOperator
<1> QED
  BY <1>1, SessionAlways, PTL

(* No answer to an operator who was shown before is left in the query cache, *)
(* or written to it late (bindAuthSessionCache, authSessionLink).           *)
THEOREM Caches == Spec => []CacheIsOwn
<1>1. SessionInv => CacheIsOwn
  BY DEF SessionInv, Good, Isolated, CacheIsOwn
<1> QED
  BY <1>1, SessionAlways, PTL

(* A recovery link never becomes a business session, whatever events the     *)
(* provider reports about it (password-recovery.ts, auth-token.ts:334-374). *)
THEOREM Recoveries == Spec => []RecoveryIsolated
<1>1. SessionInv => RecoveryIsolated
  BY DEF SessionInv, Good, Quarantined, RecoveryIsolated
<1> QED
  BY <1>1, SessionAlways, PTL

(* After a logout in any tab this tab sends no bearer until a sign-in, for   *)
(* any number of sessions and late answers (getAccessToken, buildHeaders).  *)
THEOREM LoggedOut == Spec => NoBearerAfterLogout
<1>1. SessionInv /\ [Next]_vars =>
        [/\ ended
         /\ tab.request.stage # "sent" /\ tab'.request.stage = "sent"
         => tab'.request.bearer = None]_vars
  BY SessionStep DEF Quiet
<1> QED
  BY <1>1, SessionAlways, PTL DEF Spec, NoBearerAfterLogout

(* What was awaited when an operator signed in is answered without bringing  *)
(* another operator back (the revision of auth-token.ts).                   *)
THEOREM Newer == Spec => NewerSignInStands
<1>1. SessionInv /\ [Next]_vars =>
        [older \ older' # {} => Subject(tab'.shown) \in {Subject(tab.shown), None}]_vars
  BY SessionStep DEF Stands
<1> QED
  BY <1>1, SessionAlways, PTL DEF Spec, NewerSignInStands
==============================================================================
