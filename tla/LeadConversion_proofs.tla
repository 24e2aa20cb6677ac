------------------------ MODULE LeadConversion_proofs ------------------------
(***************************************************************************)
(* Proofs about LeadConversion, for every set of calls, leads, profiles    *)
(* and rows and any number of writes by staff.                             *)
(*                                                                         *)
(* A call that holds a lead is the only one that does, so what it found    *)
(* out about the lead stays true until it ends; what it found out about a  *)
(* client stays true only once it holds the client as well.                *)
(***************************************************************************)
EXTENDS LeadConversion, TLAPS

Past == {"clients", "projects", "refusing", "owner", "reusing", "writing"}
Made == {"created", "lost"}

(* What a call knows, from where it stands.                                *)
Knows(call) ==
  /\ call.at # "idle" =>
       /\ call.lead \in Leads /\ call.route \in Routes
       /\ call.actor \in Profiles /\ call.contact \in Details
  /\ call.at \in {"idle", "locking", "finding", "clients"} => call.client = None
  /\ call.at \in {"clients", "projects", "refusing"} => call.route = "modern"
  /\ call.at \in Past => leads[call.lead].project = None /\ DealsOf(call.lead) = {}
  /\ call.at \in {"verifying", "found", "created"} =>
       /\ call.project # None
       /\ leads[call.lead].project = call.project
       /\ leads[call.lead].client = call.client
  /\ call.at \in {"found", "created"} /\ call.route = "legacy" =>
       call.deal \in DealsOf(call.lead)

(* What it knows of the rows it is about to use.                           *)
Grounds(call) ==
  /\ call.at = "projects" /\ call.decision \in Allowed => Reachable(call.contact)
  /\ call.at \in {"owner", "reusing", "writing"} =>
       IF call.route = "modern" THEN Reachable(call.contact) ELSE call.client = None
  /\ call.at = "reusing" => call.client # None
  /\ call.at = "writing" /\ call.client # None =>
       /\ clients[call.client].state = "active"
       /\ SameContact(call.contact, clients[call.client].contact)
  /\ call.at \in {"reusing", "writing"} => OwnerOf(call) \in active

Exclusive ==
  \A j, k \in Calls :
    calls[j].at \in Inside /\ calls[k].at \in Inside /\ calls[j].lead = calls[k].lead => j = k

(* The rows named after a call are written by it and by nothing else.      *)
Named ==
  /\ \A k \in Calls : calls[k].at \notin Made =>
       projects[k].lead = None /\ clients[k].state = "absent" /\ deals[k] = None
  /\ \A x \in Entered : projects[x].lead = None

Marks ==
  /\ \A p \in Rows : projects[p].lead # None =>
       /\ leads[projects[p].lead].project = p
       /\ leads[projects[p].lead].client = projects[p].client
  /\ \A l \in Leads : leads[l].project # None => projects[leads[l].project].lead = l
  /\ \A l \in Leads : leads[l].project = None => leads[l].client = None

ConvInv ==
  /\ LeadTypeOK
  /\ Exclusive
  /\ Named
  /\ Marks
  /\ \A k \in Calls : Knows(calls[k])
  /\ \A k \in Calls : Grounds(calls[k])

------------------------------------------------------------------------------
(* A call that writes no row.                                              *)
LEMMA Move ==
  ASSUME ConvInv, NEW k \in Calls, NEW c \in Call, UNCHANGED rows, UNCHANGED writes,
         Become(k, c),
         calls[k].at \notin Made, c.at \notin Made,
         \/ c.at \notin Inside
         \/ calls[k].at \in Inside /\ c.lead = calls[k].lead
         \/ ~LeadHeld(c.lead),
         Knows(c), Grounds(c)
  PROVE  ConvInv'
<1>1. calls' = [calls EXCEPT ![k] = c] /\ calls \in [Calls -> Call]
  BY DEF Become, ConvInv, LeadTypeOK
<1>2. calls'[k] = c /\ (\A j \in Calls : j # k => calls'[j] = calls[j])
  BY <1>1
<1>3. LeadTypeOK'
  BY <1>1 DEF ConvInv, LeadTypeOK, rows
<1>4. Exclusive'
  BY <1>2 DEF ConvInv, Exclusive, LeadHeld
<1>5. Named' /\ Marks'
  BY <1>2 DEF ConvInv, Named, Marks, rows
<1>6. ASSUME NEW j \in Calls PROVE Knows(calls[j])' /\ Grounds(calls[j])'
  <2>1. Knows(calls'[j]) /\ Grounds(calls'[j])
    BY <1>2 DEF ConvInv
  <2> QED
    BY <2>1 DEF Knows, Grounds, rows, DealsOf, OwnerOf, Reachable, SameContact
<1> QED
  BY <1>3, <1>4, <1>5, <1>6 DEF ConvInv

LEMMA Completions ==
  ASSUME NEW a \in Details, NEW b \in Details
  PROVE  Complete(a, b) \in Details
BY DEF Complete, Details, Fields

(* A call is rewritten one field at a time.                                *)
LEMMA CallUpdates ==
  ASSUME NEW c \in Call
  PROVE  /\ \A x \in {"locking"} \cup Inside \cup Ended : [c EXCEPT !.at = x] \in Call
         /\ \A x \in Routes : [c EXCEPT !.route = x] \in Call
         /\ \A x \in Leads : [c EXCEPT !.lead = x] \in Call
         /\ \A x \in Profiles : [c EXCEPT !.actor = x] \in Call
         /\ \A x \in Details : [c EXCEPT !.contact = x] \in Call
         /\ \A x \in Decisions : [c EXCEPT !.decision = x] \in Call
         /\ \A x \in Rows \cup {None} : [c EXCEPT !.client = x] \in Call
         /\ \A x \in Rows : [c EXCEPT !.project = x] \in Call
         /\ \A x \in Rows \cup {None} : [c EXCEPT !.deal = x] \in Call
<1> HIDE DEF Inside, Ended, Routes, Details, Decisions, Rows
<1>1. \A x \in {"locking"} \cup Inside \cup Ended : [c EXCEPT !.at = x] \in Call
  BY DEF Call
<1>2. \A x \in Routes : [c EXCEPT !.route = x] \in Call
  BY DEF Call
<1>3. \A x \in Leads : [c EXCEPT !.lead = x] \in Call
  BY DEF Call
<1>4. \A x \in Profiles : [c EXCEPT !.actor = x] \in Call
  BY DEF Call
<1>5. \A x \in Details : [c EXCEPT !.contact = x] \in Call
  BY DEF Call
<1>6. \A x \in Decisions : [c EXCEPT !.decision = x] \in Call
  BY DEF Call
<1>7. \A x \in Rows \cup {None} : [c EXCEPT !.client = x] \in Call
  BY DEF Call
<1>8. \A x \in Rows : [c EXCEPT !.project = x] \in Call
  BY DEF Call
<1>9. \A x \in Rows \cup {None} : [c EXCEPT !.deal = x] \in Call
  BY DEF Call
<1> QED
  BY <1>1, <1>2, <1>3, <1>4, <1>5, <1>6, <1>7, <1>8, <1>9, Zenon

(* A call that only moves on.                                              *)
LEMMA MovedOn ==
  ASSUME NEW c \in Call, NEW x \in {"locking"} \cup Inside \cup Ended
  PROVE  /\ [c EXCEPT !.at = x] \in Call
         /\ [c EXCEPT !.at = x].at = x
         /\ [c EXCEPT !.at = x].route = c.route /\ [c EXCEPT !.at = x].lead = c.lead
         /\ [c EXCEPT !.at = x].actor = c.actor /\ [c EXCEPT !.at = x].contact = c.contact
         /\ [c EXCEPT !.at = x].client = c.client /\ [c EXCEPT !.at = x].project = c.project
<1>1. [c EXCEPT !.at = x] \in Call
  BY CallUpdates, Zenon
<1>2. /\ [c EXCEPT !.at = x].at = x
      /\ [c EXCEPT !.at = x].route = c.route /\ [c EXCEPT !.at = x].lead = c.lead
      /\ [c EXCEPT !.at = x].actor = c.actor /\ [c EXCEPT !.at = x].contact = c.contact
      /\ [c EXCEPT !.at = x].client = c.client /\ [c EXCEPT !.at = x].project = c.project
  BY DEF Call
<1> QED
  BY <1>1, <1>2, Zenon

LEMMA StartStep ==
  ASSUME ConvInv, NEW k \in Calls, NEW ask \in Asks, Start(k, ask), UNCHANGED writes
  PROVE  ConvInv'
<1> DEFINE c == [calls[k] EXCEPT !.at = "locking", !.route = ask.route, !.lead = ask.lead,
                                 !.actor = ask.actor, !.contact = ask.contact]
<1>1. calls[k] \in Call /\ ask \in [route : Routes, lead : Leads, actor : Profiles, contact : Details]
  BY ConversionAssumption DEF ConvInv, LeadTypeOK
<1>2. c \in Call /\ c.at = "locking" /\ c.route \in Routes /\ c.lead \in Leads
        /\ c.actor \in Profiles /\ c.contact \in Details /\ c.client = calls[k].client
  <2> DEFINE c1 == [calls[k] EXCEPT !.at = "locking"]
             c2 == [c1 EXCEPT !.route = ask.route]
             c3 == [c2 EXCEPT !.lead = ask.lead]
             c4 == [c3 EXCEPT !.actor = ask.actor]
  <2>1. /\ ask.route \in Routes /\ ask.lead \in Leads /\ ask.actor \in Profiles
        /\ ask.contact \in Details
    BY <1>1
  <2>2. c1 \in Call
    BY <1>1, MovedOn
  <2>3. c2 \in Call
    BY <2>1, <2>2, CallUpdates, Zenon
  <2>4. c3 \in Call
    BY <2>1, <2>3, CallUpdates, Zenon
  <2>5. c4 \in Call
    BY <2>1, <2>4, CallUpdates, Zenon
  <2>6. c \in Call
    BY <2>1, <2>5, CallUpdates, Zenon
  <2>7. /\ c.at = "locking" /\ c.route = ask.route /\ c.lead = ask.lead
        /\ c.actor = ask.actor /\ c.contact = ask.contact /\ c.client = calls[k].client
    BY <1>1 DEF Call
  <2> QED
    BY <2>1, <2>6, <2>7, Zenon
<1>3. calls[k].at = "idle" /\ Become(k, c) /\ UNCHANGED rows
  BY DEF Start
<1> HIDE DEF c
<1>4. Knows(c) /\ Grounds(c)
  BY <1>1, <1>2, <1>3 DEF ConvInv, Knows, Grounds, Past
<1> QED
  BY <1>2, <1>3, <1>4, Move DEF Made, Inside

LEMMA AbortStep ==
  ASSUME ConvInv, NEW k \in Calls, NEW where \in {"failed", "refused"},
         calls[k].at \in {"locking"} \cup Inside, Go(k, where), UNCHANGED rows, UNCHANGED writes
  PROVE  ConvInv'
<1> DEFINE c == [calls[k] EXCEPT !.at = where]
<1>1. calls[k] \in Call
  BY DEF ConvInv, LeadTypeOK
<1>2. c \in Call /\ c.at = where /\ c.route = calls[k].route /\ c.lead = calls[k].lead
        /\ c.actor = calls[k].actor /\ c.contact = calls[k].contact
  BY <1>1, MovedOn DEF Ended
<1>3. Become(k, c)
  BY DEF Go
<1> HIDE DEF c
<1>4. Knows(c) /\ Grounds(c)
  BY <1>1, <1>2 DEF ConvInv, Knows, Grounds, Past, Ended, Made, Inside
<1> QED
  BY <1>2, <1>3, <1>4, Move DEF Made, Inside, Ended

LEMMA LockLeadStep ==
  ASSUME ConvInv, NEW k \in Calls, LockLead(k), UNCHANGED writes
  PROVE  ConvInv'
<1> DEFINE full == Complete(calls[k].contact, leads[calls[k].lead].contact)
           c == [calls[k] EXCEPT !.at = "finding", !.contact = full]
<1>1. calls[k] \in Call /\ calls[k].at = "locking" /\ calls[k].lead \in Leads
        /\ calls[k].route \in Routes /\ calls[k].actor \in Profiles
        /\ calls[k].contact \in Details /\ calls[k].client = None
  BY DEF ConvInv, LeadTypeOK, Knows, LockLead
<1>2. full \in Details
  <2>1. leads[calls[k].lead].contact \in Details
    BY <1>1 DEF ConvInv, LeadTypeOK, Lead
  <2> QED
    BY <1>1, <2>1, Completions
<1>3. CASE Become(k, c)
  <2> HIDE DEF full
  <2>1. c \in Call /\ c.at = "finding" /\ c.route = calls[k].route /\ c.lead = calls[k].lead
          /\ c.actor = calls[k].actor /\ c.contact = full /\ c.client = None
    <3> DEFINE moved == [calls[k] EXCEPT !.at = "finding"]
    <3>1. /\ moved \in Call /\ moved.at = "finding" /\ moved.route = calls[k].route
          /\ moved.lead = calls[k].lead /\ moved.actor = calls[k].actor
          /\ moved.client = None
      BY <1>1, MovedOn DEF Inside
    <3> HIDE DEF moved
    <3>2. [moved EXCEPT !.contact = full] \in Call
      BY <1>2, <3>1, CallUpdates, Zenon
    <3>3. c = [moved EXCEPT !.contact = full]
      BY Zenon DEF moved
    <3> HIDE DEF c
    <3>4. /\ c.at = moved.at /\ c.route = moved.route /\ c.lead = moved.lead
          /\ c.actor = moved.actor /\ c.contact = full /\ c.client = moved.client
      BY <3>1, <3>3 DEF Call
    <3> QED
      BY <3>1, <3>2, <3>3, <3>4, Zenon
  <2> HIDE DEF c
  <2>2. Knows(c) /\ Grounds(c)
    BY <1>1, <1>2, <2>1 DEF Knows, Grounds, Past
  <2> QED
    BY <1>1, <1>3, <2>1, <2>2, Move DEF Made, LockLead
<1>4. CASE Go(k, "failed")
  BY <1>1, <1>4, AbortStep DEF LockLead, Ended, Made
<1> QED
  BY <1>3, <1>4 DEF LockLead

LEMMA FindStep ==
  ASSUME ConvInv, NEW k \in Calls, Find(k), UNCHANGED writes
  PROVE  ConvInv'
<1> DEFINE call == calls[k]
           lead == leads[call.lead]
           ps   == ProjectsOf(call.lead)
           fresh == IF call.route = "modern" THEN "clients" ELSE "owner"
<1>1. call \in Call /\ call.at = "finding" /\ call.lead \in Leads /\ call.route \in Routes
        /\ call.actor \in Profiles /\ call.contact \in Details /\ call.client = None
  BY Zenon DEF ConvInv, LeadTypeOK, Knows, Find
<1>2. UNCHANGED rows
  BY Zenon DEF Find
<1>3. CASE Go(k, "failed")
  BY <1>1, <1>2, <1>3, AbortStep DEF Inside
<1>4. CASE /\ ps = {} /\ DealsOf(call.lead) = {} /\ lead.project = None
           /\ Go(k, fresh)
  <2> DEFINE c == [call EXCEPT !.at = fresh]
  <2>1. c \in Call /\ c.at = fresh /\ c.route = call.route /\ c.lead = call.lead
          /\ c.actor = call.actor /\ c.contact = call.contact /\ c.client = None
    BY <1>1, MovedOn DEF Inside
  <2>2. Become(k, c)
    BY <1>4 DEF Go
  <2> HIDE DEF c
  <2>4. Knows(c) /\ Grounds(c)
    BY <1>1, <1>4, <2>1 DEF Knows, Grounds, Past, Routes
  <2> QED
    BY <1>1, <1>2, <2>1, <2>2, <2>4, Move DEF Made, Inside
<1>5. ASSUME NEW p \in ps, projects[p].client # None,
             Become(k, [call EXCEPT !.at = "verifying", !.project = p, !.client = projects[p].client])
      PROVE  ConvInv'
  <2> DEFINE c == [call EXCEPT !.at = "verifying", !.project = p, !.client = projects[p].client]
  <2>1. p \in Rows /\ projects[p].lead = call.lead /\ projects[p] \in Project
    BY DEF ProjectsOf, ConvInv, LeadTypeOK
  <2>2. projects[p].client \in Rows /\ p # None /\ call.lead # None
    BY <1>1, <1>5, <2>1, ConversionAssumption DEF Project
  <2>3. c \in Call /\ c.at = "verifying" /\ c.route = call.route /\ c.lead = call.lead
          /\ c.actor = call.actor /\ c.contact = call.contact
          /\ c.project = p /\ c.client = projects[p].client
    <3> DEFINE moved == [call EXCEPT !.at = "verifying"]
               named == [moved EXCEPT !.project = p]
    <3>1. moved \in Call
      BY <1>1, MovedOn DEF Inside
    <3>2. named \in Call
      BY <2>1, <3>1, CallUpdates, Zenon
    <3>3. [named EXCEPT !.client = projects[p].client] \in Call
      BY <2>2, <3>2, CallUpdates
    <3>4. c = [named EXCEPT !.client = projects[p].client]
      BY Zenon
    <3>5. /\ c.at = "verifying" /\ c.route = call.route /\ c.lead = call.lead
          /\ c.actor = call.actor /\ c.contact = call.contact
          /\ c.project = p /\ c.client = projects[p].client
      BY <1>1 DEF Call
    <3> QED
      BY <3>3, <3>4, <3>5, Zenon
  <2>4. lead.project = p /\ lead.client = projects[p].client
    BY <2>1, <2>2 DEF ConvInv, Marks
  <2> HIDE DEF c
  <2>5. Knows(c) /\ Grounds(c)
    BY <1>1, <2>2, <2>3, <2>4 DEF Knows, Grounds, Past
  <2>6. Become(k, c)
    BY <1>5 DEF c
  <2> QED
    BY <1>1, <1>2, <2>3, <2>5, <2>6, Move DEF Made, Inside
<1> QED
  BY <1>3, <1>4, <1>5, Zenon DEF Find

LEMMA VerifyStep ==
  ASSUME ConvInv, NEW k \in Calls, Verify(k), UNCHANGED writes
  PROVE  ConvInv'
<1> DEFINE call == calls[k]
           ds   == DealsOf(call.lead)
<1>1. call \in Call /\ call.at = "verifying" /\ Knows(call) /\ call.lead \in Leads
  BY DEF ConvInv, LeadTypeOK, Knows, Verify
<1>2. UNCHANGED rows
  BY DEF Verify
<1>3. CASE Go(k, "failed")
  BY <1>1, <1>2, <1>3, AbortStep DEF Inside
<1>4. ASSUME NEW c \in Call, c.at = "found", c.route = call.route, c.lead = call.lead,
             c.actor = call.actor, c.contact = call.contact, c.project = call.project,
             c.client = call.client, c.route = "legacy" => c.deal \in ds, Become(k, c)
      PROVE  ConvInv'
  <2>1. Knows(c) /\ Grounds(c)
    BY <1>1, <1>4 DEF Knows, Grounds, Past
  <2> QED
    BY <1>1, <1>2, <1>4, <2>1, Move DEF Made, Inside
<1>5. CASE ds = {} /\ call.route = "modern" /\ Go(k, "found")
  <2> DEFINE c == [call EXCEPT !.at = "found"]
  <2>1. c \in Call /\ c.at = "found" /\ c.route = call.route /\ c.lead = call.lead
          /\ c.actor = call.actor /\ c.contact = call.contact /\ c.project = call.project
          /\ c.client = call.client /\ c.route # "legacy"
    BY <1>1, <1>5, MovedOn DEF Ended
  <2>2. Become(k, c)
    BY <1>5 DEF Go
  <2> HIDE DEF c, call
  <2> QED
    BY <1>4, <2>1, <2>2
<1>6. ASSUME NEW d \in ds, Become(k, [call EXCEPT !.at = "found", !.deal = d])
      PROVE  ConvInv'
  <2> DEFINE c == [call EXCEPT !.at = "found", !.deal = d]
  <2>1. d \in Rows
    BY DEF DealsOf
  <2>2. c \in Call /\ c.at = "found" /\ c.route = call.route /\ c.lead = call.lead
          /\ c.actor = call.actor /\ c.contact = call.contact /\ c.project = call.project
          /\ c.client = call.client /\ c.deal = d
    <3> DEFINE moved == [call EXCEPT !.at = "found"]
    <3>1. moved \in Call
      BY <1>1, MovedOn DEF Ended
    <3>2. [moved EXCEPT !.deal = d] \in Call
      BY <2>1, <3>1, CallUpdates, Zenon
    <3>3. c = [moved EXCEPT !.deal = d]
      BY Zenon
    <3>4. /\ c.at = "found" /\ c.route = call.route /\ c.lead = call.lead
          /\ c.actor = call.actor /\ c.contact = call.contact /\ c.project = call.project
          /\ c.client = call.client /\ c.deal = d
      BY <1>1 DEF Call
    <3> QED
      BY <3>2, <3>3, <3>4, Zenon
  <2>3. Become(k, c)
    BY <1>6
  <2> HIDE DEF c, call, ds
  <2> QED
    BY <1>4, <2>2, <2>3
<1> QED
  BY <1>3, <1>5, <1>6 DEF Verify

LEMMA ReadClientsStep ==
  ASSUME ConvInv, NEW k \in Calls, ReadClients(k), UNCHANGED writes
  PROVE  ConvInv'
<1> DEFINE call == calls[k]
<1>1. call \in Call /\ call.at = "clients" /\ Knows(call) /\ call.lead \in Leads
  BY DEF ConvInv, LeadTypeOK, Knows, ReadClients
<1>2. UNCHANGED rows
  BY DEF ReadClients
<1>3. ASSUME NEW decision \in Decisions, NEW c \in Rows \cup {None},
             decision \in Allowed => Reachable(call.contact),
             Become(k, [call EXCEPT !.at = "projects", !.decision = decision, !.client = c])
      PROVE  ConvInv'
  <2> DEFINE n == [call EXCEPT !.at = "projects", !.decision = decision, !.client = c]
  <2>1. n \in Call /\ n.at = "projects" /\ n.route = call.route /\ n.lead = call.lead
          /\ n.actor = call.actor /\ n.contact = call.contact /\ n.decision = decision
    <3> DEFINE moved   == [call EXCEPT !.at = "projects"]
               decided == [moved EXCEPT !.decision = decision]
    <3>1. moved \in Call
      BY <1>1, MovedOn DEF Inside
    <3>2. decided \in Call
      BY <3>1, CallUpdates, Zenon
    <3>3. [decided EXCEPT !.client = c] \in Call
      BY <3>2, CallUpdates
    <3>4. n = [decided EXCEPT !.client = c]
      BY Zenon
    <3>5. /\ n.at = "projects" /\ n.route = call.route
          /\ n.lead = call.lead /\ n.actor = call.actor /\ n.contact = call.contact
          /\ n.decision = decision
      BY <1>1 DEF Call
    <3> QED
      BY <3>3, <3>4, <3>5, Zenon
  <2>2. Become(k, n)
    BY <1>3
  <2> HIDE DEF n
  <2>3. Knows(n) /\ Grounds(n)
    BY <1>1, <1>3, <2>1 DEF Knows, Grounds, Past
  <2> QED
    BY <1>1, <1>2, <2>1, <2>2, <2>3, Move DEF Made, Inside
<1> HIDE DEF call
<1>4. CASE Become(k, [call EXCEPT !.at = "projects", !.decision = "blocked_minimum_data", !.client = None])
  <2>1. "blocked_minimum_data" \in Decisions /\ "blocked_minimum_data" \notin Allowed
    BY DEF Decisions, Allowed, Refused
  <2> QED
    BY <1>3, <1>4, <2>1
<1>5. CASE Become(k, [call EXCEPT !.at = "projects", !.decision = "needs_review", !.client = None])
  <2>1. "needs_review" \in Decisions /\ "needs_review" \notin Allowed
    BY DEF Decisions, Allowed, Refused
  <2> QED
    BY <1>3, <1>5, <2>1
<1>6. CASE /\ Reachable(call.contact)
           /\ Become(k, [call EXCEPT !.at = "projects", !.decision = "convert", !.client = None])
  <2>1. "convert" \in Decisions
    BY DEF Decisions, Allowed, Refused
  <2> QED
    BY <1>3, <1>6, <2>1
<1>7. ASSUME NEW c \in ActiveClients, Reachable(call.contact),
             Become(k, [call EXCEPT !.at = "projects", !.decision = "reuse_client", !.client = c])
      PROVE  ConvInv'
  BY <1>3, <1>7 DEF Decisions, Allowed, Refused, ActiveClients
<1> QED
  BY <1>4, <1>5, <1>6, <1>7 DEF ReadClients, call

LEMMA ReadProjectsStep ==
  ASSUME ConvInv, NEW k \in Calls, ReadProjects(k), UNCHANGED writes
  PROVE  ConvInv'
<1> DEFINE call == calls[k]
<1>1. /\ call \in Call /\ call.at = "projects" /\ Knows(call) /\ Grounds(call)
      /\ call.lead \in Leads /\ call.route = "modern"
  BY DEF ConvInv, LeadTypeOK, Knows, ReadProjects
<1>2. UNCHANGED rows
  BY DEF ReadProjects
<1>3. ASSUME NEW n \in Call, n.at \in {"refusing", "owner"}, n.route = call.route,
             n.lead = call.lead, n.actor = call.actor, n.contact = call.contact,
             n.at = "owner" => call.decision \in Allowed, Become(k, n)
      PROVE  ConvInv'
  <2>1. Knows(n) /\ Grounds(n)
    BY <1>1, <1>3 DEF Knows, Grounds, Past
  <2> QED
    BY <1>1, <1>2, <1>3, <2>1, Move DEF Made, Inside
<1>4. CASE Go(k, "refusing")
  <2> DEFINE n == [call EXCEPT !.at = "refusing"]
  <2>1. n \in Call /\ n.at = "refusing" /\ n.route = call.route /\ n.lead = call.lead
          /\ n.actor = call.actor /\ n.contact = call.contact
    BY <1>1, MovedOn DEF Inside
  <2>2. Become(k, n)
    BY <1>4 DEF Go
  <2> HIDE DEF n, call
  <2> QED
    BY <1>3, <2>1, <2>2
<1>5. CASE call.decision \in Allowed /\ Go(k, "owner")
  <2> DEFINE n == [call EXCEPT !.at = "owner"]
  <2>1. n \in Call /\ n.at = "owner" /\ n.route = call.route /\ n.lead = call.lead
          /\ n.actor = call.actor /\ n.contact = call.contact
    BY <1>1, MovedOn DEF Inside
  <2>2. Become(k, n) /\ call.decision \in Allowed
    BY <1>5 DEF Go
  <2> HIDE DEF n, call
  <2> QED
    BY <1>3, <2>1, <2>2
<1>6. CASE Become(k, [call EXCEPT !.at = "refusing", !.decision = "needs_review"])
  <2> DEFINE n == [call EXCEPT !.at = "refusing", !.decision = "needs_review"]
  <2>1. n \in Call /\ n.at = "refusing" /\ n.route = call.route /\ n.lead = call.lead
          /\ n.actor = call.actor /\ n.contact = call.contact
    <3> DEFINE moved == [call EXCEPT !.at = "refusing"]
    <3>1. moved \in Call
      BY <1>1, MovedOn DEF Inside
    <3>2. [moved EXCEPT !.decision = "needs_review"] \in Call
      BY <3>1, CallUpdates DEF Decisions, Refused
    <3>3. n = [moved EXCEPT !.decision = "needs_review"]
      BY Zenon
    <3>4. /\ n.at = "refusing" /\ n.route = call.route /\ n.lead = call.lead
          /\ n.actor = call.actor /\ n.contact = call.contact
      BY <1>1 DEF Call
    <3> QED
      BY <3>2, <3>3, <3>4, Zenon
  <2>2. Become(k, n)
    BY <1>6
  <2> HIDE DEF n, call
  <2> QED
    BY <1>3, <2>1, <2>2
<1> QED
  BY <1>4, <1>5, <1>6 DEF ReadProjects

LEMMA CheckOwnerStep ==
  ASSUME ConvInv, NEW k \in Calls, CheckOwner(k), UNCHANGED writes
  PROVE  ConvInv'
<1> DEFINE call == calls[k]
<1>1. /\ call \in Call /\ call.at = "owner" /\ Knows(call) /\ Grounds(call)
      /\ call.lead \in Leads /\ call.route \in Routes
  BY DEF ConvInv, LeadTypeOK, Knows, CheckOwner
<1>2. UNCHANGED rows
  BY DEF CheckOwner
<1>3. CASE Go(k, "failed")
  BY <1>1, <1>2, <1>3, AbortStep DEF Inside
<1>4. ASSUME NEW where \in {"reusing", "writing"}, Go(k, where), OwnerOf(call) \in active,
             (where = "reusing") <=> (call.client # None)
      PROVE  ConvInv'
  <2> DEFINE n == [call EXCEPT !.at = where]
  <2>1. n \in Call /\ n.at = where /\ n.route = call.route /\ n.lead = call.lead
          /\ n.actor = call.actor /\ n.contact = call.contact /\ n.client = call.client
    BY <1>1 DEF Call, Inside
  <2>2. Become(k, n)
    BY <1>4 DEF Go
  <2> HIDE DEF n
  <2>3. OwnerOf(n) \in active
    BY <1>4, <2>1 DEF OwnerOf
  <2>4. Knows(n) /\ Grounds(n)
    BY <1>1, <1>4, <2>1, <2>3 DEF Knows, Grounds, Past
  <2> QED
    BY <1>1, <1>2, <2>1, <2>2, <2>4, Move DEF Made, Inside
<1> QED
  BY <1>3, <1>4 DEF CheckOwner

LEMMA LockClientStep ==
  ASSUME ConvInv, NEW k \in Calls, LockClient(k), UNCHANGED writes
  PROVE  ConvInv'
<1> DEFINE call == calls[k]
<1>1. /\ call \in Call /\ call.at = "reusing" /\ Knows(call) /\ Grounds(call)
      /\ call.lead \in Leads /\ call.route \in Routes
  BY DEF ConvInv, LeadTypeOK, Knows, LockClient
<1>2. UNCHANGED rows
  BY DEF LockClient
<1>3. CASE Go(k, "failed")
  BY <1>1, <1>2, <1>3, AbortStep DEF Inside
<1>4. CASE /\ clients[call.client].state = "active"
           /\ SameContact(call.contact, clients[call.client].contact)
           /\ Go(k, "writing")
  <2> DEFINE n == [call EXCEPT !.at = "writing"]
  <2>1. n \in Call /\ n.at = "writing" /\ n.route = call.route /\ n.lead = call.lead
          /\ n.actor = call.actor /\ n.contact = call.contact /\ n.client = call.client
    BY <1>1 DEF Call, Inside
  <2>2. Become(k, n)
    BY <1>4 DEF Go
  <2> HIDE DEF n
  <2>3. OwnerOf(n) \in active
    BY <1>1, <2>1 DEF OwnerOf, Grounds
  <2>4. Knows(n) /\ Grounds(n)
    BY <1>1, <1>4, <2>1, <2>3 DEF Knows, Grounds, Past
  <2> QED
    BY <1>1, <1>2, <2>1, <2>2, <2>4, Move DEF Made, Inside
<1> QED
  BY <1>3, <1>4 DEF LockClient

(* A refusal: only the record of the lead that the call holds changes.     *)
LEMMA RefuseStep ==
  ASSUME ConvInv, NEW k \in Calls, Refuse(k), UNCHANGED writes
  PROVE  ConvInv'
<1> DEFINE call == calls[k]
           lead == [leads[call.lead] EXCEPT !.decision = call.decision,
                      !.status = IF call.decision = "needs_review" THEN "qualified"
                                ELSE leads[call.lead].status]
           n    == [call EXCEPT !.at = "refused"]
<1>1. /\ call \in Call /\ call.at = "refusing" /\ Knows(call) /\ call.lead \in Leads
      /\ call.route \in Routes /\ leads[call.lead] \in Lead
  BY DEF ConvInv, LeadTypeOK, Knows, Refuse
<1>2. /\ lead \in Lead /\ lead.project = leads[call.lead].project
      /\ lead.client = leads[call.lead].client
  BY <1>1 DEF Lead, Call
<1>3. n \in Call /\ n.at = "refused" /\ n.lead = call.lead /\ n.route = call.route
        /\ n.actor = call.actor /\ n.contact = call.contact
  BY <1>1, MovedOn DEF Ended
<1>4. /\ leads' = [leads EXCEPT ![call.lead] = lead] /\ calls' = [calls EXCEPT ![k] = n]
      /\ UNCHANGED <<clients, projects, deals, active>>
  <2>1. calls' = [calls EXCEPT ![k] = n] /\ UNCHANGED <<clients, projects, deals, active>>
    BY DEF Refuse, Go, Become
  <2>2. leads' = [leads EXCEPT ![call.lead] = lead]
    BY DEF Refuse
  <2> QED
    BY <2>1, <2>2
<1> HIDE DEF lead, n
<1>5. /\ leads' \in [Leads -> Lead] /\ calls' \in [Calls -> Call]
      /\ \A l \in Leads : leads'[l].project = leads[l].project /\ leads'[l].client = leads[l].client
      /\ calls'[k] = n /\ \A j \in Calls : j # k => calls'[j] = calls[j]
  BY <1>1, <1>2, <1>3, <1>4 DEF ConvInv, LeadTypeOK
<1>6. LeadTypeOK'
  BY <1>4, <1>5 DEF ConvInv, LeadTypeOK
<1>7. Exclusive'
  BY <1>3, <1>5 DEF ConvInv, Exclusive, Inside
<1>8. Named'
  BY <1>1, <1>3, <1>4, <1>5 DEF ConvInv, Named, Made
<1>9. Marks'
  <2>1. \A p \in Rows : projects[p].lead # None => projects[p].lead \in Leads
    BY DEF ConvInv, LeadTypeOK, Project
  <2> QED
    BY <1>4, <1>5, <2>1 DEF ConvInv, Marks
<1>10. ASSUME NEW j \in Calls PROVE Knows(calls[j])' /\ Grounds(calls[j])'
  <2>1. Knows(calls'[j]) /\ Grounds(calls'[j])
    <3>1. Knows(n) /\ Grounds(n)
      BY <1>1, <1>3 DEF Knows, Grounds, Past
    <3> QED
      BY <1>5, <3>1 DEF ConvInv
  <2>2. calls'[j].at # "idle" => calls'[j].lead \in Leads
    BY <2>1 DEF Knows
  <2>3. calls'[j].at # "idle" => /\ leads'[calls'[j].lead].project = leads[calls'[j].lead].project
                                 /\ leads'[calls'[j].lead].client = leads[calls'[j].lead].client
    BY <1>5, <2>2
  <2>4. Knows(calls[j])'
    BY <1>4, <2>1, <2>3 DEF Knows, DealsOf, Past
  <2>5. Grounds(calls[j])'
    BY <1>4, <2>1 DEF Grounds, OwnerOf, Reachable, SameContact
  <2> QED
    BY <2>4, <2>5
<1> QED
  BY <1>6, <1>7, <1>8, <1>9, <1>10 DEF ConvInv

(* The commit of a conversion: the rows named after the call are filled,   *)
(* the lead that it holds is marked, every other row stays.                *)
LEMMA WriteEffect ==
  ASSUME ConvInv, NEW k \in Calls, Write(k)
  PROVE  LET call == calls[k]  n == calls'[k] IN
         /\ calls' \in [Calls -> Call] /\ \A j \in Calls : j # k => calls'[j] = calls[j]
         /\ n.at \in Made /\ n.lead = call.lead /\ n.route = call.route
         /\ n.actor = call.actor /\ n.contact = call.contact /\ n.project = k
         /\ n.client = (IF call.client = None THEN k ELSE call.client)
         /\ n.route = "legacy" => n.deal = k
         /\ leads' \in [Leads -> Lead]
         /\ \A l \in Leads : l # call.lead => leads'[l] = leads[l]
         /\ leads'[call.lead].project = k /\ leads'[call.lead].client = n.client
         /\ clients' \in [Rows -> Client]
         /\ \A c \in Rows : c # k \/ call.client # None => clients'[c] = clients[c]
         /\ call.client = None =>
              clients'[k].state = "active" /\ clients'[k].contact = call.contact
         /\ projects' \in [Rows -> Project]
         /\ \A p \in Rows : p # k => projects'[p] = projects[p]
         /\ projects'[k].lead = call.lead /\ projects'[k].client = n.client
         /\ projects'[k].owner = OwnerOf(call)
         /\ deals' \in [Rows -> Leads \cup {None}]
         /\ \A d \in Rows : d # k => deals'[d] = deals[d]
         /\ deals'[k] = (IF call.route = "modern" THEN deals[k] ELSE call.lead)
         /\ active' = active
<1> DEFINE call   == calls[k]
           modern == call.route = "modern"
           client == IF call.client = None THEN k ELSE call.client
           deal   == IF modern THEN None ELSE k
           lead   == Marked(leads[call.lead], call.route, call.decision, client, k)
           person == [contact |-> call.contact, home |-> Home[call.lead], state |-> "active"]
           job    == [lead |-> call.lead, client |-> client, site |-> Site[call.lead],
                      owner |-> OwnerOf(call), state |-> "open"]
<1>1. /\ call \in Call /\ call.at = "writing" /\ call.lead \in Leads /\ call.route \in Routes
      /\ call.actor \in Profiles /\ call.contact \in Details /\ leads[call.lead] \in Lead
  BY DEF ConvInv, LeadTypeOK, Knows, Write
<1>2. client \in Rows /\ k \in Rows /\ OwnerOf(call) \in Profiles
  BY <1>1, ConversionAssumption DEF Rows, Call, OwnerOf
<1>3. PICK end \in Made : calls' = [calls EXCEPT ![k] =
          [call EXCEPT !.at = end, !.client = client, !.project = k, !.deal = deal]]
  BY DEF Write, Become, Made
<1> DEFINE n == [call EXCEPT !.at = end, !.client = client, !.project = k, !.deal = deal]
<1>4. /\ n \in Call /\ n.at = end /\ n.lead = call.lead /\ n.route = call.route
      /\ n.actor = call.actor /\ n.contact = call.contact /\ n.project = k
      /\ n.client = client /\ (n.route = "legacy" => n.deal = k)
  <2> DEFINE moved  == [call EXCEPT !.at = end]
             served == [moved EXCEPT !.client = client]
             named  == [served EXCEPT !.project = k]
  <2>1. moved \in Call
    BY <1>1, MovedOn DEF Made, Ended
  <2> HIDE DEF client
  <2>2. served \in Call
    BY <1>2, <2>1, CallUpdates
  <2>3. named \in Call
    BY <1>2, <2>2, CallUpdates, Zenon
  <2>4. deal \in Rows \cup {None} /\ (call.route = "legacy" => deal = k)
    BY <1>2
  <2> HIDE DEF deal
  <2>5. [named EXCEPT !.deal = deal] \in Call
    BY <2>3, <2>4, CallUpdates, Zenon
  <2>6. n = [named EXCEPT !.deal = deal]
    BY Zenon
  <2>7. /\ n.at = end /\ n.lead = call.lead /\ n.route = call.route
        /\ n.actor = call.actor /\ n.contact = call.contact /\ n.project = k
        /\ n.client = client /\ n.deal = deal
    BY <1>1 DEF Call
  <2> QED
    BY <2>4, <2>5, <2>6, <2>7, Zenon
<1>5. lead \in Lead /\ lead.project = k /\ lead.client = client
  <2>1. call.decision \in Decisions \cup {None} /\ leads[call.lead].decision \in Decisions \cup {None}
    BY <1>1 DEF Call, Lead
  <2> HIDE DEF client
  <2>2. lead.project = k /\ lead.client = client
    BY <1>1 DEF Lead, Marked
  <2>3. lead \in Lead
    BY <1>1, <1>2, <2>1 DEF Lead, Marked
  <2> QED
    BY <2>2, <2>3
<1>6. /\ person \in Client /\ person.state = "active" /\ person.contact = call.contact
  BY <1>1 DEF Client
<1>7. /\ job \in Project /\ job.lead = call.lead /\ job.client = client
      /\ job.owner = OwnerOf(call)
  BY <1>1, <1>2 DEF Project
<1>8. /\ leads' = [leads EXCEPT ![call.lead] = lead]
      /\ clients' = IF call.client # None THEN clients ELSE [clients EXCEPT ![k] = person]
      /\ projects' = [projects EXCEPT ![k] = job]
      /\ deals' = IF modern THEN deals ELSE [deals EXCEPT ![k] = call.lead]
      /\ active' = active
  BY DEF Write
<1>9. calls' = [calls EXCEPT ![k] = n]
  BY <1>3
<1> HIDE DEF lead, person, job, n
<1>10. calls'[k] = n /\ calls' \in [Calls -> Call] /\ \A j \in Calls : j # k => calls'[j] = calls[j]
  BY <1>4, <1>9 DEF ConvInv, LeadTypeOK
<1>11. /\ leads' \in [Leads -> Lead] /\ leads'[call.lead] = lead
       /\ \A l \in Leads : l # call.lead => leads'[l] = leads[l]
  BY <1>1, <1>5, <1>8 DEF ConvInv, LeadTypeOK
<1>12. /\ clients' \in [Rows -> Client] /\ (call.client = None => clients'[k] = person)
       /\ \A c \in Rows : c # k \/ call.client # None => clients'[c] = clients[c]
  BY <1>2, <1>6, <1>8 DEF ConvInv, LeadTypeOK
<1>13. /\ projects' \in [Rows -> Project] /\ projects'[k] = job
       /\ \A p \in Rows : p # k => projects'[p] = projects[p]
  BY <1>2, <1>7, <1>8 DEF ConvInv, LeadTypeOK
<1>14. /\ deals' \in [Rows -> Leads \cup {None}]
       /\ \A d \in Rows : d # k => deals'[d] = deals[d]
       /\ deals'[k] = (IF modern THEN deals[k] ELSE call.lead)
  BY <1>1, <1>2, <1>8 DEF ConvInv, LeadTypeOK
<1> QED
  BY <1>4, <1>5, <1>6, <1>7, <1>8, <1>10, <1>11, <1>12, <1>13, <1>14

LEMMA WriteStep ==
  ASSUME ConvInv, NEW k \in Calls, Write(k), UNCHANGED writes
  PROVE  ConvInv'
<1> DEFINE call == calls[k]
           n    == calls'[k]
<1>1. /\ call \in Call /\ call.at = "writing" /\ Knows(call) /\ Grounds(call)
      /\ call.lead \in Leads /\ call.route \in Routes /\ call.lead # None
      /\ leads[call.lead].project = None /\ DealsOf(call.lead) = {}
      /\ call.actor \in Profiles /\ call.contact \in Details
  BY ConversionAssumption DEF ConvInv, LeadTypeOK, Knows, Past, Write
<1>2. k \in Rows /\ projects[k].lead = None /\ clients[k].state = "absent" /\ deals[k] = None
  BY <1>1 DEF ConvInv, Named, Rows, Made
<1>3. /\ calls' \in [Calls -> Call] /\ \A j \in Calls : j # k => calls'[j] = calls[j]
      /\ n.at \in Made /\ n.lead = call.lead /\ n.route = call.route
      /\ n.actor = call.actor /\ n.contact = call.contact /\ n.project = k
      /\ n.client = (IF call.client = None THEN k ELSE call.client)
      /\ n.route = "legacy" => n.deal = k
  BY WriteEffect
<1>4. /\ leads' \in [Leads -> Lead]
      /\ \A l \in Leads : l # call.lead => leads'[l] = leads[l]
      /\ leads'[call.lead].project = k /\ leads'[call.lead].client = n.client
  BY WriteEffect
<1>5. /\ clients' \in [Rows -> Client]
      /\ \A c \in Rows : c # k => clients'[c] = clients[c]
  BY WriteEffect
<1>6. /\ projects' \in [Rows -> Project]
      /\ \A p \in Rows : p # k => projects'[p] = projects[p]
      /\ projects'[k].lead = call.lead /\ projects'[k].client = n.client
  BY WriteEffect
<1>7. /\ deals' \in [Rows -> Leads \cup {None}]
      /\ \A d \in Rows : d # k => deals'[d] = deals[d]
      /\ deals'[k] = (IF call.route = "modern" THEN None ELSE call.lead)
      /\ active' = active
  BY <1>2, WriteEffect
<1> HIDE DEF n
<1>8. LeadTypeOK'
  BY <1>3, <1>4, <1>5, <1>6, <1>7 DEF ConvInv, LeadTypeOK
<1>9. Exclusive'
  BY <1>3 DEF ConvInv, Exclusive, Inside, Made, n
<1>10. Named'
  BY <1>3, <1>5, <1>6, <1>7, ConversionAssumption DEF ConvInv, Named, Rows, n
<1>11. Marks'
  <2>1. ASSUME NEW p \in Rows, projects'[p].lead # None
        PROVE  /\ leads'[projects'[p].lead].project = p
               /\ leads'[projects'[p].lead].client = projects'[p].client
    <3>1. CASE p = k
      BY <1>4, <1>6, <3>1
    <3>2. CASE p # k
      <4>1. projects'[p] = projects[p] /\ projects[p].lead \in Leads
        BY <1>6, <2>1, <3>2 DEF ConvInv, LeadTypeOK, Project
      <4>2. projects[p].lead # call.lead
        BY <1>1, <2>1, <4>1, ConversionAssumption DEF ConvInv, Marks
      <4> QED
        BY <1>4, <2>1, <4>1, <4>2 DEF ConvInv, Marks
    <3> QED
      BY <3>1, <3>2
  <2>2. ASSUME NEW l \in Leads, leads'[l].project # None
        PROVE  projects'[leads'[l].project].lead = l
    <3>1. CASE l = call.lead
      BY <1>4, <1>6, <3>1
    <3>2. CASE l # call.lead
      <4>1. leads'[l] = leads[l] /\ leads[l].project \in Rows /\ projects[leads[l].project].lead = l
        BY <1>4, <2>2, <3>2 DEF ConvInv, LeadTypeOK, Lead, Marks
      <4>2. leads[l].project # k
        BY <1>2, <4>1, ConversionAssumption
      <4> QED
        BY <1>6, <4>1, <4>2
    <3> QED
      BY <3>1, <3>2
  <2>3. ASSUME NEW l \in Leads, leads'[l].project = None PROVE leads'[l].client = None
    BY <1>2, <1>4, <2>3, ConversionAssumption DEF ConvInv, Marks
  <2> QED
    BY <2>1, <2>2, <2>3 DEF Marks
<1>12. Knows(calls[k])' /\ Grounds(calls[k])'
  <2>1. k # None
    BY <1>2, ConversionAssumption
  <2>2. Knows(calls[k])'
    BY <1>1, <1>2, <1>3, <1>4, <1>7, <2>1 DEF Knows, Past, Made, DealsOf, n, Routes
  <2>3. Grounds(calls[k])'
    BY <1>3 DEF Grounds, Made, n
  <2> QED
    BY <2>2, <2>3
<1>13. ASSUME NEW j \in Calls, j # k PROVE Knows(calls[j])' /\ Grounds(calls[j])'
  <2> DEFINE c == calls[j]
  <2>1. calls'[j] = c /\ c \in Call /\ Knows(c) /\ Grounds(c)
    BY <1>3, <1>13 DEF ConvInv, LeadTypeOK
  <2>2. c.at \in Inside => c.lead # call.lead
    BY <1>1, <1>13 DEF ConvInv, Exclusive, Inside
  <2>3. c.at \in Past => c.at \in Inside
    BY DEF Past, Inside
  <2>4. c.at # "idle" => c.lead \in Leads /\ c.lead # None
    BY <2>1, ConversionAssumption DEF Knows
  <2>5. ASSUME c.at \in Past
        PROVE  leads'[c.lead].project = None /\ \A d \in Rows : deals'[d] # c.lead
    <3>1. c.lead \in Leads /\ c.lead # call.lead /\ c.lead # None
      BY <2>2, <2>3, <2>4, <2>5 DEF Past
    <3>2. leads[c.lead].project = None /\ \A d \in Rows : deals[d] # c.lead
      BY <2>1, <2>5 DEF Knows, DealsOf
    <3> QED
      BY <1>4, <1>7, <3>1, <3>2
  <2>6. ASSUME c.at \in {"verifying", "found", "created"}
        PROVE  leads'[c.lead] = leads[c.lead] /\ c.lead # call.lead
    <3>1. c.lead \in Leads /\ leads[c.lead].project # None
      BY <2>1, <2>4, <2>6 DEF Knows
    <3> QED
      BY <1>1, <1>4, <3>1
  <2>7. ASSUME c.at \in {"found", "created"}, c.route = "legacy"
        PROVE  c.deal \in Rows /\ deals'[c.deal] = c.lead
    <3>1. c.deal \in Rows /\ deals[c.deal] = c.lead /\ c.lead # None
      BY <2>1, <2>4, <2>7 DEF Knows, DealsOf
    <3> QED
      BY <1>2, <1>7, <3>1
  <2>8. Knows(calls[j])'
    <3>1. \A d \in Rows : d \in DealsOf(calls[j].lead)' <=> deals'[d] = c.lead
      BY <2>1 DEF DealsOf
    <3> HIDE DEF c
    <3>2. c.at \in Past => DealsOf(calls[j].lead)' = {}
      BY <2>1, <2>5, <3>1 DEF DealsOf
    <3> QED
      BY <2>1, <2>5, <2>6, <2>7, <3>1, <3>2 DEF Knows
  <2>9. Grounds(calls[j])'
    <3>1. c.at = "writing" /\ c.client # None => clients'[c.client] = clients[c.client]
      BY <1>2, <1>5, <2>1 DEF Grounds, Call
    <3> HIDE DEF c
    <3> QED
      BY <1>7, <2>1, <3>1 DEF Grounds, OwnerOf, Reachable, SameContact
  <2> QED
    BY <2>8, <2>9
<1> QED
  BY <1>8, <1>9, <1>10, <1>11, <1>12, <1>13 DEF ConvInv

------------------------------------------------------------------------------
(* Writes by staff.  Each leaves the calls alone and waits for the locks   *)
(* that protect what a call knows.                                         *)
LEMMA EditLeadStep ==
  ASSUME ConvInv, writes' \in 0..MaxWrites,
         NEW l \in Leads, NEW h \in Contacts, NEW s \in {"new", "qualified", "converted"},
         EditLead(l, h, s)
  PROVE  ConvInv'
<1>1. /\ leads' = [leads EXCEPT ![l] = [leads[l] EXCEPT !.contact = h, !.status = s]]
      /\ UNCHANGED <<clients, projects, deals, active, calls>>
  BY DEF EditLead
<1> DEFINE lead == [leads[l] EXCEPT !.contact = h, !.status = s]
<1>2. leads[l] \in Lead /\ h \in Details
  BY ConversionAssumption DEF ConvInv, LeadTypeOK
<1>3. lead \in Lead /\ lead.project = leads[l].project /\ lead.client = leads[l].client
  BY <1>2 DEF Lead
<1>4. leads' = [leads EXCEPT ![l] = lead]
  BY <1>1
<1> HIDE DEF lead
<1>5. /\ leads' \in [Leads -> Lead]
      /\ \A m \in Leads : leads'[m].project = leads[m].project /\ leads'[m].client = leads[m].client
  BY <1>3, <1>4 DEF ConvInv, LeadTypeOK
<1>6. LeadTypeOK' /\ Exclusive' /\ Named'
  BY <1>1, <1>5 DEF ConvInv, LeadTypeOK, Exclusive, Named
<1>7. Marks'
  <2>1. \A p \in Rows : projects[p].lead # None => projects[p].lead \in Leads
    BY DEF ConvInv, LeadTypeOK, Project
  <2> QED
    BY <1>1, <1>5, <2>1 DEF ConvInv, Marks
<1>8. ASSUME NEW j \in Calls PROVE Knows(calls[j])' /\ Grounds(calls[j])'
  <2>1. Knows(calls[j]) /\ Grounds(calls[j])
    BY DEF ConvInv
  <2>2. calls[j].at # "idle" => calls[j].lead \in Leads
    BY <2>1 DEF Knows
  <2>3. Knows(calls[j])'
    BY <1>1, <1>5, <2>1, <2>2 DEF Knows, DealsOf, Past
  <2>4. Grounds(calls[j])'
    BY <1>1, <2>1 DEF Grounds, OwnerOf, Reachable, SameContact
  <2> QED
    BY <2>3, <2>4
<1> QED
  BY <1>6, <1>7, <1>8 DEF ConvInv

(* What any write to the clients must leave: the rows of the calls that    *)
(* have not written, and every client that is held.                        *)
LEMMA ClientsStep ==
  ASSUME ConvInv, writes' \in 0..MaxWrites, UNCHANGED <<leads, projects, deals, active, calls>>,
         clients' \in [Rows -> Client],
         NEW c \in Rows, \A b \in Rows : b # c => clients'[b] = clients[b],
         c \in Calls => clients[c].state # "absent",
         clients[c].state = "active" => ~ClientHeld(c)
  PROVE  ConvInv'
<1>1. LeadTypeOK' /\ Exclusive' /\ Marks'
  BY DEF ConvInv, LeadTypeOK, Exclusive, Marks
<1>2. Named'
  BY DEF ConvInv, Named, Rows
<1>3. ASSUME NEW j \in Calls PROVE Knows(calls[j])' /\ Grounds(calls[j])'
  <2>1. Knows(calls[j]) /\ Grounds(calls[j]) /\ calls[j] \in Call
    BY DEF ConvInv, LeadTypeOK
  <2>2. Knows(calls[j])'
    BY <2>1 DEF Knows, DealsOf
  <2>3. calls[j].at = "writing" /\ calls[j].client # None =>
          clients'[calls[j].client] = clients[calls[j].client]
    BY <2>1 DEF Grounds, ClientHeld, Call
  <2>4. Grounds(calls[j])'
    BY <2>1, <2>3 DEF Grounds, OwnerOf, Reachable, SameContact
  <2> QED
    BY <2>2, <2>4
<1> QED
  BY <1>1, <1>2, <1>3 DEF ConvInv

LEMMA AddClientStep ==
  ASSUME ConvInv, writes' \in 0..MaxWrites, NEW c \in Entered, NEW h \in Contacts,
         NEW l \in Leads, AddClient(c, h, Home[l])
  PROVE  ConvInv'
<1>1. h \in Details /\ clients \in [Rows -> Client] /\ c \in Rows
  BY ConversionAssumption DEF ConvInv, LeadTypeOK, Rows
<1>2. [contact |-> h, home |-> Home[l], state |-> "active"] \in Client
  BY <1>1 DEF Client
<1>3. /\ clients' \in [Rows -> Client] /\ \A b \in Rows : b # c => clients'[b] = clients[b]
      /\ clients[c].state = "absent" /\ UNCHANGED <<leads, projects, deals, active, calls>>
  BY <1>1, <1>2 DEF AddClient
<1> QED
  BY <1>1, <1>3, ClientsStep, ConversionAssumption

LEMMA EditClientStep ==
  ASSUME ConvInv, writes' \in 0..MaxWrites, NEW c \in Rows, NEW h \in Contacts,
         EditClient(c, h)
  PROVE  ConvInv'
<1>1. h \in Details /\ clients \in [Rows -> Client]
  BY ConversionAssumption DEF ConvInv, LeadTypeOK
<1>2. [clients[c] EXCEPT !.contact = h] \in Client
  BY <1>1 DEF Client
<1>3. clients' = [clients EXCEPT ![c] = [clients[c] EXCEPT !.contact = h]]
  BY DEF EditClient
<1>4. /\ clients' \in [Rows -> Client] /\ \A b \in Rows : b # c => clients'[b] = clients[b]
      /\ clients[c].state # "absent" /\ ~ClientHeld(c)
      /\ UNCHANGED <<leads, projects, deals, active, calls>>
  BY <1>1, <1>2, <1>3 DEF EditClient
<1> QED
  BY <1>4, ClientsStep

LEMMA DropClientStep ==
  ASSUME ConvInv, writes' \in 0..MaxWrites, NEW c \in Rows, DropClient(c)
  PROVE  ConvInv'
<1>1. clients \in [Rows -> Client]
  BY DEF ConvInv, LeadTypeOK
<1>2. [clients[c] EXCEPT !.state = "inactive"] \in Client
  BY <1>1 DEF Client
<1>3. clients' = [clients EXCEPT ![c] = [clients[c] EXCEPT !.state = "inactive"]]
  BY DEF DropClient
<1>4. /\ clients' \in [Rows -> Client] /\ \A b \in Rows : b # c => clients'[b] = clients[b]
      /\ clients[c].state # "absent" /\ ~ClientHeld(c)
      /\ UNCHANGED <<leads, projects, deals, active, calls>>
  BY <1>1, <1>2, <1>3 DEF DropClient
<1> QED
  BY <1>4, ClientsStep

(* A project that staff write has no lead before and after, or keeps what  *)
(* it says of its lead.                                                    *)
LEMMA ProjectsStep ==
  ASSUME ConvInv, writes' \in 0..MaxWrites, UNCHANGED <<leads, clients, deals, active, calls>>,
         projects' \in [Rows -> Project],
         \A p \in Rows : /\ projects'[p].lead = projects[p].lead
                         /\ projects[p].lead # None => projects'[p].client = projects[p].client
  PROVE  ConvInv'
<1>1. LeadTypeOK' /\ Exclusive'
  BY DEF ConvInv, LeadTypeOK, Exclusive
<1>2. Named' /\ Marks'
  <2>1. \A l \in Leads : leads[l].project # None => leads[l].project \in Rows
    BY DEF ConvInv, LeadTypeOK, Lead
  <2> QED
    BY <2>1 DEF ConvInv, Named, Marks, Rows
<1>3. \A j \in Calls : Knows(calls[j])' /\ Grounds(calls[j])'
  BY DEF ConvInv, Knows, Grounds, DealsOf, OwnerOf, Reachable, SameContact
<1> QED
  BY <1>1, <1>2, <1>3 DEF ConvInv

LEMMA AddProjectStep ==
  ASSUME ConvInv, writes' \in 0..MaxWrites, NEW p \in Entered, NEW c \in Rows \cup {None},
         NEW l \in Leads, NEW a \in Profiles, AddProject(p, c, Site[l], a)
  PROVE  ConvInv'
<1> DEFINE job == [lead |-> None, client |-> c, site |-> Site[l], owner |-> a, state |-> "open"]
<1>1. job \in Project /\ job.lead = None
  BY DEF Project
<1>2. p \in Rows /\ projects[p].lead = None /\ projects \in [Rows -> Project]
  BY DEF ConvInv, LeadTypeOK, Named, Rows
<1>3. projects' = [projects EXCEPT ![p] = job] /\ UNCHANGED <<leads, clients, deals, active, calls>>
  BY DEF AddProject
<1> HIDE DEF job
<1>4. /\ projects' \in [Rows -> Project]
      /\ \A q \in Rows : /\ projects'[q].lead = projects[q].lead
                         /\ projects[q].lead # None => projects'[q].client = projects[q].client
  BY <1>1, <1>2, <1>3
<1> QED
  BY <1>3, <1>4, ProjectsStep

LEMMA CancelProjectStep ==
  ASSUME ConvInv, writes' \in 0..MaxWrites, NEW p \in Rows, CancelProject(p)
  PROVE  ConvInv'
<1> DEFINE job == [projects[p] EXCEPT !.state = "closed"]
<1>1. projects[p] \in Project /\ projects \in [Rows -> Project]
  BY DEF ConvInv, LeadTypeOK
<1>2. job \in Project /\ job.lead = projects[p].lead /\ job.client = projects[p].client
  BY <1>1 DEF Project
<1>3. projects' = [projects EXCEPT ![p] = job] /\ UNCHANGED <<leads, clients, deals, active, calls>>
  BY DEF CancelProject
<1> HIDE DEF job
<1>4. /\ projects' \in [Rows -> Project]
      /\ \A q \in Rows : /\ projects'[q].lead = projects[q].lead
                         /\ projects[q].lead # None => projects'[q].client = projects[q].client
  BY <1>1, <1>2, <1>3
<1> QED
  BY <1>3, <1>4, ProjectsStep

LEMMA AddDealStep ==
  ASSUME ConvInv, writes' \in 0..MaxWrites, NEW d \in Entered, NEW l \in Leads, AddDeal(d, l)
  PROVE  ConvInv'
<1>1. /\ deals' = [deals EXCEPT ![d] = l] /\ deals[d] = None /\ ~LeadHeld(l)
      /\ UNCHANGED <<leads, clients, projects, active, calls>>
  BY DEF AddDeal
<1>2. /\ d \in Rows /\ d \notin Calls /\ deals' \in [Rows -> Leads \cup {None}] /\ deals'[d] = l
      /\ \A e \in Rows : e # d => deals'[e] = deals[e]
  BY <1>1, ConversionAssumption DEF ConvInv, LeadTypeOK, Rows
<1>3. LeadTypeOK' /\ Exclusive' /\ Marks'
  BY <1>1, <1>2 DEF ConvInv, LeadTypeOK, Exclusive, Marks
<1>4. Named'
  BY <1>1, <1>2 DEF ConvInv, Named, Rows
<1>5. ASSUME NEW j \in Calls PROVE Knows(calls[j])' /\ Grounds(calls[j])'
  <2> DEFINE c == calls[j]
  <2>1. Knows(c) /\ Grounds(c)
    BY DEF ConvInv
  <2>2. c.at \in Past => c.lead # l
    BY <1>1 DEF Past, Inside, LeadHeld
  <2>3. c.at \in Past => DealsOf(c.lead)' = {}
    <3>1. c.at \in Past => DealsOf(c.lead) = {}
      BY <2>1 DEF Knows
    <3> QED
      BY <1>1, <1>2, <2>2, <3>1 DEF DealsOf
  <2>4. c.at \in {"found", "created"} /\ c.route = "legacy" => c.deal \in DealsOf(c.lead)'
    <3>1. c.at # "idle" => c.lead # None
      BY <2>1, ConversionAssumption DEF Knows
    <3>2. c.at \in {"found", "created"} /\ c.route = "legacy" => c.deal \in DealsOf(c.lead)
      BY <2>1 DEF Knows
    <3> QED
      BY <1>1, <1>2, <3>1, <3>2 DEF DealsOf
  <2>5. Knows(calls[j])'
    BY <1>1, <2>1, <2>3, <2>4 DEF Knows
  <2>6. Grounds(calls[j])'
    BY <1>1, <2>1 DEF Grounds, OwnerOf, Reachable, SameContact
  <2> QED
    BY <2>5, <2>6
<1> QED
  BY <1>3, <1>4, <1>5 DEF ConvInv

LEMMA DeactivateStep ==
  ASSUME ConvInv, writes' \in 0..MaxWrites, NEW a \in Profiles, Deactivate(a)
  PROVE  ConvInv'
<1>1. /\ active' = active \ {a} /\ ~ProfileHeld(a)
      /\ UNCHANGED <<leads, clients, projects, deals, calls>>
  BY DEF Deactivate
<1>2. LeadTypeOK' /\ Exclusive' /\ Named' /\ Marks'
  BY <1>1 DEF ConvInv, LeadTypeOK, Exclusive, Named, Marks
<1>3. ASSUME NEW j \in Calls PROVE Knows(calls[j])' /\ Grounds(calls[j])'
  <2>1. Knows(calls[j]) /\ Grounds(calls[j])
    BY DEF ConvInv
  <2>2. calls[j].at \in {"reusing", "writing"} => OwnerOf(calls[j]) # a
    BY <1>1 DEF ProfileHeld
  <2>3. Knows(calls[j])'
    BY <1>1, <2>1 DEF Knows, DealsOf
  <2>4. Grounds(calls[j])'
    BY <1>1, <2>1, <2>2 DEF Grounds, OwnerOf, Reachable, SameContact
  <2> QED
    BY <2>3, <2>4
<1> QED
  BY <1>2, <1>3 DEF ConvInv

------------------------------------------------------------------------------
(* The induction.                                                          *)
LEMMA InitStep == Init => ConvInv
<1> SUFFICES ASSUME Init PROVE ConvInv
  OBVIOUS
<1>1. LeadTypeOK
  <2>1. leads \in [Leads -> Lead]
    BY ConversionAssumption DEF Init, Lead
  <2>2. clients \in [Rows -> Client] /\ projects \in [Rows -> Project]
    BY DEF Init, Client, Project
  <2>3. calls \in [Calls -> Call]
    BY DEF Init, Call
  <2> QED
    BY <2>1, <2>2, <2>3, ConversionAssumption DEF LeadTypeOK, Init
<1>2. Exclusive /\ Named /\ Marks
  <2>1. Exclusive
    BY DEF Init, Exclusive, Inside
  <2>2. Named
    BY DEF Init, Named, Rows
  <2>3. Marks
    BY DEF Init, Marks
  <2> QED
    BY <2>1, <2>2, <2>3
<1>3. ASSUME NEW k \in Calls PROVE Knows(calls[k]) /\ Grounds(calls[k])
  <2>1. calls[k].at = "idle" /\ calls[k].client = None
    BY DEF Init
  <2> QED
    BY <2>1 DEF Knows, Grounds, Past
<1> QED
  BY <1>1, <1>2, <1>3 DEF ConvInv

LEMMA ConvertStep ==
  ASSUME ConvInv, Convert
  PROVE  ConvInv'
<1>1. UNCHANGED writes
  BY DEF Convert
<1>2. PICK k \in Calls : Step(k) \/ Abort(k) \/ \E ask \in Asks : Start(k, ask)
  BY DEF Convert
<1>3. CASE LockLead(k) \/ Find(k) \/ Verify(k)
  BY <1>1, <1>3, LockLeadStep, FindStep, VerifyStep
<1>4. CASE ReadClients(k) \/ ReadProjects(k) \/ Refuse(k)
  BY <1>1, <1>4, ReadClientsStep, ReadProjectsStep, RefuseStep
<1>5. CASE CheckOwner(k) \/ LockClient(k) \/ Write(k)
  BY <1>1, <1>5, CheckOwnerStep, LockClientStep, WriteStep
<1>6. CASE Abort(k)
  BY <1>1, <1>6, AbortStep DEF Abort
<1>7. ASSUME NEW ask \in Asks, Start(k, ask) PROVE ConvInv'
  BY <1>1, <1>7, StartStep
<1> QED
  BY <1>2, <1>3, <1>4, <1>5, <1>6, <1>7 DEF Step

LEMMA StaffStep ==
  ASSUME ConvInv, Staff
  PROVE  ConvInv'
<1>1. writes' \in 0..MaxWrites
  BY ConversionAssumption DEF Staff, ConvInv, LeadTypeOK
<1>2. ASSUME NEW l \in Leads, NEW h \in Contacts, NEW s \in {"new", "qualified", "converted"},
             EditLead(l, h, s)
      PROVE  ConvInv'
  BY <1>1, <1>2, EditLeadStep
<1>3. ASSUME NEW c \in Entered, NEW h \in Contacts, NEW l \in Leads, AddClient(c, h, Home[l])
      PROVE  ConvInv'
  BY <1>1, <1>3, AddClientStep
<1>4. ASSUME NEW c \in Rows, NEW h \in Contacts, EditClient(c, h) PROVE ConvInv'
  BY <1>1, <1>4, EditClientStep
<1>5. ASSUME NEW c \in Rows, DropClient(c) PROVE ConvInv'
  BY <1>1, <1>5, DropClientStep
<1>6. ASSUME NEW p \in Entered, NEW c \in Rows \cup {None}, NEW l \in Leads,
             NEW a \in Profiles, AddProject(p, c, Site[l], a)
      PROVE  ConvInv'
  BY <1>1, <1>6, AddProjectStep
<1>7. ASSUME NEW p \in Rows, CancelProject(p) PROVE ConvInv'
  BY <1>1, <1>7, CancelProjectStep
<1>8. ASSUME NEW d \in Entered, NEW l \in Leads, AddDeal(d, l) PROVE ConvInv'
  BY <1>1, <1>8, AddDealStep
<1>9. ASSUME NEW a \in Profiles, Deactivate(a) PROVE ConvInv'
  BY <1>1, <1>9, DeactivateStep
<1> QED
  BY <1>2, <1>3, <1>4, <1>5, <1>6, <1>7, <1>8, <1>9 DEF Staff, StaffWrite

LEMMA NextStep == ConvInv /\ [Next]_vars => ConvInv'
<1>1. ASSUME ConvInv, UNCHANGED vars PROVE ConvInv'
  <2>1. UNCHANGED rows /\ UNCHANGED calls /\ UNCHANGED writes
    BY <1>1 DEF vars
  <2>2. LeadTypeOK' /\ Exclusive' /\ Named' /\ Marks'
    BY <1>1, <2>1 DEF ConvInv, LeadTypeOK, Exclusive, Named, Marks, rows
  <2>3. \A k \in Calls : Knows(calls[k])' /\ Grounds(calls[k])'
    BY <1>1, <2>1 DEF ConvInv, Knows, Grounds, rows, DealsOf, OwnerOf, Reachable, SameContact
  <2> QED
    BY <2>2, <2>3 DEF ConvInv
<1> QED
  BY <1>1, ConvertStep, StaffStep DEF Next

LEMMA Conversions == Spec => []ConvInv
BY InitStep, NextStep, PTL DEF Spec

------------------------------------------------------------------------------
(* Every variable keeps its type in every behaviour of the two routes and  *)
(* of staff (the records of lead-conversion.ts 370-700).                   *)
THEOREM LeadTyping == Spec => []LeadTypeOK
<1>1. ConvInv => LeadTypeOK
  BY DEF ConvInv
<1> QED
  BY <1>1, Conversions, PTL

(* A lead becomes one project, whatever routes, retries and lost answers   *)
(* meet at it, and every answer names its rows: for any number of calls    *)
(* (lead-conversion-identity.ts 132-277).                                  *)
THEOREM ConvertedOnce == Spec => []OneConversion
<1>1. ASSUME ConvInv PROVE OneConversion
  <2>1. \A p \in Rows : projects[p].lead # None =>
          leads[projects[p].lead].project = p /\ leads[projects[p].lead].client = projects[p].client
    BY <1>1 DEF ConvInv, Marks
  <2>2. \A l \in Leads : HasProject(l) => projects[leads[l].project].lead = l
    BY <1>1 DEF ConvInv, Marks, HasProject
  <2>3. ASSUME NEW k \in Calls, calls[k].at \in {"created", "found"}
        PROVE  /\ leads[calls[k].lead].project = calls[k].project
               /\ leads[calls[k].lead].client = calls[k].client
               /\ calls[k].route = "legacy" => calls[k].deal \in DealsOf(calls[k].lead)
    <3>1. Knows(calls[k])
      BY <1>1 DEF ConvInv
    <3> QED
      BY <2>3, <3>1 DEF Knows
  <2> QED
    BY <2>1, <2>2, <2>3 DEF OneConversion
<1> QED
  BY <1>1, Conversions, PTL

(* A step of a conversion leaves the record of every lead alone that has   *)
(* its project.                                                            *)
LEMMA RowKept ==
  ASSUME ConvInv, Convert, NEW l \in Leads, HasProject(l)
  PROVE  leads'[l] = leads[l]
<1>1. PICK k \in Calls : Step(k) \/ Abort(k) \/ \E ask \in Asks : Start(k, ask)
  BY DEF Convert
<1>2. CASE Write(k)
  <2>1. leads[calls[k].lead].project = None
    BY <1>2 DEF ConvInv, Knows, Past, Write
  <2> QED
    BY <1>2, <2>1, WriteEffect DEF HasProject
<1>3. CASE Refuse(k)
  <2>1. leads[calls[k].lead].project = None
    BY <1>3 DEF ConvInv, Knows, Past, Refuse
  <2> QED
    BY <1>3, <2>1 DEF HasProject, Refuse, ConvInv, LeadTypeOK
<1>4. CASE UNCHANGED rows
  BY <1>4 DEF rows
<1> QED
  BY <1>1, <1>2, <1>3, <1>4, Zenon DEF Step, Abort, Start, LockLead, Find, Verify, ReadClients,
     ReadProjects, CheckOwner, LockClient

(* No conversion, a refused one in particular, ever touches the record of  *)
(* a lead that has its project: only an edit by staff does                 *)
(* (lead-conversion.ts 419-452).                                           *)
THEOREM RecordsKept == Spec => ConvertedRowKept
<1>1. ASSUME ConvInv, [Next]_vars
      PROVE  [\A l \in Leads : HasProject(l) =>
                 \/ leads'[l] = leads[l]
                 \/ \E h \in Contacts, s \in {"new", "qualified", "converted"} : EditLead(l, h, s)]_vars
  <2> SUFFICES ASSUME Next, NEW l \in Leads, HasProject(l)
               PROVE  \/ leads'[l] = leads[l]
                      \/ \E h \in Contacts, s \in {"new", "qualified", "converted"} : EditLead(l, h, s)
    BY <1>1
  <2>1. CASE Convert
    BY <1>1, <2>1, RowKept
  <2>2. CASE Staff
    <3>1. CASE UNCHANGED leads
      BY <3>1
    <3>2. ASSUME NEW m \in Leads, NEW h \in Contacts,
                 NEW s \in {"new", "qualified", "converted"}, EditLead(m, h, s)
          PROVE  leads'[l] = leads[l] \/ EditLead(l, h, s)
      BY <1>1, <3>2 DEF EditLead, ConvInv, LeadTypeOK
    <3> QED
      BY <2>2, <3>1, <3>2 DEF Staff, StaffWrite, AddClient, EditClient, DropClient,
         AddProject, CancelProject, AddDeal, Deactivate
  <2> QED
    BY <2>1, <2>2 DEF Next
<1> QED
  BY <1>1, Conversions, PTL DEF Spec, ConvertedRowKept

(* A call is seen to leave "writing" with a project only when it commits.  *)
LEMMA OnlyByWrite ==
  ASSUME ConvInv, Next, NEW k \in Calls, calls[k].at = "writing", calls'[k].at \in Made
  PROVE  Write(k)
<1>1. CASE Staff
  <2>1. calls' = calls
    BY <1>1 DEF Staff, StaffWrite, EditLead, AddClient, EditClient, DropClient,
       AddProject, CancelProject, AddDeal, Deactivate
  <2> QED
    BY <2>1 DEF Made
<1>2. CASE Convert
  <2>1. PICK j \in Calls : Step(j) \/ Abort(j) \/ \E ask \in Asks : Start(j, ask)
    BY <1>2 DEF Convert
  <2>2. \E c : Become(j, c)
    BY <2>1, Zenon DEF Step, Abort, Start, LockLead, Find, Verify, ReadClients, ReadProjects,
       Refuse, CheckOwner, LockClient, Write, Go
  <2>3. j # k => calls'[k] = calls[k]
    BY <2>2 DEF Become, ConvInv, LeadTypeOK
  <2>4. j = k
    BY <2>3 DEF Made
  <2>5. ASSUME Abort(k) PROVE FALSE
    <3>1. calls' = [calls EXCEPT ![k] = [calls[k] EXCEPT !.at = "failed"]]
      BY <2>5 DEF Abort, Go, Become
    <3>2. calls \in [Calls -> Call] /\ [calls[k] EXCEPT !.at = "failed"].at = "failed"
      BY DEF ConvInv, LeadTypeOK, Call
    <3>3. calls'[k].at = "failed"
      BY <3>1, <3>2
    <3> QED
      BY <3>3 DEF Made
  <2> QED
    BY <2>1, <2>4, <2>5, Zenon DEF Step, Start, LockLead, Find, Verify, ReadClients,
       ReadProjects, Refuse, CheckOwner, LockClient
<1> QED
  BY <1>1, <1>2 DEF Next

(* Each project that a conversion makes stands on a client that is active  *)
(* and still matches the lead's contact at the commit, and on an active    *)
(* owner, the lead's own if it has one (lead-conversion.ts 472-559).       *)
THEOREM WellFounded == Spec => ProjectsWellFounded
<1> DEFINE Stands(k) ==
      LET p == projects'[calls'[k].project]  c == clients'[p.client] IN
      /\ c.state = "active"
      /\ calls[k].route = "modern" => SameContact(calls[k].contact, c.contact)
      /\ p.owner \in active
      /\ Owner[calls[k].lead] \in {p.owner, None}
<1>1. ASSUME ConvInv, NEW k \in Calls, Write(k)
      PROVE  Stands(k)
  <2> DEFINE call == calls[k]  n == calls'[k]
  <2>1. call.at = "writing" /\ Grounds(call) /\ call.contact \in Details /\ call \in Call
    BY <1>1 DEF ConvInv, LeadTypeOK, Knows, Write
  <2>2. /\ n.project = k /\ n.client = (IF call.client = None THEN k ELSE call.client)
        /\ \A c \in Rows : c # k \/ call.client # None => clients'[c] = clients[c]
        /\ call.client = None => clients'[k].state = "active" /\ clients'[k].contact = call.contact
        /\ projects'[k].client = n.client /\ projects'[k].owner = OwnerOf(call)
    BY <1>1, WriteEffect
  <2>3. OwnerOf(call) \in active
    BY <2>1 DEF Grounds
  <2>4. Owner[call.lead] \in {OwnerOf(call), None}
    BY DEF OwnerOf
  <2>5. CASE call.client = None
    <3>1. call.route = "modern" => SameContact(call.contact, call.contact)
      BY <2>1 DEF Grounds, Reachable, SameContact
    <3> QED
      BY <2>2, <2>3, <2>4, <2>5, <3>1
  <2>6. CASE call.client # None
    <3>1. /\ clients[call.client].state = "active"
          /\ SameContact(call.contact, clients[call.client].contact)
          /\ call.client \in Rows
      BY <2>1, <2>6 DEF Grounds, Call
    <3> QED
      BY <2>2, <2>3, <2>4, <2>6, <3>1
  <2> QED
    BY <2>5, <2>6
<1> HIDE DEF Stands
<1>2. ASSUME ConvInv, [Next]_vars
      PROVE  [\A k \in Calls : calls[k].at = "writing" /\ calls'[k].at \in Made => Stands(k)]_vars
  BY <1>1, <1>2, OnlyByWrite
<1> USE DEF Stands
<1> QED
  BY <1>2, Conversions, PTL DEF Spec, ProjectsWellFounded, Made

(* The legacy route opens its deal only when no deal names the lead, made  *)
(* by staff or by another conversion (lead-conversion-identity.ts          *)
(* 163-171, with the foreign key of deals).                                *)
THEOREM OneDeal == Spec => NoSecondDeal
<1>1. ASSUME ConvInv, NEW k \in Calls, calls[k].at = "writing"
      PROVE  DealsOf(calls[k].lead) = {}
  BY <1>1 DEF ConvInv, Knows, Past
<1>2. ASSUME ConvInv, [Next]_vars
      PROVE  [\A k \in Calls :
                calls[k].at = "writing" /\ calls[k].route = "legacy"
                  /\ calls'[k].at \in {"created", "lost"} =>
                  DealsOf(calls[k].lead) = {}]_vars
  BY <1>1, <1>2
<1> QED
  BY <1>2, Conversions, PTL DEF Spec, NoSecondDeal

------------------------------------------------------------------------------
(* Twins.                                                                  *)

(* No two conversions are inside their transactions together.              *)
Alone ==
  \A j, k \in Calls : calls[j].at \in Inside /\ calls[k].at \in Inside => j = k

(* A call that is to make a client has found none with its contact.        *)
Unmatched(call) ==
  /\ call.client = None
  /\ \/ call.at = "projects" /\ call.decision \in Allowed
     \/ call.at \in {"owner", "writing"}
  => \A c \in ActiveClients : ~SameContact(call.contact, clients[c].contact)

Single ==
  /\ \A c, d \in ActiveClients :
       c # d => ~SameContact(clients[c].contact, clients[d].contact)
  /\ \A k \in Calls : calls[k].at # "idle" => calls[k].route = "modern"
  /\ \A k \in Calls : Unmatched(calls[k])
  /\ \A k \in Calls : calls[k].at = "created" => calls[k].client \in ActiveClients

(* A step that writes no client.                                           *)
LEMMA Untwinned ==
  ASSUME ConvInv, Single, UNCHANGED clients, NEW k \in Calls, NEW c, Become(k, c),
         c.route = "modern", Unmatched(c), c.at # "created"
  PROVE  Single'
<1>1. calls'[k] = c /\ \A j \in Calls : j # k => calls'[j] = calls[j]
  BY DEF Become, ConvInv, LeadTypeOK
<1>2. ActiveClients' = ActiveClients
  BY DEF ActiveClients
<1>3. ASSUME NEW j \in Calls PROVE Unmatched(calls[j])'
  <2>1. Unmatched(calls'[j])
    BY <1>1 DEF Single
  <2> QED
    BY <2>1, <1>2 DEF Unmatched, SameContact
<1>4. \A a, b \in ActiveClients' : a # b => ~SameContact(clients'[a].contact, clients'[b].contact)
  BY <1>2 DEF Single
<1>5. \A j \in Calls : calls'[j].at # "idle" => calls'[j].route = "modern"
  BY <1>1 DEF Single
<1>6. \A j \in Calls : calls'[j].at = "created" => calls'[j].client \in ActiveClients'
  BY <1>1, <1>2 DEF Single
<1> QED
  BY <1>3, <1>4, <1>5, <1>6 DEF Single, SameContact

(* A call that only moves on and does not become one that writes.          *)
LEMMA UntwinnedMove ==
  ASSUME ConvInv, Single, UNCHANGED clients, NEW k \in Calls, calls[k].at # "idle",
         NEW x \in {"clients", "refusing", "reusing", "found", "refused", "failed"}, Go(k, x)
  PROVE  Single'
<1> DEFINE c == [calls[k] EXCEPT !.at = x]
<1>1. calls[k] \in Call /\ calls[k].route = "modern"
  BY DEF ConvInv, LeadTypeOK, Single
<1>2. c.at = x /\ c.route = "modern" /\ Become(k, c)
  BY <1>1 DEF Call, Go
<1> HIDE DEF c
<1>3. Unmatched(c)
  BY <1>2 DEF Unmatched
<1> QED
  BY <1>2, <1>3, Untwinned

LEMMA UntwinnedPlan ==
  ASSUME ConvInv, Single, NEW k \in Calls, ReadClients(k)
  PROVE  Single'
<1> DEFINE call == calls[k]
<1>1. call \in Call /\ call.route = "modern" /\ UNCHANGED clients
  <2>1. call.at = "clients" /\ UNCHANGED clients
    BY Zenon DEF ReadClients, rows
  <2> QED
    BY <2>1 DEF ConvInv, LeadTypeOK, Single
<1>2. ASSUME NEW decision \in Decisions, NEW c \in Rows \cup {None},
             decision \in Allowed /\ c = None =>
               \A d \in ActiveClients : ~SameContact(call.contact, clients[d].contact),
             Become(k, [call EXCEPT !.at = "projects", !.decision = decision, !.client = c])
      PROVE  Single'
  <2> DEFINE n == [call EXCEPT !.at = "projects", !.decision = decision, !.client = c]
  <2>1. /\ n.at = "projects" /\ n.route = "modern" /\ n.contact = call.contact
        /\ n.decision = decision /\ n.client = c
    BY <1>1 DEF Call
  <2>2. Become(k, n)
    BY <1>2
  <2> HIDE DEF n
  <2>3. Unmatched(n)
    BY <1>2, <2>1 DEF Unmatched
  <2> QED
    BY <1>1, <2>1, <2>2, <2>3, Untwinned
<1> HIDE DEF call
<1>3. CASE Become(k, [call EXCEPT !.at = "projects", !.decision = "blocked_minimum_data", !.client = None])
  <2>1. "blocked_minimum_data" \in Decisions /\ "blocked_minimum_data" \notin Allowed
    BY DEF Decisions, Allowed, Refused
  <2> QED
    BY <1>2, <1>3, <2>1, Zenon
<1>4. CASE Become(k, [call EXCEPT !.at = "projects", !.decision = "needs_review", !.client = None])
  <2>1. "needs_review" \in Decisions /\ "needs_review" \notin Allowed
    BY DEF Decisions, Allowed, Refused
  <2> QED
    BY <1>2, <1>4, <2>1, Zenon
<1>5. CASE /\ {c \in ActiveClients : SameContact(call.contact, clients[c].contact)} = {}
           /\ Become(k, [call EXCEPT !.at = "projects", !.decision = "convert", !.client = None])
  <2>1. "convert" \in Decisions
    BY DEF Decisions, Allowed, Refused
  <2>2. \A d \in ActiveClients : ~SameContact(call.contact, clients[d].contact)
    BY <1>5
  <2> QED
    BY <1>2, <1>5, <2>1, <2>2, Zenon
<1>6. ASSUME NEW c \in ActiveClients,
             Become(k, [call EXCEPT !.at = "projects", !.decision = "reuse_client", !.client = c])
      PROVE  Single'
  <2>1. c \in Rows /\ c # None /\ "reuse_client" \in Decisions
    BY ConversionAssumption DEF ActiveClients, Decisions, Allowed
  <2> QED
    BY <1>2, <1>6, <2>1, Zenon
<1> QED
  BY <1>3, <1>4, <1>5, <1>6, Zenon DEF ReadClients, call

(* The steps between the plan and the write.                               *)
LEMMA UntwinnedOnward ==
  ASSUME ConvInv, Single, NEW k \in Calls,
         ReadProjects(k) \/ CheckOwner(k) \/ LockClient(k)
  PROVE  Single'
<1> DEFINE call == calls[k]
<1>1. /\ call \in Call /\ call.at \in {"projects", "owner", "reusing"} /\ call.route = "modern"
      /\ Unmatched(call) /\ Grounds(call) /\ UNCHANGED clients
  BY DEF ConvInv, LeadTypeOK, Single, ReadProjects, CheckOwner, LockClient, rows
<1>2. ASSUME NEW x \in {"owner", "writing"}, Go(k, x),
             \/ call.at = "projects" /\ call.decision \in Allowed
             \/ call.at = "owner"
             \/ call.at = "reusing"
      PROVE  Single'
  <2> DEFINE n == [call EXCEPT !.at = x]
  <2>1. /\ n.at = x /\ n.route = "modern" /\ n.contact = call.contact
        /\ n.client = call.client
    BY <1>1 DEF Call
  <2>2. Become(k, n)
    BY <1>2 DEF Go
  <2> HIDE DEF n
  <2>3. Unmatched(n)
    BY <1>1, <1>2, <2>1 DEF Unmatched, Grounds
  <2> QED
    BY <1>1, <2>1, <2>2, <2>3, Untwinned
<1>3. CASE Become(k, [call EXCEPT !.at = "refusing", !.decision = "needs_review"])
  <2> DEFINE n == [call EXCEPT !.at = "refusing", !.decision = "needs_review"]
  <2>1. n.at = "refusing" /\ n.route = "modern" /\ Become(k, n)
    BY <1>1, <1>3 DEF Call
  <2> HIDE DEF n
  <2>2. Unmatched(n)
    BY <2>1 DEF Unmatched
  <2> QED
    BY <1>1, <2>1, <2>2, Untwinned
<1>4. ASSUME NEW x \in {"refusing", "reusing", "failed"}, Go(k, x) PROVE Single'
  BY <1>1, <1>4, UntwinnedMove
<1> QED
  BY <1>1, <1>2, <1>3, <1>4 DEF ReadProjects, CheckOwner, LockClient

(* The write: nobody else is about to make a client.                       *)
LEMMA UntwinnedWrite ==
  ASSUME ConvInv, Single, Alone, NEW k \in Calls, Write(k)
  PROVE  Single'
<1> DEFINE call == calls[k]  n == calls'[k]
<1>1. /\ call.at = "writing" /\ call.route = "modern" /\ Unmatched(call) /\ Grounds(call)
      /\ call \in Call
  BY DEF ConvInv, LeadTypeOK, Single, Write
<1>2. /\ \A j \in Calls : j # k => calls'[j] = calls[j]
      /\ n.at \in Made /\ n.route = call.route
      /\ n.client = (IF call.client = None THEN k ELSE call.client)
      /\ \A c \in Rows : c # k \/ call.client # None => clients'[c] = clients[c]
      /\ call.client = None => clients'[k].state = "active" /\ clients'[k].contact = call.contact
  BY WriteEffect
<1> HIDE DEF n
<1>3. \A j \in Calls : j # k => calls[j].at \notin {"projects", "owner", "writing"}
  BY <1>1 DEF Alone, Inside
<1>4. k \in Rows /\ k # None
  BY ConversionAssumption DEF Rows
<1>5. CASE call.client = None
  <2>1. ActiveClients' \subseteq ActiveClients \cup {k} /\ n.client \in ActiveClients'
    BY <1>2, <1>4, <1>5 DEF ActiveClients
  <2>2. ActiveClients \subseteq ActiveClients'
    BY <1>2, <1>4, <1>5 DEF ActiveClients
  <2>3. \A c \in ActiveClients : ~SameContact(call.contact, clients[c].contact)
    BY <1>1, <1>5 DEF Unmatched
  <2>4. clients[k].state = "absent"
    BY <1>1 DEF ConvInv, Named, Made
  <2>5. \A c \in ActiveClients : c # k /\ clients'[c] = clients[c]
    BY <1>2, <2>4 DEF ActiveClients
  <2>6. ASSUME NEW c \in ActiveClients', NEW d \in ActiveClients', c # d
        PROVE  ~SameContact(clients'[c].contact, clients'[d].contact)
    <3>1. CASE c \in ActiveClients /\ d \in ActiveClients
      BY <2>5, <2>6, <3>1 DEF Single
    <3>2. CASE c = k /\ d \in ActiveClients
      BY <1>2, <1>5, <2>3, <2>5, <3>2
    <3>3. CASE d = k /\ c \in ActiveClients
      BY <1>2, <1>5, <2>3, <2>5, <3>3 DEF SameContact
    <3> QED
      BY <2>1, <2>6, <3>1, <3>2, <3>3
  <2>7. \A j \in Calls : calls'[j].at \notin {"projects", "owner", "writing"}
    BY <1>2, <1>3 DEF Made, n
  <2>8. \A j \in Calls : calls'[j].at # "idle" => calls'[j].route = "modern"
    BY <1>1, <1>2 DEF Single, n
  <2>9. \A j \in Calls : calls'[j].at = "created" => calls'[j].client \in ActiveClients'
    BY <1>2, <2>1, <2>2 DEF Single, n
  <2>10. \A j \in Calls : Unmatched(calls[j])'
    BY <2>7 DEF Unmatched
  <2> QED
    BY <2>6, <2>8, <2>9, <2>10 DEF Single, SameContact
<1>6. CASE call.client # None
  <2>1. clients[call.client].state = "active" /\ call.client \in Rows
    BY <1>1, <1>6 DEF Grounds, Call
  <2>2. \A c \in Rows : clients'[c] = clients[c]
    BY <1>2, <1>6
  <2>3. ActiveClients' = ActiveClients /\ call.client \in ActiveClients
    BY <2>1, <2>2 DEF ActiveClients
  <2>4. \A c, d \in ActiveClients' : c # d => ~SameContact(clients'[c].contact, clients'[d].contact)
    <3>1. \A c \in ActiveClients : clients'[c] = clients[c]
      BY <2>2 DEF ActiveClients
    <3> QED
      BY <2>3, <3>1 DEF Single
  <2>5. \A j \in Calls : calls'[j].at \notin {"projects", "owner", "writing"}
    BY <1>2, <1>3 DEF Made, n
  <2>6. \A j \in Calls : calls'[j].at # "idle" => calls'[j].route = "modern"
    BY <1>1, <1>2 DEF Single, n
  <2>7. \A j \in Calls : calls'[j].at = "created" => calls'[j].client \in ActiveClients'
    BY <1>2, <1>6, <2>3 DEF Single, n
  <2>8. \A j \in Calls : Unmatched(calls[j])'
    BY <2>5 DEF Unmatched
  <2> QED
    BY <2>4, <2>6, <2>7, <2>8 DEF Single, SameContact
<1> QED
  BY <1>5, <1>6

(* The steps before the plan, a refusal, and a failure.                    *)
LEMMA UntwinnedOther ==
  ASSUME ConvInv, Single, NEW k \in Calls,
         LockLead(k) \/ Find(k) \/ Verify(k) \/ Refuse(k) \/ Abort(k)
  PROVE  Single'
<1> DEFINE call == calls[k]
<1>1. call \in Call /\ call.at # "idle" /\ call.route = "modern" /\ UNCHANGED clients
  <2>1. call.at # "idle" /\ UNCHANGED clients
    BY Zenon DEF LockLead, Find, Verify, Refuse, Abort, Inside, rows
  <2> QED
    BY <2>1 DEF ConvInv, LeadTypeOK, Single
<1>2. ASSUME NEW n, n.route = "modern", n.at \in {"finding", "verifying", "found"}, Become(k, n)
      PROVE  Single'
  <2>1. Unmatched(n) /\ n.at # "created"
    BY <1>2 DEF Unmatched
  <2> QED
    BY <1>1, <1>2, <2>1, Untwinned
<1>3. ASSUME NEW x \in {"clients", "found", "refused", "failed"}, Go(k, x) PROVE Single'
  BY <1>1, <1>3, UntwinnedMove
<1>4. CASE LockLead(k)
  <2> DEFINE n == [call EXCEPT !.at = "finding",
                     !.contact = Complete(call.contact, leads[call.lead].contact)]
  <2>1. n.route = "modern" /\ n.at = "finding"
    BY <1>1 DEF Call
  <2>2. Become(k, n) \/ Go(k, "failed")
    BY <1>4 DEF LockLead
  <2> HIDE DEF n, call
  <2> QED
    BY <1>2, <1>3, <2>1, <2>2
<1>5. CASE Find(k)
  <2>1. ASSUME NEW p,
               Become(k, [call EXCEPT !.at = "verifying", !.project = p,
                                      !.client = projects[p].client])
        PROVE  Single'
    <3> DEFINE n == [call EXCEPT !.at = "verifying", !.project = p, !.client = projects[p].client]
    <3>1. n.route = "modern" /\ n.at = "verifying"
      BY <1>1 DEF Call
    <3>2. Become(k, n)
      BY <2>1
    <3> HIDE DEF n, call
    <3> QED
      BY <1>2, <3>1, <3>2
  <2>2. CASE Go(k, "failed") \/ Go(k, "clients")
    BY <1>3, <2>2
  <2> QED
    BY <1>1, <1>5, <2>1, <2>2, Zenon DEF Find
<1>6. CASE Verify(k)
  <2>1. ASSUME NEW d, Become(k, [call EXCEPT !.at = "found", !.deal = d]) PROVE Single'
    <3> DEFINE n == [call EXCEPT !.at = "found", !.deal = d]
    <3>1. n.route = "modern" /\ n.at = "found"
      BY <1>1 DEF Call
    <3>2. Become(k, n)
      BY <2>1
    <3> HIDE DEF n, call
    <3> QED
      BY <1>2, <3>1, <3>2
  <2>2. CASE Go(k, "failed") \/ Go(k, "found")
    BY <1>3, <2>2
  <2> QED
    BY <1>6, <2>1, <2>2, Zenon DEF Verify
<1>7. CASE Refuse(k) \/ Abort(k)
  BY <1>3, <1>7 DEF Refuse, Abort
<1> QED
  BY <1>4, <1>5, <1>6, <1>7

(* Conversions by the modern route leave no two clients with the same      *)
(* e-mail or phone unless they overlap or clients are edited by hand: the  *)
(* search for a client to reuse lacks nothing else (lead-conversion.ts 12, *)
(* 421).                                                                   *)
THEOREM TwinsByOverlap ==
  ASSUME \A ask \in Asks : ask.route = "modern"
  PROVE  Spec /\ []Alone /\ [][Convert \/ UNCHANGED clients]_vars => []NoTwinClients
<1>1. Init => Single
  BY DEF Init, Single, ActiveClients, Unmatched
<1>2. ASSUME ConvInv, Single, Alone, [Next]_vars, [Convert \/ UNCHANGED clients]_vars
      PROVE  Single'
  <2>1. CASE Convert
    <3>1. PICK k \in Calls : Step(k) \/ Abort(k) \/ \E ask \in Asks : Start(k, ask)
      BY <2>1 DEF Convert
    <3>2. ASSUME NEW ask \in Asks, Start(k, ask) PROVE Single'
      <4> DEFINE n == [calls[k] EXCEPT !.at = "locking", !.route = ask.route,
                        !.lead = ask.lead, !.actor = ask.actor, !.contact = ask.contact]
      <4>1. calls[k] \in Call /\ ask.route = "modern" /\ Become(k, n) /\ UNCHANGED clients
        BY <1>2, <3>2 DEF ConvInv, LeadTypeOK, Start, rows
      <4>2. n.at = "locking" /\ n.route = "modern"
        BY <4>1 DEF Call
      <4> HIDE DEF n
      <4>3. Unmatched(n)
        BY <4>2 DEF Unmatched
      <4> QED
        BY <1>2, <4>1, <4>2, <4>3, Untwinned
    <3>3. CASE LockLead(k) \/ Find(k) \/ Verify(k) \/ Refuse(k) \/ Abort(k)
      BY <1>2, <3>3, UntwinnedOther
    <3>4. CASE ReadClients(k)
      BY <1>2, <3>4, UntwinnedPlan
    <3>5. CASE ReadProjects(k) \/ CheckOwner(k) \/ LockClient(k)
      BY <1>2, <3>5, UntwinnedOnward
    <3>6. CASE Write(k)
      BY <1>2, <3>6, UntwinnedWrite
    <3> QED
      BY <3>1, <3>2, <3>3, <3>4, <3>5, <3>6 DEF Step
  <2>2. CASE UNCHANGED <<clients, calls>>
    BY <1>2, <2>2 DEF Single, ActiveClients, Unmatched, SameContact
  <2> QED
    BY <1>2, <2>1, <2>2, Zenon DEF Next, vars, rows, Staff, StaffWrite, EditLead, AddClient,
       EditClient, DropClient, AddProject, CancelProject, AddDeal, Deactivate
<1>3. Single => NoTwinClients
  BY DEF Single, NoTwinClients, ActiveClients
<1> QED
  BY <1>1, <1>2, <1>3, Conversions, PTL DEF Spec
==============================================================================
