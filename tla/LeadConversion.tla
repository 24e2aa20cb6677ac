---------------------------- MODULE LeadConversion ----------------------------
(***************************************************************************)
(* A lead becomes a client and a project: the modern conversion            *)
(* (convertLeadToProject), the legacy one (orchestrateLeadConversion),     *)
(* repeated and interleaved, beside staff who edit leads, clients,         *)
(* projects and deals.                                                     *)
(*                                                                         *)
(* Each conversion is one READ COMMITTED transaction.  Its reads are steps *)
(* of their own, what it writes becomes visible in one step, and the row   *)
(* locks it holds follow from where it stands.                             *)
(***************************************************************************)
EXTENDS Naturals

CONSTANTS
  Calls, Leads, Profiles,
  Entered,       \* rows of clients, projects and deals that staff enter
  Asks,          \* what a caller may ask: a route, a lead, an actor, completions
  Handles,       \* e-mail addresses and phone numbers
  Contacts,      \* contact details that staff write
  Written,       \* lead -> its contact details when it arrives
  Home,          \* lead -> its name and address
  Site,          \* lead -> its address and project type
  Owner,         \* lead -> the profile that owns it, or None
  Readers,       \* profiles that may read every project of the tenant
  OwnerScope,    \* the profiles that see only leads of their own (LEADS_OWNER_SCOPE)
  MaxWrites,     \* bound: writes by staff
  None

VARIABLES
  leads,      \* the leads table
  clients,    \* the clients table
  projects,   \* the projects table
  deals,      \* deal -> its lead, None before it is made
  active,     \* profiles that are active
  calls,      \* conversions under way and ended
  writes      \* writes by staff so far

rows == <<leads, clients, projects, deals, active>>
vars == <<rows, calls, writes>>

------------------------------------------------------------------------------
Routes == {"modern", "legacy"}

(* A conversion makes at most one client, one project and one deal; their  *)
(* fresh ids are named after it.                                           *)
Rows == Calls \cup Entered

(* Contact details: an e-mail and a phone, each possibly missing.          *)
Fields  == {"email", "phone"}
Details == [Fields -> Handles \cup {None}]

Reachable(contact) == \E f \in Fields : contact[f] # None

(* The legacy route takes no completions.                                  *)
ASSUME ConversionAssumption ==
  /\ Contacts \subseteq Details
  /\ Written \in [Leads -> Details]
  /\ Owner \in [Leads -> Profiles \cup {None}]
  /\ Asks \subseteq [route : Routes, lead : Leads, actor : Profiles, contact : Details]
  /\ \A ask \in Asks : ask.route = "legacy" => ~Reachable(ask.contact)
  /\ MaxWrites \in Nat
  /\ None \notin Leads \cup Rows \cup Profiles
  /\ Calls \cap Entered = {}

Allowed   == {"convert", "reuse_client"}
Refused   == {"needs_review", "blocked_minimum_data"}
Decisions == Allowed \cup Refused

Lead ==
  [contact : Details, status : {"new", "qualified", "converted"},
   decision : Decisions \cup {None},
   client : Rows \cup {None}, project : Rows \cup {None}]

Client == [contact : Details \cup {None}, home : {Home[l] : l \in Leads} \cup {None},
           state : {"absent", "active", "inactive"}]

Project == [lead : Leads \cup {None}, client : Rows \cup {None},
            site : {Site[l] : l \in Leads} \cup {None}, owner : Profiles \cup {None},
            state : {"absent", "open", "closed"}]

(* Fault: a failed call keeps its locks.                                   *)
InsideUntilRestart == {"finding", "verifying", "clients", "projects", "refusing",
                       "owner", "reusing", "writing", "failed"}

(* Where a call stands.  Inside its transaction it holds the lead's row.   *)
Inside == {"finding", "verifying", "clients", "projects", "refusing", "owner",
           "reusing", "writing"}
Ended  == {"created", "found", "refused", "failed", "lost"}

Call ==
  [at : {"idle", "locking"} \cup Inside \cup Ended,
   route : Routes \cup {None}, lead : Leads \cup {None}, actor : Profiles \cup {None},
   contact : Details \cup {None}, decision : Decisions \cup {None},
   client : Rows \cup {None}, project : Rows \cup {None}, deal : Rows \cup {None}]

LeadTypeOK ==
  /\ leads \in [Leads -> Lead]
  /\ clients \in [Rows -> Client]
  /\ projects \in [Rows -> Project]
  /\ deals \in [Rows -> Leads \cup {None}]
  /\ active \subseteq Profiles
  /\ calls \in [Calls -> Call]
  /\ writes \in 0..MaxWrites

------------------------------------------------------------------------------
(* The operator's completions win over the lead's own values.              *)
Complete(over, own) == [f \in Fields |-> IF over[f] = None THEN own[f] ELSE over[f]]

(* The same e-mail or the same phone is the same client.                   *)
SameContact(a, b) == \E f \in Fields : a[f] # None /\ a[f] = b[f]

------------------------------------------------------------------------------
(* Locks and rows.                                                         *)

LeadHeld(l) == \E k \in Calls : calls[k].lead = l /\ calls[k].at \in Inside

(* A call that reuses a client holds its row until it commits.             *)
ClientHeld(c) ==
  \E k \in Calls : calls[k].at = "writing" /\ calls[k].client = c

(* The actor's profile is share-locked throughout, the owner's from the    *)
(* check of the owner.                                                     *)
OwnerOf(call) == IF Owner[call.lead] = None THEN call.actor ELSE Owner[call.lead]

ProfileHeld(a) ==
  \E k \in Calls :
    \/ calls[k].at \in Inside /\ calls[k].actor = a
    \/ calls[k].at \in {"reusing", "writing"} /\ OwnerOf(calls[k]) = a

ActiveClients == {c \in Rows : clients[c].state = "active"}

ProjectsOf(l) == {p \in Rows : projects[p].lead = l}
DealsOf(l)    == {d \in Rows : deals[d] = l}

Several(S) == \E a, b \in S : a # b

InScope(l, a)  == a \in OwnerScope => Owner[l] \in {a, None}
MayRead(a, p)  == a \in Readers \/ projects[p].owner = a

Become(k, c)  == calls' = [calls EXCEPT ![k] = c]
Go(k, where)  == Become(k, [calls[k] EXCEPT !.at = where])

------------------------------------------------------------------------------
(* Steps of a conversion.                                                  *)

Start(k, ask) ==
  /\ calls[k].at = "idle"
  /\ Become(k, [calls[k] EXCEPT !.at = "locking", !.route = ask.route, !.lead = ask.lead,
                                !.actor = ask.actor, !.contact = ask.contact])
  /\ UNCHANGED rows

(* Fault: the lead is read without its lock.                               *)
ReadLead(k) ==
  LET call == calls[k] IN
  /\ call.at = "locking"
  /\ IF call.actor \in active /\ InScope(call.lead, call.actor)
       THEN Become(k, [call EXCEPT !.at = "finding",
              !.contact = Complete(call.contact, leads[call.lead].contact)])
       ELSE Go(k, "failed")
  /\ UNCHANGED rows

(* Both routes lock the lead first, then check the actor's own profile.    *)
LockLead(k) ==
  LET call == calls[k] IN
  /\ call.at = "locking"
  /\ ~LeadHeld(call.lead)
  /\ IF call.actor \in active /\ InScope(call.lead, call.actor)
       THEN Become(k, [call EXCEPT !.at = "finding",
              !.contact = Complete(call.contact, leads[call.lead].contact)])
       ELSE Go(k, "failed")
  /\ UNCHANGED rows

(* What the rows say of an earlier conversion, before any of them is       *)
(* locked: an error, nothing yet, or a project to verify.                  *)
Find(k) ==
  LET call == calls[k]
      lead == leads[call.lead]
      ps   == ProjectsOf(call.lead)
      fresh == IF call.route = "modern" THEN "clients" ELSE "owner"
      Consistent(p) == /\ lead.project \in {p, None}
                       /\ projects[p].client # None
                       /\ lead.client \in {projects[p].client, None}
                       /\ MayRead(call.actor, p)
  IN
  /\ call.at = "finding"
  /\ \/ /\ Several(ps) \/ Several(DealsOf(call.lead))
        /\ Go(k, "failed")
     \/ /\ ps = {} /\ ~Several(DealsOf(call.lead))
        /\ Go(k, IF lead.project # None \/ lead.client # None \/ DealsOf(call.lead) # {}
                   THEN "failed" ELSE fresh)
     \/ /\ ~Several(ps) /\ ~Several(DealsOf(call.lead))
        /\ \E p \in ps :
             IF Consistent(p)
               THEN Become(k, [call EXCEPT !.at = "verifying", !.project = p,
                                           !.client = projects[p].client])
               ELSE Go(k, "failed")
  /\ UNCHANGED rows

(* The project's row is locked: its client is locked and judged, the       *)
(* lead's deals are read again.                                            *)
Verify(k) ==
  LET call == calls[k]
      ds   == DealsOf(call.lead)
  IN
  /\ call.at = "verifying"
  /\ ~ClientHeld(call.client)
  /\ \/ /\ \/ clients[call.client].state # "active"
           \/ Several(ds)
           \/ call.route = "legacy" /\ ds = {}
        /\ Go(k, "failed")
     \/ /\ clients[call.client].state = "active"
        /\ ~Several(ds)
        /\ IF ds = {} THEN call.route = "modern" /\ Go(k, "found")
           ELSE \E d \in ds : Become(k, [call EXCEPT !.at = "found", !.deal = d])
  /\ UNCHANGED rows

------------------------------------------------------------------------------
(* The plan of the modern route.                                           *)

(* Candidate clients, as committed at this statement.                      *)
ReadClients(k) ==
  LET call      == calls[k]
      confirmed == {c \in ActiveClients : SameContact(call.contact, clients[c].contact)}
      ambiguous == {c \in ActiveClients : clients[c].home = Home[call.lead]}
      Plan(decision, c) ==
        Become(k, [call EXCEPT !.at = "projects", !.decision = decision, !.client = c])
  IN
  /\ call.at = "clients"
  /\ \/ ~Reachable(call.contact) /\ Plan("blocked_minimum_data", None)
     \/ /\ Reachable(call.contact)
        /\ Several(confirmed) \/ (confirmed = {} /\ ambiguous # {})
        /\ Plan("needs_review", None)
     \/ /\ Reachable(call.contact)
        /\ ~Several(confirmed)
        /\ \E c \in confirmed : Plan("reuse_client", c)
     \/ /\ Reachable(call.contact)
        /\ confirmed \cup ambiguous = {}
        /\ Plan("convert", None)
  /\ UNCHANGED rows

(* Candidate projects, in a statement of their own; then the decision.     *)
(* Another client's project at the address does not count.                 *)
ReadProjects(k) ==
  LET call == calls[k]
      same == {p \in Rows : /\ projects[p].state = "open"
                                /\ projects[p].site = Site[call.lead]
                                /\ \/ call.client = None
                                   \/ projects[p].client \in {call.client, None}}
  IN
  /\ call.at = "projects"
  /\ \/ call.decision \in Refused /\ Go(k, "refusing")
     \/ /\ call.decision \in Allowed
        /\ IF same = {} THEN Go(k, "owner")
           ELSE Become(k, [call EXCEPT !.at = "refusing", !.decision = "needs_review"])
  /\ UNCHANGED rows

(* A refusal commits the decision and creates nothing.                     *)
Refuse(k) ==
  LET call == calls[k] IN
  /\ call.at = "refusing"
  /\ leads' = [leads EXCEPT ![call.lead] =
       [leads[call.lead] EXCEPT
          !.decision = call.decision,
          !.status = IF call.decision = "needs_review" THEN "qualified"
                     ELSE leads[call.lead].status]]
  /\ Go(k, "refused")
  /\ UNCHANGED <<clients, projects, deals, active>>

------------------------------------------------------------------------------
(* The write.                                                              *)

(* An owner that no longer resolves is never replaced by the actor.        *)
CheckOwner(k) ==
  /\ calls[k].at = "owner"
  /\ Go(k, IF OwnerOf(calls[k]) \notin active THEN "failed"
           ELSE IF calls[k].client # None THEN "reusing" ELSE "writing")
  /\ UNCHANGED rows

(* Fault: the contact of the client is not compared again.                 *)
LockEligible(k) ==
  LET call == calls[k] IN
  /\ call.at = "reusing"
  /\ ~ClientHeld(call.client)
  /\ Go(k, IF clients[call.client].state = "active" THEN "writing" ELSE "failed")
  /\ UNCHANGED rows

(* The client planned for reuse is locked and judged again.                *)
LockClient(k) ==
  LET call == calls[k] IN
  /\ call.at = "reusing"
  /\ ~ClientHeld(call.client)
  /\ Go(k, IF /\ clients[call.client].state = "active"
              /\ SameContact(call.contact, clients[call.client].contact)
             THEN "writing" ELSE "failed")
  /\ UNCHANGED rows

(* Fault: the legacy route leaves the lead's marks empty.                  *)
MarkedByModern(lead, route, decision, client, project) ==
  IF route = "modern"
    THEN [lead EXCEPT !.status = "converted", !.client = client, !.project = project,
                      !.decision = decision]
    ELSE [lead EXCEPT !.status = "converted"]

(* Only the modern route records its decision.                             *)
Marked(lead, route, decision, client, project) ==
  [lead EXCEPT !.status = "converted", !.client = client, !.project = project,
               !.decision = IF route = "modern" THEN decision ELSE lead.decision]

(* Everything the conversion writes, at its commit; the answer may be      *)
(* lost.  Only the legacy route makes a deal.                              *)
Write(k) ==
  LET call   == calls[k]
      modern == call.route = "modern"
      client == IF call.client = None THEN k ELSE call.client
      deal   == IF modern THEN None ELSE k
  IN
  /\ call.at = "writing"
  /\ clients' = IF call.client # None THEN clients
                ELSE [clients EXCEPT ![k] =
                        [contact |-> call.contact, home |-> Home[call.lead], state |-> "active"]]
  /\ projects' = [projects EXCEPT ![k] =
       [lead |-> call.lead, client |-> client, site |-> Site[call.lead],
        owner |-> OwnerOf(call), state |-> "open"]]
  /\ deals' = IF modern THEN deals ELSE [deals EXCEPT ![k] = call.lead]
  /\ leads' = [leads EXCEPT ![call.lead] = Marked(leads[call.lead], call.route, call.decision, client, k)]
  /\ \E end \in {"created", "lost"} :
       Become(k, [call EXCEPT !.at = end, !.client = client, !.project = k, !.deal = deal])
  /\ UNCHANGED active

(* The connection, an insert or the audit fails: everything is undone.     *)
Abort(k) ==
  /\ calls[k].at \in Inside
  /\ Go(k, "failed")
  /\ UNCHANGED rows

------------------------------------------------------------------------------
(* Staff beside the conversions.  A write waits for the row's lock.        *)

EditLead(l, contact, status) ==
  /\ ~LeadHeld(l)
  /\ leads' = [leads EXCEPT ![l] = [@ EXCEPT !.contact = contact, !.status = status]]
  /\ UNCHANGED <<clients, projects, deals, active, calls>>

AddClient(c, contact, home) ==
  /\ clients[c].state = "absent"
  /\ clients' = [clients EXCEPT ![c] =
                   [contact |-> contact, home |-> home, state |-> "active"]]
  /\ UNCHANGED <<leads, projects, deals, active, calls>>

(* Whether the client is active was read before the update.                *)
EditClient(c, contact) ==
  /\ clients[c].state # "absent"
  /\ ~ClientHeld(c)
  /\ clients' = [clients EXCEPT ![c] = [@ EXCEPT !.contact = contact]]
  /\ UNCHANGED <<leads, projects, deals, active, calls>>

DropClient(c) ==
  /\ clients[c].state # "absent"
  /\ ~ClientHeld(c)
  /\ clients' = [clients EXCEPT ![c] = [@ EXCEPT !.state = "inactive"]]
  /\ UNCHANGED <<leads, projects, deals, active, calls>>

(* A project that staff open by the router, the only caller, has no lead;  *)
(* its client is checked and share-locked.                                 *)
AddProject(p, c, site, a) ==
  /\ projects[p].state = "absent"
  /\ a \in active
  /\ c # None => clients[c].state = "active" /\ ~ClientHeld(c)
  /\ projects' = [projects EXCEPT ![p] =
       [lead |-> None, client |-> c, site |-> site, owner |-> a, state |-> "open"]]
  /\ UNCHANGED <<leads, clients, deals, active, calls>>

CancelProject(p) ==
  /\ projects[p].state = "open"
  /\ projects' = [projects EXCEPT ![p] = [@ EXCEPT !.state = "closed"]]
  /\ UNCHANGED <<leads, clients, deals, active, calls>>

(* Fault: the database has no foreign key from deals to leads.             *)
AddLooseDeal(d, l) ==
  /\ deals[d] = None
  /\ deals' = [deals EXCEPT ![d] = l]
  /\ UNCHANGED <<leads, clients, projects, active, calls>>

(* The foreign key of a deal takes a key-share lock of its lead.           *)
AddDeal(d, l) ==
  /\ deals[d] = None
  /\ ~LeadHeld(l)
  /\ deals' = [deals EXCEPT ![d] = l]
  /\ UNCHANGED <<leads, clients, projects, active, calls>>

(* Profiles are administered outside the program.                          *)
Deactivate(a) ==
  /\ a \in active
  /\ ~ProfileHeld(a)
  /\ active' = active \ {a}
  /\ UNCHANGED <<leads, clients, projects, deals, calls>>

------------------------------------------------------------------------------
Init ==
  /\ leads = [l \in Leads |-> [contact |-> Written[l], status |-> "new",
                               decision |-> None, client |-> None, project |-> None]]
  /\ clients = [c \in Rows |-> [contact |-> None, home |-> None, state |-> "absent"]]
  /\ projects = [p \in Rows |-> [lead |-> None, client |-> None, site |-> None,
                                     owner |-> None, state |-> "absent"]]
  /\ deals = [d \in Rows |-> None]
  /\ active = Profiles
  /\ calls = [k \in Calls |->
       [at |-> "idle", route |-> None, lead |-> None, actor |-> None, contact |-> None,
        decision |-> None, client |-> None, project |-> None, deal |-> None]]
  /\ writes = 0

Step(k) ==
  LockLead(k) \/ Find(k) \/ Verify(k) \/ ReadClients(k) \/ ReadProjects(k) \/ Refuse(k)
    \/ CheckOwner(k) \/ LockClient(k) \/ Write(k)

StaffWrite ==
  \/ \E l \in Leads, h \in Contacts, s \in {"new", "qualified", "converted"} :
       EditLead(l, h, s)
  \/ \E c \in Entered, h \in Contacts, l \in Leads : AddClient(c, h, Home[l])
  \/ \E c \in Rows, h \in Contacts : EditClient(c, h)
  \/ \E c \in Rows : DropClient(c)
  \/ \E p \in Entered, c \in Rows \cup {None}, l \in Leads, a \in Profiles :
       AddProject(p, c, Site[l], a)
  \/ \E p \in Rows : CancelProject(p)
  \/ \E d \in Entered, l \in Leads : AddDeal(d, l)
  \/ \E a \in Profiles : Deactivate(a)

Staff ==
  /\ writes < MaxWrites
  /\ writes' = writes + 1
  /\ StaffWrite

Convert ==
  /\ \E k \in Calls : Step(k) \/ Abort(k) \/ \E ask \in Asks : Start(k, ask)
  /\ UNCHANGED writes

Next == Convert \/ Staff

Spec == Init /\ [][Next]_vars

(* A conversion that has begun is driven to its end by the server and the  *)
(* database; nobody owes a call, a failure or an edit.                     *)
FairSpec == Spec /\ \A k \in Calls : WF_vars(Step(k) /\ UNCHANGED writes)

------------------------------------------------------------------------------
(* Properties.                                                             *)

HasProject(l) == leads[l].project # None

(* Whatever routes, retries and lost answers meet at one lead, it becomes  *)
(* one project: the lead's own marks name it and its client, no other      *)
(* project names the lead, and every answer ever given for the lead named  *)
(* those rows (lead-conversion.ts 17, lead-conversion-identity.ts 94-127). *)
OneConversion ==
  /\ \A p \in Rows : LET l == projects[p].lead IN
       l # None => leads[l].project = p /\ leads[l].client = projects[p].client
  /\ \A l \in Leads : HasProject(l) => projects[leads[l].project].lead = l
  /\ \A k \in Calls : LET call == calls[k] IN
       call.at \in {"created", "found"} =>
         /\ leads[call.lead].project = call.project
         /\ leads[call.lead].client = call.client
         /\ call.route = "legacy" => call.deal \in DealsOf(call.lead)

(* No conversion touches the record of a lead that has its project: its    *)
(* marks and decision stay, and its status is only ever set by staff.      *)
(* A refused call in particular, whose plan knew of no project             *)
(* (lead-conversion.ts 419-452).                                           *)
ConvertedRowKept ==
  [][\A l \in Leads : HasProject(l) =>
       \/ leads'[l] = leads[l]
       \/ \E h \in Contacts, s \in {"new", "qualified", "converted"} : EditLead(l, h, s)]_vars

(* A conversion that reuses a client gives its project to one that is      *)
(* active and still the lead's contact when it commits, whatever was read  *)
(* when the plan was made (lead-conversion.ts 519-559).  Its owner is      *)
(* active then, and is the lead's own if it has one                        *)
(* (lead-conversion-identity.ts 78-102).                                   *)
ProjectsWellFounded ==
  [][\A k \in Calls :
       calls[k].at = "writing" /\ calls'[k].at \in {"created", "lost"} =>
         LET p == projects'[calls'[k].project]
             c == clients'[p.client]
         IN
         /\ c.state = "active"
         /\ calls[k].route = "modern" => SameContact(calls[k].contact, c.contact)
         /\ p.owner \in active
         /\ Owner[calls[k].lead] \in {p.owner, None}]_vars

(* The legacy route never opens a deal beside one that names the lead      *)
(* already, although deals are made without the lead's row being read      *)
(* (lead-conversion-identity.ts 163-171).                                  *)
NoSecondDeal ==
  [][\A k \in Calls :
       calls[k].at = "writing" /\ calls[k].route = "legacy"
         /\ calls'[k].at \in {"created", "lost"} =>
         DealsOf(calls[k].lead) = {}]_vars

(* Every conversion that begins ends: the two routes take their locks in   *)
(* the order lead, client (pipeline-db.ts 88-93).                          *)
CallsEnd == \A k \in Calls : calls[k].at = "locking" ~> calls[k].at \in Ended

(* lead-conversion.ts 12: "Existing client reused instead of duplicated    *)
(* (LIG-003)": no two conversions leave active clients with the same       *)
(* e-mail or phone.                                                        *)
NoTwinClients ==
  \A k1, k2 \in Calls : LET c1 == calls[k1].client  c2 == calls[k2].client IN
    calls[k1].at = "created" /\ calls[k2].at = "created" /\ c1 # c2 =>
      ~SameContact(clients[c1].contact, clients[c2].contact)
==============================================================================
