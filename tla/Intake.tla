-------------------------------- MODULE Intake --------------------------------
(***************************************************************************)
(* From an inquiry to an engagement: the form on the web, which is no      *)
(* command and runs beside them (worker/publicLeadIntake.ts,               *)
(* worker/publicLeadRateLimit.ts), its triage, the leads, and what they    *)
(* are converted to (worker/business.ts).                                  *)
(*                                                                         *)
(* Time is that of the rate limit: no lead or submission grows as old as   *)
(* the 30 days within which an inquiry counts as a repetition.             *)
(***************************************************************************)
EXTENDS Directory

CONSTANTS
  Visitors,       (* submissions of the form                               *)
  Addresses,      (* they come from                                        *)
  VisitLimit,     (* 5 in the code                                         *)
  Window,         (* the hour they are counted for                         *)
  Retention,      (* 24 hours in the code                                  *)
  MaxTime, MaxLeads   (* bounds                                            *)

ASSUME IntakeAssumption ==
  /\ VisitLimit \in Nat \ {0} /\ Window \in Nat \ {0} /\ Retention \in Nat /\ Window <= Retention
  /\ MaxTime \in Nat /\ MaxLeads \in Nat

(* A literal is a string, which no prover knows by itself. *)
ASSUME CodeAssumption == "WEB" \in STRING

VARIABLES
  time,
  visits,         (* public_lead_rate_limit_events, one for each submission*)
  forms,          (* how far a submission got in its handler               *)
  submissions,    (* public_lead_submissions                               *)
  leads

webVars == <<time, visits, forms, submissions>>
intakeVars == <<clientVars, staff, webVars, leads>>

----
(* The form. *)
NoLead == 0
Latest(S) == {s \in S : \A t \in S : submissions[t].created <= submissions[s].created}

Tick == time < MaxTime /\ time' = time + 1 /\ UNCHANGED <<clientVars, staff, visits, forms, submissions, leads>>

(* One statement forgets all visits of yesterday, another counts those of   *)
(* the last hour and adds this one.  A form beyond the limit is refused.    *)
Kept == {h \in visits : time < h.at + Retention}
Recent(a) == {h \in visits : h.from = a /\ time < h.at + Window}

Visit(v, a) ==
  /\ forms[v].pc = "new"
  /\ LET let == Cardinality(Recent(a)) < VisitLimit IN
     /\ visits' = Kept \cup IF let THEN {[by |-> v, from |-> a, at |-> time]} ELSE {}
     /\ forms' = [forms EXCEPT ![v].pc = IF let THEN "let in" ELSE "refused"]
  /\ UNCHANGED <<clientVars, staff, time, submissions, leads>>

(* The submissions of a sender that were no spam, the leads of the sender,  *)
(* and the lead a submission repeats: that of the latest submission, or     *)
(* else any the sender has.                                                 *)
Prior(email) ==
  {s \in DOMAIN submissions :
     submissions[s].email = email /\ submissions[s].status # "REJECTED_SPAM"}
Matching(email) == {l \in DOMAIN leads : contacts[leads[l].contact].email = email}
Repeated(email) ==
  LET last == {submissions[s].lead : s \in Latest(Prior(email))}
      own == IF Matching(email) = {} THEN {NoLead} ELSE Matching(email)
  IN (last \ {NoLead}) \cup (IF last = {} \/ NoLead \in last THEN own ELSE {})

(* The handler reads what there is, having asked Turnstile unless the       *)
(* honeypot gave the sender away ...                                        *)
Look(v, name, email) ==
  /\ forms[v].pc = "let in"
  /\ \E status \in {"REJECTED_SPAM",
          IF Prior(email) \cup Matching(email) = {} THEN "RECEIVED" ELSE "DUPLICATE"},
        lead \in Repeated(email) :
       forms' = [forms EXCEPT ![v] =
         [pc |-> "looked", name |-> name, email |-> email, status |-> status, created |-> time,
          lead |-> IF status = "DUPLICATE" THEN lead ELSE NoLead]]
  /\ UNCHANGED <<clientVars, staff, time, visits, submissions, leads>>

NotHuman(v) ==
  /\ forms[v].pc = "let in"
  /\ forms' = [forms EXCEPT ![v].pc = "refused"]
  /\ UNCHANGED <<clientVars, staff, time, visits, submissions, leads>>

(* ... and stores the submission as it then was. *)
Store(v) ==
  /\ forms[v].pc = "looked"
  /\ submissions' = Append(submissions,
       [name |-> forms[v].name, email |-> forms[v].email, status |-> forms[v].status,
        lead |-> forms[v].lead, created |-> forms[v].created])
  /\ forms' = [forms EXCEPT ![v].pc = "stored"]
  /\ UNCHANGED <<clientVars, staff, time, visits, leads>>

----
(* Triage: a submission remains open to it until it is accepted or spam. *)
Open(s) == submissions[s].status \in {"RECEIVED", "DUPLICATE"}
Triaged(s, status, lead) ==
  submissions' = [submissions EXCEPT ![s].status = status, ![s].lead = lead]

TriageSpam(s) ==
  /\ Open(s)
  /\ Triaged(s, "REJECTED_SPAM", NoLead)
  /\ UNCHANGED <<clientVars, staff, time, visits, forms, leads>>

(* The lead it repeats has the address it came from; it is the one found at *)
(* first unless another is chosen, and there need be none.                  *)
TriageDuplicate(s, chosen) ==
  LET lead == IF chosen = NoLead THEN submissions[s].lead ELSE chosen IN
  /\ Open(s)
  /\ lead # NoLead => contacts[leads[lead].contact].email = submissions[s].email
  /\ Triaged(s, "DUPLICATE", lead)
  /\ UNCHANGED <<clientVars, staff, time, visits, forms, leads>>

NewLead(c, k) == [client |-> c, contact |-> k, status |-> "OPEN", engagement |-> 0]
Namesakes(name) == {c \in DOMAIN clients : clients[c].active /\ clients[c].name = name}
Addressed(c, email) ==
  {k \in DOMAIN contacts : contacts[k].client = c /\ contacts[k].active /\ contacts[k].email = email}
HasFirst(c) == \E k \in DOMAIN contacts :
                 contacts[k].client = c /\ contacts[k].active /\ contacts[k].primary

(* An accepted inquiry becomes a lead of the one client of that name, or of *)
(* a new one whose code nobody else can have; the contact with its address  *)
(* is used, the first one before others, or added without any route.        *)
TriageAccept(s) ==
  LET name == submissions[s].name
      email == submissions[s].email
      c == IF Namesakes(name) = {} THEN Len(clients) + 1 ELSE CHOOSE n \in Namesakes(name) : TRUE
      there == Addressed(c, email)
      first == {k \in there : contacts[k].primary}
  IN /\ Open(s)
     /\ Len(leads) < MaxLeads
     /\ Cardinality(Namesakes(name)) <= 1
     /\ IF c \in DOMAIN clients THEN UNCHANGED clients
        ELSE /\ c <= MaxClients
             /\ clients' = Append(clients, Client("WEB", name, "STANDALONE", NoClient))
     /\ \E k \in IF there = {} THEN {Len(contacts) + 1} ELSE IF first = {} THEN there ELSE first :
          /\ IF k \in DOMAIN contacts THEN UNCHANGED contacts
             ELSE /\ k <= MaxContacts
                  /\ contacts' = Append(contacts, Contact(c, email, "OTHER", ~HasFirst(c)))
          /\ leads' = Append(leads, NewLead(c, k))
     /\ Triaged(s, "ACCEPTED_AS_LEAD", Len(leads) + 1)
     /\ UNCHANGED <<routes, affiliations, runs, engagements, profiles, staff, time, visits, forms>>

----
(* Leads.  A prospect that is registered with one has a name and a code of  *)
(* its own, among all clients there ever were.                              *)
LeadOfProspect(code, name, email, role) ==
  /\ Len(leads) < MaxLeads
  /\ code \notin UsedCodes
  /\ \A c \in DOMAIN clients : clients[c].name # name
  /\ Registered(Client(code, name, "STANDALONE", NoClient), email, role)
  /\ leads' = Append(leads, NewLead(Len(clients) + 1, Len(contacts) + 1))
  /\ UNCHANGED <<affiliations, runs, engagements, profiles, staff, webVars>>

LeadOfClient(c, k) ==
  /\ Len(leads) < MaxLeads
  /\ ActiveClient(c) /\ ActiveContact(k) /\ contacts[k].client = c
  /\ leads' = Append(leads, NewLead(c, k))
  /\ UNCHANGED <<clientVars, staff, webVars>>

LeadUpdate(l, k) ==
  /\ leads[l].status = "OPEN"
  /\ ActiveContact(k) /\ contacts[k].client = leads[l].client
  /\ leads' = [leads EXCEPT ![l].contact = k]
  /\ UNCHANGED <<clientVars, staff, webVars>>

LeadLose(l) ==
  /\ leads[l].status = "OPEN"
  /\ leads' = [leads EXCEPT ![l].status = "LOST"]
  /\ UNCHANGED <<clientVars, staff, webVars>>

(* Some standards profile covers the period and the engagement's code is    *)
(* new.                                                                     *)
Reachable(l) == ActiveClient(leads[l].client) /\ ActiveContact(leads[l].contact)

LeadConvert(l) ==
  /\ leads[l].status = "OPEN"
  /\ Reachable(l)
  /\ engagements' = Append(engagements, [client |-> leads[l].client, phase |-> "LEAD_INGESTION"])
  /\ leads' = [leads EXCEPT ![l].status = "CONVERTED", ![l].engagement = Len(engagements) + 1]
  /\ UNCHANGED <<directory, runs, profiles, staff, webVars>>

EngagementAdvance(e) ==
  /\ engagements[e].phase = "LEAD_INGESTION"
  /\ \E l \in DOMAIN leads : leads[l].engagement = e /\ Reachable(l)
  /\ engagements' = [engagements EXCEPT ![e].phase = "PROPOSAL_GENERATION"]
  /\ UNCHANGED <<directory, runs, profiles, staff, webVars, leads>>

(* The rest of its life, which ends when its archive is sealed. *)
EngagementSealed(e) ==
  /\ engagements[e].phase = "PROPOSAL_GENERATION"
  /\ engagements' = [engagements EXCEPT ![e].phase = "ARCHIVED_READ_ONLY"]
  /\ UNCHANGED <<directory, runs, profiles, staff, webVars, leads>>

----
IntakeInit ==
  /\ ClientsInit /\ DirectoryInit
  /\ time = 0
  /\ visits = {}
  /\ forms = [v \in Visitors |-> [pc |-> "new"]]
  /\ submissions = <<>> /\ leads = <<>>

WebNext ==
  \/ Tick
  \/ \E v \in Visitors :
       \/ \E a \in Addresses : Visit(v, a)
       \/ \E name \in Names, email \in Emails : Look(v, name, email)
       \/ NotHuman(v)
       \/ Store(v)

TriageNext ==
  \E s \in DOMAIN submissions :
    \/ TriageSpam(s) \/ TriageAccept(s)
    \/ \E lead \in {NoLead} \cup DOMAIN leads : TriageDuplicate(s, lead)

ProspectNext ==
  \E code \in ClientCodes, name \in Names, email \in Emails, role \in Roles :
    LeadOfProspect(code, name, email, role)

LeadNext ==
  \/ \E c \in DOMAIN clients, k \in DOMAIN contacts : LeadOfClient(c, k)
  \/ \E l \in DOMAIN leads :
       \/ LeadLose(l) \/ LeadConvert(l)
       \/ \E k \in DOMAIN contacts : LeadUpdate(l, k)
  \/ \E e \in DOMAIN engagements : EngagementAdvance(e) \/ EngagementSealed(e)

IntakeNext ==
  \/ (ClientNext \/ ImportNext \/ ContactNext) /\ UNCHANGED <<staff, webVars, leads>>
  \/ DirectoryNext /\ UNCHANGED <<webVars, leads>>
  \/ WebNext \/ TriageNext \/ ProspectNext \/ LeadNext

IntakeSpec == IntakeInit /\ [][IntakeNext]_intakeVars

----
IntakeTypeOK ==
  /\ ClientsTypeOK /\ DirectoryTypeOK
  /\ time \in 0..MaxTime
  /\ visits \subseteq [by : Visitors, from : Addresses, at : 0..time]
  /\ \A s \in DOMAIN submissions :
       /\ submissions[s].status \in {"RECEIVED", "DUPLICATE", "REJECTED_SPAM", "ACCEPTED_AS_LEAD"}
       /\ submissions[s].lead \in {NoLead} \cup DOMAIN leads
  /\ \A l \in DOMAIN leads :
       /\ leads[l].client \in DOMAIN clients /\ leads[l].contact \in DOMAIN contacts
       /\ leads[l].status \in {"OPEN", "CONVERTED", "LOST"}
       /\ leads[l].engagement \in {0} \cup DOMAIN engagements

(* An engagement that is not archived has an active client: a lead cannot   *)
(* be converted for a client that left, nor can the client of an engagement *)
(* leave.  It stems from one lead, that lead from one inquiry at most, and  *)
(* all three speak of the same client.                                      *)
WorkKeepsItsClient ==
  /\ \A e \in DOMAIN engagements :
       /\ engagements[e].phase # "ARCHIVED_READ_ONLY" => clients[engagements[e].client].active
       /\ \E l \in DOMAIN leads :
            /\ leads[l].engagement = e /\ leads[l].client = engagements[e].client
            /\ \A m \in DOMAIN leads : leads[m].engagement = e => l = m
  /\ \A l \in DOMAIN leads :
       /\ (leads[l].status = "CONVERTED") <=> (leads[l].engagement # 0)
       /\ contacts[leads[l].contact].client = leads[l].client
  /\ \A s, t \in DOMAIN submissions :
       submissions[s].status = "ACCEPTED_AS_LEAD" =>
         /\ submissions[s].lead # NoLead
         /\ submissions[t].status = "ACCEPTED_AS_LEAD" /\ submissions[t].lead = submissions[s].lead => s = t

(* No address submits more than the limit within any window of time.        *)
VisitsAreLimited ==
  \A a \in Addresses, t \in 0..time :
    Cardinality({h \in visits : h.from = a /\ t < h.at + Window /\ h.at <= t}) <= VisitLimit

(* The directory holds together, whoever changes it in between. *)
DirectoryHolds ==
  /\ ClientsFormAForest
  /\ FirstsAreUnique
  /\ ImportsMapOnce
  /\ ApproversRemain
  /\ WorkKeepsItsClient
  /\ VisitsAreLimited
================================================================================
