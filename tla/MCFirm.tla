-------------------------------- MODULE MCFirm --------------------------------
(***************************************************************************)
(* The firm's own records on a small instance, a part at a time: its       *)
(* directory (the clients and their import, the contacts, the people, the  *)
(* inquiries from the web, the leads), the manual commands of the ledger,  *)
(* the billing of an engagement, or the time spent on it.  What the        *)
(* commands of one part do to what it shares with others, those cannot     *)
(* tell from its own.                                                      *)
(***************************************************************************)
EXTENDS Practice, Intake, TLC

CONSTANT Parts

VARIABLE part

vars == <<part, today, ledger, billing, practice, intakeVars>>

(* Files to import: a group of two, the subsidiary first and with a code    *)
(* staff use, and a client under itself.                                    *)
Row(ref, parent, code, kind, purposes) ==
  [ref |-> ref, parent |-> parent, code |-> code, name |-> "N", kind |-> kind,
   email |-> NoEmail, role |-> "OTHER", purposes |-> purposes]
Group == << Row("y", "x", "A", "SUBSIDIARY", {"EL"}), Row("x", NoRef, "X", "HOLDING", {}) >>
Ring == << Row("v", "v", "V", "SUBSIDIARY", {}) >>
ImportFiles == {Group, Ring}

Init ==
  /\ part \in Parts
  /\ PracticeInit /\ IntakeInit
  /\ rank = "SENIOR" \/ part = "PRACTICE"

(* A contact or a client leaves, a contact joins; the rest stays. *)
Leave ==
  \/ \E k \in DOMAIN contacts : ContactUpdate(k, contacts[k].email, contacts[k].role, FALSE, FALSE)
  \/ \E c \in DOMAIN clients : ClientDeactivate(c)
Join == \E c \in DOMAIN clients, email \in Emails : ContactCreate(c, email, "OTHER")
Calm == UNCHANGED <<staff, webVars, leads>>

DirectoryPart ==
  \/ part = "CLIENTS" /\ (ClientNext \/ ImportNext) /\ Calm
  \/ part = "CONTACTS" /\ (ClientNext \/ ContactNext) /\ Calm
  \/ /\ part = "PEOPLE"
     /\ \/ DirectoryNext /\ UNCHANGED <<webVars, leads>>
        \/ (ClientNext \/ Leave) /\ Calm
  \/ part = "WEB" /\ (WebNext \/ TriageNext \/ ProspectNext \/ (Leave /\ Calm))
  \/ part = "LEADS" /\ (LeadNext \/ ProspectNext \/ ((ClientNext \/ Join \/ Leave) /\ Calm))

Next ==
  /\ UNCHANGED part
  /\ \/ part = "LEDGER" /\ LedgerNext /\ UNCHANGED <<billing, practice, intakeVars>>
     \/ part = "BILLING" /\ BillingNext /\ UNCHANGED <<practice, intakeVars>>
     \/ part = "PRACTICE" /\ PracticeNext /\ UNCHANGED intakeVars
     \/ DirectoryPart /\ UNCHANGED <<today, ledger, billing, practice>>

Spec == Init /\ [][Next]_vars

TypeOK == LedgerTypeOK /\ BillingTypeOK /\ PracticeTypeOK /\ IntakeTypeOK

(* The reviewers and partners that have to do with an entry.                *)
Involved == Actors \cap UNION {{entries[t].creator, entries[t].submitter, entries[t].approver} : t \in TimeEntries}

(* In PRACTICE at most one entry is not its preparer's own, at most one at  *)
(* a time waits to be submitted, the first may be of the other grade, there *)
(* are two later events of a rate, and of two actors that are alike one is  *)
(* the first to act; in LEDGER there are two journals; in BILLING two       *)
(* payments and a reversal by hand while the one period stays open, and a   *)
(* payment when periods change; in the parts of the directory few clients   *)
(* and contacts, told apart by what the part is about.  States beyond the   *)
(* bounds are checked, those after them are not explored.                   *)
Bounded ==
  /\ part = "LEDGER" => Cardinality(DOMAIN journals) <= 2
  /\ part = "PRACTICE" =>
       /\ Cardinality({t \in TimeEntries : entries[t].creator \in Actors}) <= 1
       /\ Cardinality({t \in TimeEntries : entries[t].status \in {"DRAFT", "RETURNED"}}) <= 1
       /\ Len(activations) <= 3 /\ \A k \in DOMAIN budgets : budgets[k] < LastDay
       /\ Involved \subseteq Cashiers \/ Cashiers \subseteq Involved
       /\ rank # "SENIOR" =>
            /\ Cardinality({t \in TimeEntries : entries[t].status # "ABSENT"}) <= 1
            /\ \A t \in TimeEntries : entries[t].creator \notin Actors /\ entries[t].start = Untimed
            /\ today = 1 /\ Len(activations) = 1
  /\ part = "BILLING" =>
       \/ periods = {Period(1, YearEnd, "OPEN")}
       \/ /\ Cardinality({p \in Payments : Original(p)}) <= 1 /\ Len(policies) = 1
          /\ \A k \in DOMAIN journals : k[1] # "reverse"
  /\ part \in {"CLIENTS", "CONTACTS"} =>
       /\ affiliations = {} \/ (part = "CLIENTS" /\ Cardinality(affiliations) = 1)
       /\ \A c \in DOMAIN clients : clients[c].kind # "STANDALONE"
  /\ part = "CONTACTS" =>
       /\ Len(clients) <= 1 /\ Len(contacts) <= 3
       /\ \A k \in DOMAIN contacts : contacts[k].email = NoEmail
  /\ part = "LEADS" =>
       /\ Len(clients) + Len(contacts) <= 3 /\ affiliations = {}
       /\ \A c \in DOMAIN clients : clients[c].kind = "STANDALONE"
       /\ \A r \in routes : r.primary
  /\ part = "PEOPLE" => Len(clients) <= 1 /\ Len(contacts) <= 1

Symmetry == Permutations(Payments) \cup Permutations(TimeEntries)
================================================================================
