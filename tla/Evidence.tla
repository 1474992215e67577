------------------------------ MODULE Evidence ------------------------------
(***************************************************************************)
(* Evidence and reviews, which all of fieldwork rests on                   *)
(* (worker/businessFieldwork.ts).  Evidence comes in families of versions; *)
(* a link names a version of a family and the version of the row it was    *)
(* made for, and a pin is what a hash of the links covers: the evidence    *)
(* version and what its reviewer thought of it.  A review submission is    *)
(* decided once, by a person who contributed nothing to it; returning it   *)
(* opens a note, which its preparer answers.                               *)
(***************************************************************************)
EXTENDS Confirmations, Functions, FiniteSetsExt

CONSTANTS
  Families,        \* families of evidence
  MaxEvidence,     \* bound on the versions of a family
  MaxSubmissions   \* bound on review submissions

ASSUME EvidenceBounds == MaxEvidence \in Nat /\ MaxSubmissions \in Nat

VARIABLES
  evidence,     \* the versions of each family of evidence, oldest first
  submissions,  \* review_submissions with their decision, oldest first
  notes         \* review_notes, oldest first

reviewVars == <<submissions, notes>>

Adequacies == {"PENDING", "ADEQUATE", "DEFICIENT"}

EvidenceTypeOK ==
  /\ ConfirmationsTypeOK /\ stage \in Stages
  /\ evidence \in [Families -> Seq([by : Staff, adequacy : Adequacies])]
  /\ \A n \in DOMAIN notes : notes[n].submission \in DOMAIN submissions
  /\ \A s \in DOMAIN submissions :
       submissions[s].decision = "NONE" <=> submissions[s].reviewer = Nobody

EvidenceInit ==
  /\ evidence = [f \in Families |-> <<>>]
  /\ submissions = <<>> /\ notes = <<>>

IsLatest(link) == link.version = Len(evidence[link.family])
Adequacy(link) == evidence[link.family][link.version].adequacy
Pins(links) == {[family |-> l.family, version |-> l.version,
                 adequacy |-> Adequacy(l)] : l \in links}
AllLatest(links) == \A l \in links : IsLatest(l)
AllAdequate(links) == \A l \in links : Adequacy(l) = "ADEQUATE"

(* Mutant: links of replaced evidence are kept too. *)
RelinkedAll(f, links, target) ==
  {[l EXCEPT !.target = target] :
     l \in links \cup {[family |-> f, version |-> Len(evidence[f]), target |-> 0]}}

(* Only the latest version of a family is linked; then the links of the
   target are made anew for its next version, but those of replaced evidence
   and of the family being linked are dropped. *)
Linkable(f, links) ==
  evidence[f] # <<>> /\ ~\E l \in links : l.family = f /\ IsLatest(l)
Relinked(f, links, target) ==
  LET kept == {l \in links : IsLatest(l) /\ l.family # f}
      new  == [family |-> f, version |-> Len(evidence[f]), target |-> 0]
  IN {[l EXCEPT !.target = target] : l \in kept \cup {new}}

OnePerFamily(links) ==
  /\ \A l \in links : l.family \in Families /\ l.version \in DOMAIN evidence[l.family]
  /\ \A k, l \in links : k.family = l.family => k = l

(***************************************************************************)
(* Evidence.                                                               *)
(***************************************************************************)
EvidenceCreate(who, f) ==
  /\ Executable /\ Len(evidence[f]) < MaxEvidence
  /\ evidence' = [evidence EXCEPT ![f] = Append(@, [by |-> who, adequacy |-> "PENDING"])]

(* Only the latest version is judged, and never by who recorded it; it may
   be judged again whatever rests on it. *)
EvidenceReview(who, f, adequacy) ==
  /\ Executable /\ evidence[f] # <<>>
  /\ who # Last(evidence[f]).by
  /\ evidence' = [evidence EXCEPT ![f][Len(evidence[f])].adequacy = adequacy]

(***************************************************************************)
(* Review submissions.                                                     *)
(***************************************************************************)
Submission(kind, item, target, who, contributors) ==
  [kind |-> kind, item |-> item, target |-> target, content |-> target - 1,
   pins |-> {}, samples |-> {}, versions |-> <<>>, contributors |-> contributors \cup {who},
   decision |-> "NONE", reviewer |-> Nobody]

Submit(submission) ==
  /\ Len(submissions) < MaxSubmissions
  /\ submissions' = Append(submissions, submission)

Decided(s, decision, who) ==
  /\ submissions[s].decision = "NONE"
  /\ who \notin submissions[s].contributors
  /\ submissions' = [submissions EXCEPT ![s].decision = decision, ![s].reviewer = who]

(* The submission of kind about item was accepted at a version. *)
AcceptedAt(kind, item, version) ==
  \E s \in DOMAIN submissions :
    /\ submissions[s].kind = kind /\ submissions[s].item = item
    /\ submissions[s].target = version /\ submissions[s].decision = "ACCEPT"

(* The note of a returned submission is about a procedure or about nobody. *)
Note(s, about) == [submission |-> s, procedure |-> about, status |-> "OPEN", after |-> 0]
NoteUnlessAccepted(s, decision) ==
  notes' = IF decision = "ACCEPT" THEN notes ELSE Append(notes, Note(s, Nobody))

NoteRespond(n) ==
  /\ Executable /\ notes[n].status = "OPEN"
  /\ notes' = [notes EXCEPT ![n].status = "RESPONDED", ![n].after = Len(submissions)]
  /\ UNCHANGED submissions

(* A resubmission s answers note n when it is a later version of what the
   note is about; of going concern it is a later assessment. *)
Answers(s, n) ==
  LET noted == submissions[notes[n].submission]
      again == submissions[s]
  IN /\ again.kind = noted.kind
     /\ CASE noted.kind = "WORKPROGRAM" ->
               again.versions[notes[n].procedure] > noted.versions[notes[n].procedure]
          [] noted.kind = "GOING_CONCERN" -> again.item > noted.item
          [] OTHER -> again.item = noted.item /\ again.target > noted.target

NoteClose(n, s) ==
  /\ Executable /\ notes[n].status = "RESPONDED"
  /\ s > notes[n].after /\ submissions[s].decision = "ACCEPT" /\ Answers(s, n)
  /\ notes' = [notes EXCEPT ![n].status = "CLOSED"]
  /\ UNCHANGED submissions

NotesClosed == \A n \in DOMAIN notes : notes[n].status = "CLOSED"
=============================================================================
