------------------------------ MODULE AuditProofs ------------------------------
(***************************************************************************)
(* What holds of an engagement from its fieldwork to the release of its    *)
(* report, for any staff, procedures, evidence, samples and confirmations  *)
(* and any number of submissions, adjustments, papers and days: it is      *)
(* handed over on work that was done and reviewed by others, the SRM       *)
(* summarises settled statements, what is released is of one day, and      *)
(* every part of it keeps its types.                                       *)
(***************************************************************************)
EXTENDS Release, SequenceTheorems, FiniteSetTheorems, TLAPS

----
(* Lists: sequences of whatever they have. *)

IsList(s) == s \in Seq(Range(s))

LEMMA ListLength ==
  ASSUME NEW s, IsList(s)
  PROVE  Len(s) \in Nat /\ DOMAIN s = 1..Len(s) /\ s = [i \in DOMAIN s |-> s[i]]
<1> DEFINE S == Range(s)
<1>1. s \in Seq(S)
  BY DEF IsList
<1> HIDE DEF S
<1> QED  BY <1>1, LenProperties

LEMMA SequencesAreLists ==
  ASSUME NEW S, NEW t \in Seq(S)
  PROVE  IsList(t)
<1>1. Len(t) \in Nat /\ DOMAIN t = 1..Len(t) /\ t \in [1..Len(t) -> S]
  BY LenProperties
<1> DEFINE R == Range(t)
<1>2. \A i \in 1..Len(t) : t[i] \in R
  BY <1>1 DEF Range
<1>3. t \in [1..Len(t) -> R]
  <2> HIDE DEF R
  <2> QED  BY <1>1, <1>2
<1>4. t \in Seq(R)
  <2> HIDE DEF R
  <2> QED  BY <1>1, <1>3, SeqDef
<1> QED  BY <1>4 DEF IsList

LEMMA NothingIsAList == IsList(<<>>) /\ DOMAIN <<>> = {} /\ Len(<<>>) = 0
<1>1. <<>> \in Seq({})
  OBVIOUS
<1>2. IsList(<<>>)
  BY <1>1, SequencesAreLists
<1>3. Len(<<>>) = 0
  OBVIOUS
<1>4. DOMAIN <<>> = {}
  OBVIOUS
<1> QED  BY <1>2, <1>3, <1>4

LEMMA Longer ==
  ASSUME NEW s, IsList(s), NEW e
  PROVE  /\ IsList(Append(s, e))
         /\ Len(s) \in Nat /\ Len(Append(s, e)) = Len(s) + 1
         /\ DOMAIN Append(s, e) = DOMAIN s \cup {Len(s) + 1} /\ Len(s) + 1 \notin DOMAIN s
         /\ \A i \in DOMAIN s : Append(s, e)[i] = s[i]
         /\ Append(s, e)[Len(s) + 1] = e
<1> DEFINE S == Range(s) \cup {e}
<1>1. s \in Seq(S)
  <2> DEFINE R == Range(s)
  <2>1. s \in Seq(R) /\ R \subseteq S
    BY DEF IsList
  <2> HIDE DEF R, S
  <2> QED  BY <2>1, SeqMonotonic
<1>2. e \in S
  OBVIOUS
<1> HIDE DEF S
<1>3. /\ Append(s, e) \in Seq(S) /\ Len(Append(s, e)) = Len(s) + 1
      /\ \A i \in 1..Len(s) : Append(s, e)[i] = s[i]
      /\ Append(s, e)[Len(s) + 1] = e
  BY <1>1, <1>2, AppendProperties
<1>4. /\ Len(s) \in Nat /\ DOMAIN s = 1..Len(s)
      /\ DOMAIN Append(s, e) = 1..(Len(s) + 1)
  BY <1>1, <1>3, LenProperties
<1>5. 1..(Len(s) + 1) = 1..Len(s) \cup {Len(s) + 1} /\ Len(s) + 1 \notin 1..Len(s)
  BY <1>4
<1>6. IsList(Append(s, e))
  BY <1>3, SequencesAreLists
<1> QED  BY <1>3, <1>4, <1>5, <1>6

(* Changing what a list has leaves it a list. *)
LEMMA StillAList ==
  ASSUME NEW s, IsList(s), NEW t, t = [i \in DOMAIN s |-> t[i]]
  PROVE  IsList(t) /\ Len(t) = Len(s)
<1>1. Len(s) \in Nat /\ DOMAIN s = 1..Len(s)
  BY ListLength
<1> DEFINE R == Range(t)  n == Len(s)
<1>2. \A i \in 1..n : t[i] \in R
  BY <1>1 DEF Range
<1>3. t \in [1..n -> R]
  <2> HIDE DEF R
  <2> QED  BY <1>1, <1>2
<1>4. t \in Seq(R)
  <2> HIDE DEF R
  <2> QED  BY <1>1, <1>3, SeqDef
<1>5. IsList(t)
  BY <1>4 DEF IsList
<1>6. Len(t) \in Nat /\ DOMAIN t = 1..Len(t)
  BY <1>5, ListLength
<1>7. 1..Len(t) = 1..Len(s) => Len(t) = Len(s)
  BY <1>1, <1>6
<1> QED  BY <1>1, <1>3, <1>5, <1>6, <1>7

----
(* Rows of procedures and of reviews, and what a review is worth while its  *)
(* procedure moves on: a version is submitted and decided once, and every   *)
(* later write of the row raises the version beyond what was decided.       *)

RowForm(r) ==
  /\ r = [version |-> r.version, status |-> r.status, applicable |-> r.applicable, executed |-> r.executed,
          editors |-> r.editors, links |-> r.links, pins |-> r.pins]
  /\ r.version \in Nat

RowsForm(rows) ==
  /\ rows = [q \in DOMAIN rows |-> rows[q]]
  /\ \A q \in DOMAIN rows : RowForm(rows[q])

SubmissionForm(u) ==
  /\ u = [kind |-> u.kind, item |-> u.item, target |-> u.target, content |-> u.content, pins |-> u.pins,
          samples |-> u.samples, versions |-> u.versions, contributors |-> u.contributors,
          decision |-> u.decision, reviewer |-> u.reviewer]
  /\ u.decision # "NONE" => u.reviewer \notin u.contributors

SubmissionsForm(subs) ==
  /\ IsList(subs)
  /\ \A k \in DOMAIN subs : SubmissionForm(subs[k])

(* A review of a procedure is of its version, or of an earlier one.         *)
OfRow(rows, u) ==
  u.kind = "PROCEDURE" =>
    /\ u.item \in DOMAIN rows
    /\ u.target \in Nat /\ u.target <= rows[u.item].version
    /\ u.decision # "NONE" => u.target < rows[u.item].version
    /\ u.target = rows[u.item].version =>
         rows[u.item].editors \subseteq u.contributors /\ rows[u.item].pins = u.pins
    /\ u.decision = "ACCEPT" /\ u.target + 1 = rows[u.item].version =>
         rows[u.item].editors \subseteq u.contributors

(* So is one of the workprogram, of all its procedures.                     *)
OfProgram(rows, u) ==
  u.kind = "WORKPROGRAM" =>
    /\ DOMAIN u.versions \subseteq DOMAIN rows
    /\ \A q \in DOMAIN u.versions : u.versions[q] \in Nat /\ u.versions[q] <= rows[q].version
    /\ DOMAIN u.versions = DOMAIN rows /\ (\A q \in DOMAIN rows : u.versions[q] = rows[q].version) =>
         \A q \in DOMAIN rows : rows[q].editors \subseteq u.contributors

RowAccepted(rows, subs, q) ==
  \E k \in DOMAIN subs :
    /\ subs[k].kind = "PROCEDURE" /\ subs[k].item = q /\ subs[k].decision = "ACCEPT"
    /\ subs[k].target + 1 = rows[q].version

(* What a procedure that was submitted, or reviewed, rests on.              *)
RowStands(rows, subs, q) ==
  /\ rows[q].status \in {"SUBMITTED", "REVIEWED"} /\ rows[q].applicable /\ q \notin Optional => rows[q].pins # {}
  /\ rows[q].status = "REVIEWED" /\ rows[q].applicable => \A pin \in rows[q].pins : pin.adequacy = "ADEQUATE"
  /\ rows[q].status = "REVIEWED" => RowAccepted(rows, subs, q)

WorkStands(rows, subs) ==
  /\ RowsForm(rows) /\ SubmissionsForm(subs)
  /\ \A k \in DOMAIN subs : OfRow(rows, subs[k]) /\ OfProgram(rows, subs[k])
  /\ \A q \in DOMAIN rows : RowStands(rows, subs, q)

ClearancesStand(cleared, subs) ==
  \A v \in cleared :
    \E k \in DOMAIN subs :
      subs[k].kind = "WORKPROGRAM" /\ subs[k].decision = "ACCEPT" /\ subs[k].versions = v

(* Rows move on by a version each, and rows may be added.                   *)
MoveOn(rows, rows2) ==
  /\ DOMAIN rows \subseteq DOMAIN rows2
  /\ \A q \in DOMAIN rows : rows2[q] = rows[q] \/ rows2[q].version = rows[q].version + 1

LEMMA RowReviewsMoveOn ==
  ASSUME NEW rows, NEW rows2, NEW u, RowsForm(rows), RowsForm(rows2), MoveOn(rows, rows2), OfRow(rows, u)
  PROVE  OfRow(rows2, u)
<1> SUFFICES ASSUME u.kind = "PROCEDURE"
             PROVE  OfRow(rows2, u)
  BY DEF OfRow
<1>1. /\ u.item \in DOMAIN rows /\ u.item \in DOMAIN rows2
      /\ u.target \in Nat /\ u.target <= rows[u.item].version
      /\ rows[u.item].version \in Nat /\ rows2[u.item].version \in Nat
  BY DEF OfRow, MoveOn, RowsForm, RowForm
<1>2. CASE rows2[u.item] = rows[u.item]
  BY <1>1, <1>2 DEF OfRow
<1>3. CASE rows2[u.item].version = rows[u.item].version + 1
  <2>1. u.target < rows2[u.item].version
    BY <1>1, <1>3
  <2>2. ~(u.decision = "ACCEPT" /\ u.target + 1 = rows2[u.item].version)
    <3>1. SUFFICES ASSUME u.decision = "ACCEPT" PROVE u.target + 1 # rows2[u.item].version
      OBVIOUS
    <3>2. u.target < rows[u.item].version
      BY <3>1 DEF OfRow
    <3> QED  BY <1>1, <1>3, <3>2
  <2> QED  BY <1>1, <2>1, <2>2 DEF OfRow
<1> QED  BY <1>1, <1>2, <1>3 DEF MoveOn

LEMMA ProgramReviewsMoveOn ==
  ASSUME NEW rows, NEW rows2, NEW u, RowsForm(rows), RowsForm(rows2), MoveOn(rows, rows2), OfProgram(rows, u)
  PROVE  OfProgram(rows2, u)
<1> SUFFICES ASSUME u.kind = "WORKPROGRAM"
             PROVE  OfProgram(rows2, u)
  BY DEF OfProgram
<1>1. /\ DOMAIN u.versions \subseteq DOMAIN rows
      /\ \A q \in DOMAIN u.versions : u.versions[q] \in Nat /\ u.versions[q] <= rows[q].version
  BY DEF OfProgram
<1>2. /\ \A q \in DOMAIN rows : rows[q].version \in Nat
      /\ \A q \in DOMAIN rows2 : rows2[q].version \in Nat
  BY DEF RowsForm, RowForm
<1>3. DOMAIN u.versions \subseteq DOMAIN rows2
  BY <1>1 DEF MoveOn
<1>4. ASSUME NEW q \in DOMAIN u.versions
      PROVE  u.versions[q] \in Nat /\ u.versions[q] <= rows2[q].version
  <2>1. q \in DOMAIN rows /\ (rows2[q] = rows[q] \/ rows2[q].version = rows[q].version + 1)
    BY <1>1 DEF MoveOn
  <2> QED  BY <1>1, <1>2, <2>1
<1>5. ASSUME DOMAIN u.versions = DOMAIN rows2, \A q \in DOMAIN rows2 : u.versions[q] = rows2[q].version
      PROVE  \A q \in DOMAIN rows2 : rows2[q].editors \subseteq u.contributors
  <2>1. DOMAIN rows2 = DOMAIN rows
    BY <1>1, <1>5 DEF MoveOn
  <2>2. ASSUME NEW q \in DOMAIN rows PROVE rows2[q] = rows[q]
    <3>1. u.versions[q] <= rows[q].version /\ u.versions[q] = rows2[q].version /\ rows[q].version \in Nat
      BY <1>1, <1>2, <1>5, <2>1
    <3>2. rows2[q].version # rows[q].version + 1
      BY <3>1
    <3> QED  BY <3>2 DEF MoveOn
  <2>3. \A q \in DOMAIN rows : u.versions[q] = rows[q].version
    BY <1>5, <2>1, <2>2
  <2>4. \A q \in DOMAIN rows : rows[q].editors \subseteq u.contributors
    BY <1>5, <2>1, <2>3 DEF OfProgram
  <2> QED  BY <2>1, <2>2, <2>4
<1> QED  BY <1>3, <1>4, <1>5 DEF OfProgram

(* Rows move on, and those that do still rest on what they should.          *)
LEMMA WorkMovesOn ==
  ASSUME NEW rows, NEW rows2, NEW subs, WorkStands(rows, subs), RowsForm(rows2), MoveOn(rows, rows2),
         \A q \in DOMAIN rows2 : (q \in DOMAIN rows /\ rows2[q] = rows[q]) \/ RowStands(rows2, subs, q)
  PROVE  WorkStands(rows2, subs)
<1>1. RowsForm(rows) /\ SubmissionsForm(subs)
  BY DEF WorkStands
<1>2. \A k \in DOMAIN subs : OfRow(rows2, subs[k])
  BY <1>1, RowReviewsMoveOn DEF WorkStands
<1>3. \A k \in DOMAIN subs : OfProgram(rows2, subs[k])
  BY <1>1, ProgramReviewsMoveOn DEF WorkStands
<1>4. ASSUME NEW q \in DOMAIN rows2 PROVE RowStands(rows2, subs, q)
  <2>1. CASE q \in DOMAIN rows /\ rows2[q] = rows[q]
    <3>1. RowStands(rows, subs, q)
      BY <2>1 DEF WorkStands
    <3> QED  BY <2>1, <3>1 DEF RowStands, RowAccepted
  <2> QED  BY <2>1
<1> QED  BY <1>1, <1>2, <1>3, <1>4 DEF WorkStands

(* A row that can be edited rests on nothing yet.                           *)
LEMMA EditableStands ==
  ASSUME NEW rows, NEW subs, NEW q, rows[q].status \in Editable
  PROVE  RowStands(rows, subs, q)
BY DEF RowStands, Editable

LEMMA SubmissionAdded ==
  ASSUME NEW rows, NEW subs, NEW u, WorkStands(rows, subs), SubmissionForm(u), OfRow(rows, u), OfProgram(rows, u)
  PROVE  WorkStands(rows, Append(subs, u))
<1> DEFINE more == Append(subs, u)  n == Len(subs) + 1
<1>1. IsList(subs) /\ RowsForm(rows)
  BY DEF WorkStands, SubmissionsForm
<1>2. /\ IsList(more) /\ DOMAIN more = DOMAIN subs \cup {n} /\ n \notin DOMAIN subs
      /\ \A i \in DOMAIN subs : more[i] = subs[i]
      /\ more[n] = u
  BY <1>1, Longer
<1> HIDE DEF more, n
<1>3. SubmissionsForm(more)
  BY <1>2 DEF WorkStands, SubmissionsForm
<1>4. \A k \in DOMAIN more : OfRow(rows, more[k]) /\ OfProgram(rows, more[k])
  BY <1>2 DEF WorkStands
<1>5. ASSUME NEW q \in DOMAIN rows PROVE RowStands(rows, more, q)
  <2>1. RowStands(rows, subs, q)
    BY DEF WorkStands
  <2>2. RowAccepted(rows, subs, q) => RowAccepted(rows, more, q)
    BY <1>2 DEF RowAccepted
  <2> QED  BY <2>1, <2>2 DEF RowStands
<1>6. WorkStands(rows, more)
  BY <1>1, <1>3, <1>4, <1>5 DEF WorkStands
<1> QED  BY <1>6 DEF more

LEMMA ClearedOfMore ==
  ASSUME NEW subs, NEW u, NEW cleared, IsList(subs), ClearancesStand(cleared, subs)
  PROVE  ClearancesStand(cleared, Append(subs, u))
<1> DEFINE more == Append(subs, u)
<1>1. DOMAIN subs \subseteq DOMAIN more /\ \A i \in DOMAIN subs : more[i] = subs[i]
  BY Longer
<1> HIDE DEF more
<1>2. ClearancesStand(cleared, more)
  BY <1>1 DEF ClearancesStand
<1> QED  BY <1>2 DEF more

(* A decision changes one submission, in its decision and its reviewer.     *)
LEMMA DecisionForm ==
  ASSUME NEW s, NEW decision, NEW who, SubmissionsForm(submissions), s \in DOMAIN submissions,
         Decided(s, decision, who)
  PROVE  LET old == submissions[s]  new == submissions'[s]
         IN /\ SubmissionsForm(submissions') /\ DOMAIN submissions' = DOMAIN submissions
            /\ \A k \in DOMAIN submissions : k # s => submissions'[k] = submissions[k]
            /\ old.decision = "NONE" /\ who \notin old.contributors
            /\ new.decision = decision /\ new.reviewer = who
            /\ new.kind = old.kind /\ new.item = old.item /\ new.target = old.target
            /\ new.pins = old.pins /\ new.versions = old.versions /\ new.contributors = old.contributors
<1> DEFINE old == submissions[s]
           new == [old EXCEPT !.decision = decision, !.reviewer = who]
<1>1. /\ submissions' = [submissions EXCEPT ![s].decision = decision, ![s].reviewer = who]
      /\ old.decision = "NONE" /\ who \notin old.contributors
  BY DEF Decided
<1>2. IsList(submissions) /\ \A k \in DOMAIN submissions : SubmissionForm(submissions[k])
  BY DEF SubmissionsForm
<1>3. submissions = [k \in DOMAIN submissions |-> submissions[k]]
  BY <1>2, ListLength
<1>4. submissions' = [k \in DOMAIN submissions |-> IF k = s THEN new ELSE submissions[k]]
  BY <1>1, <1>3
<1>5. /\ new.decision = decision /\ new.reviewer = who
      /\ new.kind = old.kind /\ new.item = old.item /\ new.target = old.target
      /\ new.pins = old.pins /\ new.versions = old.versions /\ new.contributors = old.contributors
      /\ SubmissionForm(new)
  <2>1. old = [kind |-> old.kind, item |-> old.item, target |-> old.target, content |-> old.content,
               pins |-> old.pins, samples |-> old.samples, versions |-> old.versions,
               contributors |-> old.contributors, decision |-> old.decision, reviewer |-> old.reviewer]
    BY <1>2 DEF SubmissionForm
  <2>2. new = [kind |-> old.kind, item |-> old.item, target |-> old.target, content |-> old.content,
               pins |-> old.pins, samples |-> old.samples, versions |-> old.versions,
               contributors |-> old.contributors, decision |-> decision, reviewer |-> who]
    <3> HIDE DEF old
    <3> DEFINE mid == [old EXCEPT !.decision = decision]
    <3>1. mid = [kind |-> old.kind, item |-> old.item, target |-> old.target, content |-> old.content,
                 pins |-> old.pins, samples |-> old.samples, versions |-> old.versions,
                 contributors |-> old.contributors, decision |-> decision, reviewer |-> old.reviewer]
      BY <2>1
    <3>2. new = [mid EXCEPT !.reviewer = who]
      BY <2>1
    <3> HIDE DEF mid, new
    <3> QED  BY <3>1, <3>2
  <2> HIDE DEF old, new
  <2>3. /\ new.decision = decision /\ new.reviewer = who
        /\ new.kind = old.kind /\ new.item = old.item /\ new.target = old.target /\ new.content = old.content
        /\ new.pins = old.pins /\ new.samples = old.samples /\ new.versions = old.versions
        /\ new.contributors = old.contributors
    BY <2>2
  <2>4. who \notin old.contributors
    BY <1>1
  <2> QED  BY <2>2, <2>3, <2>4 DEF SubmissionForm
<1> HIDE DEF new
<1>6. IsList(submissions')
  <2>1. submissions' = [k \in DOMAIN submissions |-> submissions'[k]]
    BY <1>4
  <2> QED  BY <1>2, <2>1, StillAList
<1>7. DOMAIN submissions' = DOMAIN submissions /\ submissions'[s] = new
  BY <1>4
<1>8. \A k \in DOMAIN submissions : k # s => submissions'[k] = submissions[k]
  BY <1>4
<1>9. SubmissionsForm(submissions')
  BY <1>2, <1>5, <1>6, <1>7, <1>8 DEF SubmissionsForm
<1> QED  BY <1>1, <1>5, <1>7, <1>8, <1>9

(* What rests on accepted reviews does so when another is decided.          *)
LEMMA AcceptedStay ==
  ASSUME NEW rows, NEW cleared, NEW s, NEW decision, NEW who, SubmissionsForm(submissions),
         s \in DOMAIN submissions, decision # "NONE", Decided(s, decision, who)
  PROVE  /\ \A q : RowAccepted(rows, submissions, q) => RowAccepted(rows, submissions', q)
         /\ ClearancesStand(cleared, submissions) => ClearancesStand(cleared, submissions')
<1>1. /\ DOMAIN submissions' = DOMAIN submissions /\ submissions[s].decision = "NONE"
      /\ \A k \in DOMAIN submissions : k # s => submissions'[k] = submissions[k]
  BY DecisionForm
<1>2. \A k \in DOMAIN submissions : submissions[k].decision = "ACCEPT" => submissions'[k] = submissions[k]
  BY <1>1
<1>3. \A q : RowAccepted(rows, submissions, q) => RowAccepted(rows, submissions', q)
  BY <1>1, <1>2 DEF RowAccepted
<1>4. ClearancesStand(cleared, submissions) => ClearancesStand(cleared, submissions')
  BY <1>1, <1>2 DEF ClearancesStand
<1> QED  BY <1>3, <1>4

(* The review of anything but a procedure leaves the procedures standing.   *)
LEMMA OtherDecided ==
  ASSUME NEW rows, NEW s, NEW decision, NEW who, WorkStands(rows, submissions), s \in DOMAIN submissions,
         decision # "NONE", Decided(s, decision, who), submissions[s].kind # "PROCEDURE"
  PROVE  WorkStands(rows, submissions')
<1>1. RowsForm(rows) /\ SubmissionsForm(submissions)
  BY DEF WorkStands
<1>2. /\ SubmissionsForm(submissions') /\ DOMAIN submissions' = DOMAIN submissions
      /\ \A k \in DOMAIN submissions : k # s => submissions'[k] = submissions[k]
      /\ submissions'[s].kind = submissions[s].kind /\ submissions'[s].versions = submissions[s].versions
      /\ submissions'[s].contributors = submissions[s].contributors
  BY <1>1, DecisionForm
<1>3. ASSUME NEW k \in DOMAIN submissions PROVE OfRow(rows, submissions'[k]) /\ OfProgram(rows, submissions'[k])
  <2>1. OfRow(rows, submissions[k]) /\ OfProgram(rows, submissions[k])
    BY DEF WorkStands
  <2>2. CASE k # s
    BY <1>2, <2>1, <2>2
  <2>3. CASE k = s
    <3>1. OfRow(rows, submissions'[s])
      BY <1>2 DEF OfRow
    <3>2. OfProgram(rows, submissions'[s])
      BY <1>2, <2>1, <2>3 DEF OfProgram
    <3> QED  BY <2>3, <3>1, <3>2
  <2> QED  BY <2>2, <2>3
<1>4. ASSUME NEW q \in DOMAIN rows PROVE RowStands(rows, submissions', q)
  <2>1. RowStands(rows, submissions, q)
    BY DEF WorkStands
  <2>2. RowAccepted(rows, submissions, q) => RowAccepted(rows, submissions', q)
    BY <1>1, AcceptedStay
  <2> QED  BY <2>1, <2>2 DEF RowStands
<1> QED  BY <1>1, <1>2, <1>3, <1>4 DEF WorkStands

(* The review of a procedure, and the next version of the procedure.        *)
LEMMA ProcedureDecided ==
  ASSUME NEW rows, NEW rows2, NEW s, NEW decision \in {"ACCEPT", "RETURN"}, NEW who,
         WorkStands(rows, submissions), s \in DOMAIN submissions, Decided(s, decision, who),
         submissions[s].kind = "PROCEDURE", rows[submissions[s].item].version = submissions[s].target,
         RowsForm(rows2), DOMAIN rows2 = DOMAIN rows,
         \A q \in DOMAIN rows : q # submissions[s].item => rows2[q] = rows[q],
         rows2[submissions[s].item].version = rows[submissions[s].item].version + 1,
         rows2[submissions[s].item].editors = rows[submissions[s].item].editors,
         decision = "RETURN" => rows2[submissions[s].item].status \in Editable,
         decision = "ACCEPT" =>
           LET old == rows[submissions[s].item]  new == rows2[submissions[s].item]
           IN /\ old.status = "SUBMITTED" /\ new.status = "REVIEWED"
              /\ new.pins = old.pins /\ new.applicable = old.applicable
              /\ old.applicable => \A pin \in old.pins : pin.adequacy = "ADEQUATE"
  PROVE  WorkStands(rows2, submissions')
<1> DEFINE p == submissions[s].item
<1>1. /\ RowsForm(rows) /\ SubmissionsForm(submissions)
      /\ OfRow(rows, submissions[s])
  BY DEF WorkStands
<1>2. /\ SubmissionsForm(submissions') /\ DOMAIN submissions' = DOMAIN submissions
      /\ \A k \in DOMAIN submissions : k # s => submissions'[k] = submissions[k]
      /\ submissions'[s].kind = "PROCEDURE" /\ submissions'[s].item = p
      /\ submissions'[s].target = submissions[s].target /\ submissions'[s].pins = submissions[s].pins
      /\ submissions'[s].contributors = submissions[s].contributors /\ submissions'[s].decision = decision
  BY <1>1, DecisionForm
<1>3. /\ p \in DOMAIN rows /\ submissions[s].target \in Nat /\ submissions[s].target = rows[p].version
      /\ rows[p].editors \subseteq submissions[s].contributors
  BY <1>1 DEF OfRow
<1>4. MoveOn(rows, rows2)
  BY DEF MoveOn
<1>5. \A k \in DOMAIN submissions : OfRow(rows2, submissions[k]) /\ OfProgram(rows2, submissions[k])
  BY <1>1, <1>4, RowReviewsMoveOn, ProgramReviewsMoveOn DEF WorkStands
<1>6. OfRow(rows2, submissions'[s]) /\ OfProgram(rows2, submissions'[s])
  <2>1. /\ p \in DOMAIN rows2 /\ rows2[p].version = submissions[s].target + 1
        /\ rows2[p].editors \subseteq submissions'[s].contributors
    BY <1>2, <1>3
  <2>2. submissions[s].target < rows2[p].version /\ submissions[s].target # rows2[p].version
    BY <1>3, <2>1
  <2> HIDE DEF p
  <2>3. OfRow(rows2, submissions'[s])
    BY <1>2, <1>3, <2>1, <2>2 DEF OfRow
  <2>4. OfProgram(rows2, submissions'[s])
    BY <1>2 DEF OfProgram
  <2> QED  BY <2>3, <2>4
<1>7. \A k \in DOMAIN submissions' : OfRow(rows2, submissions'[k]) /\ OfProgram(rows2, submissions'[k])
  BY <1>2, <1>5, <1>6
<1>8. ASSUME NEW q \in DOMAIN rows2 PROVE RowStands(rows2, submissions', q)
  <2>0. RowStands(rows, submissions, q) /\ q \in DOMAIN rows
    BY DEF WorkStands
  <2>1. CASE q # p
    <3>1. rows2[q] = rows[q]
      BY <2>0, <2>1
    <3>2. RowAccepted(rows, submissions, q) => RowAccepted(rows, submissions', q)
      BY <1>1, AcceptedStay
    <3>3. RowAccepted(rows, submissions', q) => RowAccepted(rows2, submissions', q)
      BY <3>1 DEF RowAccepted
    <3> QED  BY <2>0, <3>1, <3>2, <3>3 DEF RowStands
  <2>2. CASE q = p /\ decision = "RETURN"
    BY <2>2, EditableStands
  <2>3. CASE q = p /\ decision = "ACCEPT"
    <3>1. RowAccepted(rows2, submissions', p)
      <4> HIDE DEF p
      <4> QED  BY <1>2, <1>3, <2>3 DEF RowAccepted, p
    <3>2. /\ rows[p].status = "SUBMITTED" /\ rows2[p].status = "REVIEWED"
          /\ rows2[p].pins = rows[p].pins /\ rows2[p].applicable = rows[p].applicable
          /\ rows[p].applicable => \A pin \in rows[p].pins : pin.adequacy = "ADEQUATE"
      BY <2>3
    <3>3. rows[p].applicable /\ p \notin Optional => rows[p].pins # {}
      BY <2>0, <2>3, <3>2 DEF RowStands
    <3> HIDE DEF p
    <3> QED  BY <2>3, <3>1, <3>2, <3>3 DEF RowStands
  <2> QED  BY <2>1, <2>2, <2>3
<1> QED  BY <1>2, <1>7, <1>8 DEF WorkStands

----
(* The rows of procedures as the commands write them.                       *)

Linked(r, x, y) == [r EXCEPT !.links = x, !.pins = y]

LEMMA RowLinked ==
  ASSUME NEW r, RowForm(r), NEW x, NEW y
  PROVE  LET n == Linked(r, x, y)
         IN /\ RowForm(n) /\ n.version = r.version /\ n.status = r.status /\ n.applicable = r.applicable
            /\ n.editors = r.editors /\ n.links = x /\ n.pins = y
<1> DEFINE n1 == [r EXCEPT !.links = x]
           n2 == [n1 EXCEPT !.pins = y]
           n == Linked(r, x, y)
<1>0. r = [version |-> r.version, status |-> r.status, applicable |-> r.applicable, executed |-> r.executed,
             editors |-> r.editors, links |-> r.links, pins |-> r.pins] /\ r.version \in Nat
  BY DEF RowForm
<1>1. n1 = [version |-> r.version, status |-> r.status, applicable |-> r.applicable, executed |-> r.executed,
             editors |-> r.editors, links |-> x, pins |-> r.pins]
  BY <1>0
<1>2. n2 = [version |-> r.version, status |-> r.status, applicable |-> r.applicable, executed |-> r.executed,
             editors |-> r.editors, links |-> x, pins |-> y]
  <2> HIDE DEF n1
  <2> QED  BY <1>1
<1>3. n = n2
  BY DEF Linked
<1> HIDE DEF n, n1, n2
<1>4. n = [version |-> r.version, status |-> r.status, applicable |-> r.applicable, executed |-> r.executed,
             editors |-> r.editors, links |-> x, pins |-> y]
  BY <1>2, <1>3
<1>5. /\ RowForm(n) /\ n.version = r.version /\ n.status = r.status /\ n.applicable = r.applicable
            /\ n.editors = r.editors /\ n.links = x /\ n.pins = y
  BY <1>0, <1>4 DEF RowForm
<1> QED  BY <1>5 DEF n

Unlinked(r, x, y) == [r EXCEPT !.links = x, !.status = "UNDER_REWORK", !.pins = y]

LEMMA RowUnlinked ==
  ASSUME NEW r, RowForm(r), NEW x, NEW y
  PROVE  LET n == Unlinked(r, x, y)
         IN /\ RowForm(n) /\ n.version = r.version /\ n.status = "UNDER_REWORK" /\ n.links = x
<1> DEFINE n1 == [r EXCEPT !.links = x]
           n2 == [n1 EXCEPT !.status = "UNDER_REWORK"]
           n3 == [n2 EXCEPT !.pins = y]
           n == Unlinked(r, x, y)
<1>0. r = [version |-> r.version, status |-> r.status, applicable |-> r.applicable, executed |-> r.executed,
             editors |-> r.editors, links |-> r.links, pins |-> r.pins] /\ r.version \in Nat
  BY DEF RowForm
<1>1. n1 = [version |-> r.version, status |-> r.status, applicable |-> r.applicable, executed |-> r.executed,
             editors |-> r.editors, links |-> x, pins |-> r.pins]
  BY <1>0
<1>2. n2 = [version |-> r.version, status |-> "UNDER_REWORK", applicable |-> r.applicable, executed |-> r.executed,
             editors |-> r.editors, links |-> x, pins |-> r.pins]
  <2> HIDE DEF n1
  <2> QED  BY <1>1
<1>3. n3 = [version |-> r.version, status |-> "UNDER_REWORK", applicable |-> r.applicable, executed |-> r.executed,
             editors |-> r.editors, links |-> x, pins |-> y]
  <2> HIDE DEF n1, n2
  <2> QED  BY <1>2
<1>4. n = n3
  BY DEF Unlinked
<1> HIDE DEF n, n1, n2, n3
<1>5. n = [version |-> r.version, status |-> "UNDER_REWORK", applicable |-> r.applicable, executed |-> r.executed,
             editors |-> r.editors, links |-> x, pins |-> y]
  BY <1>3, <1>4
<1>6. /\ RowForm(n) /\ n.version = r.version /\ n.status = "UNDER_REWORK" /\ n.links = x
  BY <1>0, <1>5 DEF RowForm
<1> QED  BY <1>6 DEF n

Written(r, x, y, z) == [r EXCEPT !.status = "IN_PROGRESS", !.executed = x, !.editors = y, !.pins = z]

LEMMA RowWritten ==
  ASSUME NEW r, RowForm(r), NEW x, NEW y, NEW z
  PROVE  LET n == Written(r, x, y, z)
         IN /\ RowForm(n) /\ n.version = r.version /\ n.status = "IN_PROGRESS" /\ n.links = r.links
<1> DEFINE n1 == [r EXCEPT !.status = "IN_PROGRESS"]
           n2 == [n1 EXCEPT !.executed = x]
           n3 == [n2 EXCEPT !.editors = y]
           n4 == [n3 EXCEPT !.pins = z]
           n == Written(r, x, y, z)
<1>0. r = [version |-> r.version, status |-> r.status, applicable |-> r.applicable, executed |-> r.executed,
             editors |-> r.editors, links |-> r.links, pins |-> r.pins] /\ r.version \in Nat
  BY DEF RowForm
<1>1. n1 = [version |-> r.version, status |-> "IN_PROGRESS", applicable |-> r.applicable, executed |-> r.executed,
             editors |-> r.editors, links |-> r.links, pins |-> r.pins]
  BY <1>0
<1>2. n2 = [version |-> r.version, status |-> "IN_PROGRESS", applicable |-> r.applicable, executed |-> x,
             editors |-> r.editors, links |-> r.links, pins |-> r.pins]
  <2> HIDE DEF n1
  <2> QED  BY <1>1
<1>3. n3 = [version |-> r.version, status |-> "IN_PROGRESS", applicable |-> r.applicable, executed |-> x,
             editors |-> y, links |-> r.links, pins |-> r.pins]
  <2> HIDE DEF n1, n2
  <2> QED  BY <1>2
<1>4. n4 = [version |-> r.version, status |-> "IN_PROGRESS", applicable |-> r.applicable, executed |-> x,
             editors |-> y, links |-> r.links, pins |-> z]
  <2> HIDE DEF n1, n2, n3
  <2> QED  BY <1>3
<1>5. n = n4
  BY DEF Written
<1> HIDE DEF n, n1, n2, n3, n4
<1>6. n = [version |-> r.version, status |-> "IN_PROGRESS", applicable |-> r.applicable, executed |-> x,
             editors |-> y, links |-> r.links, pins |-> z]
  BY <1>4, <1>5
<1>7. /\ RowForm(n) /\ n.version = r.version /\ n.status = "IN_PROGRESS" /\ n.links = r.links
  BY <1>0, <1>6 DEF RowForm
<1> QED  BY <1>7 DEF n

Declined(r, b, y, z) == [r EXCEPT !.status = "SUBMITTED", !.applicable = b, !.editors = y, !.pins = z]

LEMMA RowDeclined ==
  ASSUME NEW r, RowForm(r), NEW b, NEW y, NEW z
  PROVE  LET n == Declined(r, b, y, z)
         IN /\ RowForm(n) /\ n.version = r.version /\ n.status = "SUBMITTED" /\ n.applicable = b
            /\ n.editors = y /\ n.links = r.links /\ n.pins = z
<1> DEFINE n1 == [r EXCEPT !.status = "SUBMITTED"]
           n2 == [n1 EXCEPT !.applicable = b]
           n3 == [n2 EXCEPT !.editors = y]
           n4 == [n3 EXCEPT !.pins = z]
           n == Declined(r, b, y, z)
<1>0. r = [version |-> r.version, status |-> r.status, applicable |-> r.applicable, executed |-> r.executed,
             editors |-> r.editors, links |-> r.links, pins |-> r.pins] /\ r.version \in Nat
  BY DEF RowForm
<1>1. n1 = [version |-> r.version, status |-> "SUBMITTED", applicable |-> r.applicable, executed |-> r.executed,
             editors |-> r.editors, links |-> r.links, pins |-> r.pins]
  BY <1>0
<1>2. n2 = [version |-> r.version, status |-> "SUBMITTED", applicable |-> b, executed |-> r.executed,
             editors |-> r.editors, links |-> r.links, pins |-> r.pins]
  <2> HIDE DEF n1
  <2> QED  BY <1>1
<1>3. n3 = [version |-> r.version, status |-> "SUBMITTED", applicable |-> b, executed |-> r.executed,
             editors |-> y, links |-> r.links, pins |-> r.pins]
  <2> HIDE DEF n1, n2
  <2> QED  BY <1>2
<1>4. n4 = [version |-> r.version, status |-> "SUBMITTED", applicable |-> b, executed |-> r.executed,
             editors |-> y, links |-> r.links, pins |-> z]
  <2> HIDE DEF n1, n2, n3
  <2> QED  BY <1>3
<1>5. n = n4
  BY DEF Declined
<1> HIDE DEF n, n1, n2, n3, n4
<1>6. n = [version |-> r.version, status |-> "SUBMITTED", applicable |-> b, executed |-> r.executed,
             editors |-> y, links |-> r.links, pins |-> z]
  BY <1>4, <1>5
<1>7. /\ RowForm(n) /\ n.version = r.version /\ n.status = "SUBMITTED" /\ n.applicable = b
            /\ n.editors = y /\ n.links = r.links /\ n.pins = z
  BY <1>0, <1>6 DEF RowForm
<1> QED  BY <1>7 DEF n

LEMMA RowTo ==
  ASSUME NEW r, RowForm(r), NEW x
  PROVE  LET n == [r EXCEPT !.status = x]
         IN /\ RowForm(n) /\ n.version = r.version /\ n.status = x /\ n.applicable = r.applicable
            /\ n.editors = r.editors /\ n.links = r.links /\ n.pins = r.pins
BY DEF RowForm

LEMMA RowMoved ==
  ASSUME NEW r, RowForm(r)
  PROVE  LET n == [r EXCEPT !.version = @ + 1]
         IN /\ RowForm(n) /\ n.version = r.version + 1 /\ n.status = r.status /\ n.applicable = r.applicable
            /\ n.editors = r.editors /\ n.links = r.links /\ n.pins = r.pins
BY DEF RowForm

Repinned(r, x) == [r EXCEPT !.version = @ + 1, !.pins = x]

LEMMA RowPinned ==
  ASSUME NEW r, RowForm(r), NEW x
  PROVE  LET n == Repinned(r, x)
         IN /\ RowForm(n) /\ n.version = r.version + 1 /\ n.status = r.status /\ n.links = r.links
<1> DEFINE n1 == [r EXCEPT !.version = r.version + 1]
           n2 == [n1 EXCEPT !.pins = x]
           n == Repinned(r, x)
<1>0. r = [version |-> r.version, status |-> r.status, applicable |-> r.applicable, executed |-> r.executed,
             editors |-> r.editors, links |-> r.links, pins |-> r.pins] /\ r.version \in Nat
  BY DEF RowForm
<1>1. n1 = [version |-> r.version + 1, status |-> r.status, applicable |-> r.applicable, executed |-> r.executed,
             editors |-> r.editors, links |-> r.links, pins |-> r.pins]
  BY <1>0
<1>2. n2 = [version |-> r.version + 1, status |-> r.status, applicable |-> r.applicable, executed |-> r.executed,
             editors |-> r.editors, links |-> r.links, pins |-> x]
  <2> HIDE DEF n1
  <2> QED  BY <1>1
<1>3. n = n2
  BY DEF Repinned
<1> HIDE DEF n, n1, n2
<1>4. n = [version |-> r.version + 1, status |-> r.status, applicable |-> r.applicable, executed |-> r.executed,
             editors |-> r.editors, links |-> r.links, pins |-> x]
  BY <1>2, <1>3
<1>5. /\ RowForm(n) /\ n.version = r.version + 1 /\ n.status = r.status /\ n.links = r.links
  BY <1>0, <1>4 DEF RowForm
<1> QED  BY <1>5 DEF n

Reopened(r) == [r EXCEPT !.status = "UNDER_REWORK", !.version = @ + 1]

LEMMA RowReopened ==
  ASSUME NEW r, RowForm(r)
  PROVE  LET n == Reopened(r)
         IN /\ RowForm(n) /\ n.version = r.version + 1 /\ n.status = "UNDER_REWORK" /\ n.links = r.links
<1> DEFINE n1 == [r EXCEPT !.status = "UNDER_REWORK"]
           n2 == [n1 EXCEPT !.version = r.version + 1]
           n == Reopened(r)
<1>0. r = [version |-> r.version, status |-> r.status, applicable |-> r.applicable, executed |-> r.executed,
             editors |-> r.editors, links |-> r.links, pins |-> r.pins] /\ r.version \in Nat
  BY DEF RowForm
<1>1. n1 = [version |-> r.version, status |-> "UNDER_REWORK", applicable |-> r.applicable, executed |-> r.executed,
             editors |-> r.editors, links |-> r.links, pins |-> r.pins]
  BY <1>0
<1>2. n2 = [version |-> r.version + 1, status |-> "UNDER_REWORK", applicable |-> r.applicable, executed |-> r.executed,
             editors |-> r.editors, links |-> r.links, pins |-> r.pins]
  <2> HIDE DEF n1
  <2> QED  BY <1>1
<1>3. n = n2
  BY DEF Reopened
<1> HIDE DEF n, n1, n2
<1>4. n = [version |-> r.version + 1, status |-> "UNDER_REWORK", applicable |-> r.applicable, executed |-> r.executed,
             editors |-> r.editors, links |-> r.links, pins |-> r.pins]
  BY <1>2, <1>3
<1>5. /\ RowForm(n) /\ n.version = r.version + 1 /\ n.status = "UNDER_REWORK" /\ n.links = r.links
  BY <1>0, <1>4 DEF RowForm
<1> QED  BY <1>5 DEF n

----
(* Submissions as the commands make them.                                   *)

LEMMA SubmissionMade ==
  ASSUME NEW kind, NEW item, NEW target, NEW who, NEW people
  PROVE  LET n == Submission(kind, item, target, who, people)
         IN /\ SubmissionForm(n)
            /\ n.kind = kind /\ n.item = item /\ n.target = target /\ n.content = target - 1
            /\ n.contributors = people \cup {who} /\ n.decision = "NONE"
BY DEF Submission, SubmissionForm

WithPins(u, x) == [u EXCEPT !.pins = x]

LEMMA SubmissionPinned ==
  ASSUME NEW u, SubmissionForm(u), NEW x
  PROVE  LET n == WithPins(u, x)
         IN /\ SubmissionForm(n)
            /\ n.kind = u.kind /\ n.item = u.item /\ n.target = u.target /\ n.content = u.content
            /\ n.pins = x /\ n.samples = u.samples /\ n.versions = u.versions /\ n.contributors = u.contributors
            /\ n.decision = u.decision /\ n.reviewer = u.reviewer
<1> DEFINE n1 == [u EXCEPT !.pins = x]
           n == WithPins(u, x)
<1>0. u = [kind |-> u.kind, item |-> u.item, target |-> u.target, content |-> u.content, pins |-> u.pins,
             samples |-> u.samples, versions |-> u.versions, contributors |-> u.contributors,
             decision |-> u.decision, reviewer |-> u.reviewer]
  BY DEF SubmissionForm
<1>1. n1 = [kind |-> u.kind, item |-> u.item, target |-> u.target, content |-> u.content, pins |-> x,
             samples |-> u.samples, versions |-> u.versions, contributors |-> u.contributors,
             decision |-> u.decision, reviewer |-> u.reviewer]
  BY <1>0
<1>2. n = n1
  BY DEF WithPins
<1> HIDE DEF n, n1
<1>3. n = [kind |-> u.kind, item |-> u.item, target |-> u.target, content |-> u.content, pins |-> x,
             samples |-> u.samples, versions |-> u.versions, contributors |-> u.contributors,
             decision |-> u.decision, reviewer |-> u.reviewer]
  BY <1>1, <1>2
<1>4. /\ n.kind = u.kind /\ n.item = u.item /\ n.target = u.target /\ n.content = u.content
            /\ n.pins = x /\ n.samples = u.samples /\ n.versions = u.versions /\ n.contributors = u.contributors
            /\ n.decision = u.decision /\ n.reviewer = u.reviewer
  BY <1>3
<1>5. SubmissionForm(n)
  <2>1. u.decision # "NONE" => u.reviewer \notin u.contributors
    BY DEF SubmissionForm
  <2> QED  BY <1>3, <1>4, <2>1 DEF SubmissionForm
<1> QED  BY <1>4, <1>5 DEF n

WithSamples(u, x, y) == [u EXCEPT !.pins = x, !.samples = y]

LEMMA SubmissionSampled ==
  ASSUME NEW u, SubmissionForm(u), NEW x, NEW y
  PROVE  LET n == WithSamples(u, x, y)
         IN /\ SubmissionForm(n)
            /\ n.kind = u.kind /\ n.item = u.item /\ n.target = u.target /\ n.content = u.content
            /\ n.pins = x /\ n.samples = y /\ n.versions = u.versions /\ n.contributors = u.contributors
            /\ n.decision = u.decision /\ n.reviewer = u.reviewer
<1> DEFINE n1 == [u EXCEPT !.pins = x]
           n2 == [n1 EXCEPT !.samples = y]
           n == WithSamples(u, x, y)
<1>0. u = [kind |-> u.kind, item |-> u.item, target |-> u.target, content |-> u.content, pins |-> u.pins,
             samples |-> u.samples, versions |-> u.versions, contributors |-> u.contributors,
             decision |-> u.decision, reviewer |-> u.reviewer]
  BY DEF SubmissionForm
<1>1. n1 = [kind |-> u.kind, item |-> u.item, target |-> u.target, content |-> u.content, pins |-> x,
             samples |-> u.samples, versions |-> u.versions, contributors |-> u.contributors,
             decision |-> u.decision, reviewer |-> u.reviewer]
  BY <1>0
<1>2. n2 = [kind |-> u.kind, item |-> u.item, target |-> u.target, content |-> u.content, pins |-> x,
             samples |-> y, versions |-> u.versions, contributors |-> u.contributors,
             decision |-> u.decision, reviewer |-> u.reviewer]
  <2> HIDE DEF n1
  <2> QED  BY <1>1
<1>3. n = n2
  BY DEF WithSamples
<1> HIDE DEF n, n1, n2
<1>4. n = [kind |-> u.kind, item |-> u.item, target |-> u.target, content |-> u.content, pins |-> x,
             samples |-> y, versions |-> u.versions, contributors |-> u.contributors,
             decision |-> u.decision, reviewer |-> u.reviewer]
  BY <1>2, <1>3
<1>5. /\ n.kind = u.kind /\ n.item = u.item /\ n.target = u.target /\ n.content = u.content
            /\ n.pins = x /\ n.samples = y /\ n.versions = u.versions /\ n.contributors = u.contributors
            /\ n.decision = u.decision /\ n.reviewer = u.reviewer
  BY <1>4
<1>6. SubmissionForm(n)
  <2>1. u.decision # "NONE" => u.reviewer \notin u.contributors
    BY DEF SubmissionForm
  <2> QED  BY <1>4, <1>5, <2>1 DEF SubmissionForm
<1> QED  BY <1>5, <1>6 DEF n

WithVersions(u, x) == [u EXCEPT !.versions = x]

LEMMA SubmissionOf ==
  ASSUME NEW u, SubmissionForm(u), NEW x
  PROVE  LET n == WithVersions(u, x)
         IN /\ SubmissionForm(n)
            /\ n.kind = u.kind /\ n.item = u.item /\ n.target = u.target /\ n.content = u.content
            /\ n.pins = u.pins /\ n.samples = u.samples /\ n.versions = x /\ n.contributors = u.contributors
            /\ n.decision = u.decision /\ n.reviewer = u.reviewer
<1> DEFINE n1 == [u EXCEPT !.versions = x]
           n == WithVersions(u, x)
<1>0. u = [kind |-> u.kind, item |-> u.item, target |-> u.target, content |-> u.content, pins |-> u.pins,
             samples |-> u.samples, versions |-> u.versions, contributors |-> u.contributors,
             decision |-> u.decision, reviewer |-> u.reviewer]
  BY DEF SubmissionForm
<1>1. n1 = [kind |-> u.kind, item |-> u.item, target |-> u.target, content |-> u.content, pins |-> u.pins,
             samples |-> u.samples, versions |-> x, contributors |-> u.contributors,
             decision |-> u.decision, reviewer |-> u.reviewer]
  BY <1>0
<1>2. n = n1
  BY DEF WithVersions
<1> HIDE DEF n, n1
<1>3. n = [kind |-> u.kind, item |-> u.item, target |-> u.target, content |-> u.content, pins |-> u.pins,
             samples |-> u.samples, versions |-> x, contributors |-> u.contributors,
             decision |-> u.decision, reviewer |-> u.reviewer]
  BY <1>1, <1>2
<1>4. /\ n.kind = u.kind /\ n.item = u.item /\ n.target = u.target /\ n.content = u.content
            /\ n.pins = u.pins /\ n.samples = u.samples /\ n.versions = x /\ n.contributors = u.contributors
            /\ n.decision = u.decision /\ n.reviewer = u.reviewer
  BY <1>3
<1>5. SubmissionForm(n)
  <2>1. u.decision # "NONE" => u.reviewer \notin u.contributors
    BY DEF SubmissionForm
  <2> QED  BY <1>3, <1>4, <2>1 DEF SubmissionForm
<1> QED  BY <1>4, <1>5 DEF n

----
(* The work of an area: its procedures, their reviews and its clearances.   *)

ProgramForm ==
  /\ program = [status |-> program.status, version |-> program.version, band |-> program.band,
                assigned |-> program.assigned, steps |-> program.steps]
  /\ DOMAIN procedures # {} => program.status # "ABSENT"

WorkInv ==
  /\ ProgramForm
  /\ WorkStands(procedures, submissions)
  /\ ClearancesStand(clearances, submissions)

LEMMA WorkParts ==
  ASSUME WorkInv
  PROVE  /\ RowsForm(procedures) /\ SubmissionsForm(submissions) /\ IsList(submissions)
         /\ \A q \in DOMAIN procedures : RowForm(procedures[q])
BY DEF WorkInv, WorkStands, RowsForm, SubmissionsForm

LEMMA WorkUntouched ==
  ASSUME WorkInv, UNCHANGED <<program, procedures, submissions, clearances>>
  PROVE  WorkInv'
BY DEF WorkInv, ProgramForm, WorkStands, ClearancesStand, RowsForm, RowForm, SubmissionsForm, SubmissionForm,
       IsList, OfRow, OfProgram, RowStands, RowAccepted

LEMMA WorkNow ==
  ASSUME ProgramForm', WorkStands(procedures', submissions'), ClearancesStand(clearances', submissions')
  PROVE  WorkInv'
BY DEF WorkInv, WorkStands, ClearancesStand, RowsForm, RowForm, SubmissionsForm, SubmissionForm,
       IsList, OfRow, OfProgram, RowStands, RowAccepted

LEMMA RowRevised ==
  ASSUME RowsForm(procedures), NEW p \in DOMAIN procedures, NEW row, RowForm(row),
         row.version = procedures[p].version, Revised(p, row)
  PROVE  LET now == procedures'[p]
         IN /\ RowsForm(procedures') /\ DOMAIN procedures' = DOMAIN procedures
            /\ MoveOn(procedures, procedures')
            /\ \A q \in DOMAIN procedures : q # p => procedures'[q] = procedures[q]
            /\ now.version = procedures[p].version + 1 /\ now.status = row.status
            /\ now.applicable = row.applicable /\ now.editors = row.editors /\ now.links = row.links /\ now.pins = row.pins
<1> DEFINE new == [row EXCEPT !.version = @ + 1]
<1>1. procedures' = [q \in DOMAIN procedures |-> IF q = p THEN new ELSE procedures[q]]
  BY DEF Revised, RowsForm
<1>2. /\ RowForm(new) /\ new.version = row.version + 1 /\ new.status = row.status
      /\ new.applicable = row.applicable /\ new.editors = row.editors /\ new.links = row.links /\ new.pins = row.pins
  BY RowMoved
<1> HIDE DEF new
<1>3. /\ DOMAIN procedures' = DOMAIN procedures /\ procedures'[p] = new
      /\ procedures' = [q \in DOMAIN procedures' |-> procedures'[q]]
      /\ \A q \in DOMAIN procedures : q # p => procedures'[q] = procedures[q]
  BY <1>1
<1>4. RowsForm(procedures')
  BY <1>2, <1>3 DEF RowsForm
<1>5. MoveOn(procedures, procedures')
  BY <1>2, <1>3 DEF MoveOn
<1> QED  BY <1>2, <1>3, <1>4, <1>5

(* A procedure is written, and can be edited still or again.                *)
LEMMA ProcedureWritten ==
  ASSUME WorkInv, NEW p \in DOMAIN procedures, NEW row, RowForm(row), row.version = procedures[p].version,
         row.status \in Editable, Revised(p, row), UNCHANGED <<program, submissions, clearances>>
  PROVE  WorkInv'
<1>1. RowsForm(procedures)
  BY WorkParts
<1>2. /\ RowsForm(procedures') /\ DOMAIN procedures' = DOMAIN procedures
      /\ MoveOn(procedures, procedures')
      /\ \A q \in DOMAIN procedures : q # p => procedures'[q] = procedures[q]
      /\ procedures'[p].status = row.status
  BY <1>1, RowRevised
<1>3. RowStands(procedures', submissions, p)
  BY <1>2, EditableStands
<1>4. \A q \in DOMAIN procedures' :
        (q \in DOMAIN procedures /\ procedures'[q] = procedures[q]) \/ RowStands(procedures', submissions, q)
  BY <1>2, <1>3
<1>5. WorkStands(procedures', submissions)
  BY <1>2, <1>4, WorkMovesOn DEF WorkInv
<1>6. ProgramForm'
  BY <1>2 DEF WorkInv, ProgramForm
<1>7. ClearancesStand(clearances', submissions')
  BY DEF WorkInv
<1> QED  BY <1>5, <1>6, <1>7, WorkNow

(* A procedure is submitted with what its row has now.                      *)
LEMMA ProcedureSubmitted ==
  ASSUME WorkInv, NEW p \in DOMAIN procedures, NEW who, NEW row, RowForm(row),
         row.version = procedures[p].version, row.status = "SUBMITTED",
         row.applicable /\ p \notin Optional => row.pins # {},
         row.editors \subseteq procedures[p].editors \cup {who}, row.pins = Pins(procedures[p].links),
         Revised(p, row), ProcedureSubmission(who, p), UNCHANGED <<program, clearances>>
  PROVE  WorkInv'
<1> DEFINE u == [Submission("PROCEDURE", p, procedures[p].version + 1, who, procedures[p].editors)
                   EXCEPT !.pins = Pins(procedures[p].links), !.samples = SamplePins(p)]
<1>1. RowsForm(procedures) /\ procedures[p].version \in Nat /\ IsList(submissions)
  BY WorkParts DEF RowForm
<1>2. /\ RowsForm(procedures') /\ DOMAIN procedures' = DOMAIN procedures
      /\ MoveOn(procedures, procedures')
      /\ \A q \in DOMAIN procedures : q # p => procedures'[q] = procedures[q]
      /\ procedures'[p].version = procedures[p].version + 1 /\ procedures'[p].status = "SUBMITTED"
      /\ procedures'[p].applicable = row.applicable /\ procedures'[p].editors = row.editors
      /\ procedures'[p].pins = row.pins
  BY <1>1, RowRevised
<1>3. RowStands(procedures', submissions, p)
  BY <1>2 DEF RowStands
<1>4. \A q \in DOMAIN procedures' :
        (q \in DOMAIN procedures /\ procedures'[q] = procedures[q]) \/ RowStands(procedures', submissions, q)
  BY <1>2, <1>3
<1>5. WorkStands(procedures', submissions)
  BY <1>2, <1>4, WorkMovesOn DEF WorkInv
<1>6. /\ SubmissionForm(u) /\ u.kind = "PROCEDURE" /\ u.item = p /\ u.target = procedures[p].version + 1
      /\ u.pins = Pins(procedures[p].links) /\ u.contributors = procedures[p].editors \cup {who}
      /\ u.decision = "NONE"
  <2> DEFINE n == Submission("PROCEDURE", p, procedures[p].version + 1, who, procedures[p].editors)
             x == Pins(procedures[p].links)  y == SamplePins(p)
  <2>1. /\ SubmissionForm(n) /\ n.kind = "PROCEDURE" /\ n.item = p /\ n.target = procedures[p].version + 1
        /\ n.contributors = procedures[p].editors \cup {who} /\ n.decision = "NONE"
    BY SubmissionMade
  <2>2. u = WithSamples(n, x, y)
    BY DEF WithSamples
  <2> HIDE DEF n, x, y, u
  <2>3. /\ SubmissionForm(u) /\ u.kind = n.kind /\ u.item = n.item /\ u.target = n.target /\ u.pins = x
        /\ u.contributors = n.contributors /\ u.decision = n.decision
    BY <2>1, <2>2, SubmissionSampled
  <2> QED  BY <2>1, <2>3 DEF x
<1>7. submissions' = Append(submissions, u)
  BY DEF ProcedureSubmission, Submit
<1> HIDE DEF u
<1>8. u.contributors = procedures'[p].editors \cup u.contributors
  BY <1>2, <1>6
<1>9. OfRow(procedures', u)
  BY <1>1, <1>2, <1>6, <1>8 DEF OfRow
<1>10. OfProgram(procedures', u)
  BY <1>6 DEF OfProgram
<1>11. WorkStands(procedures', submissions')
  BY <1>2, <1>5, <1>6, <1>7, <1>9, <1>10, SubmissionAdded
<1>12. ClearancesStand(clearances', submissions')
  BY <1>1, <1>7, ClearedOfMore DEF WorkInv
<1>13. ProgramForm'
  BY <1>2 DEF WorkInv, ProgramForm
<1> QED  BY <1>11, <1>12, <1>13, WorkNow

(* Submissions and decisions that are not about a procedure.                *)
LEMMA OtherSubmitted ==
  ASSUME WorkInv, NEW u, SubmissionForm(u), u.kind # "PROCEDURE", OfProgram(procedures, u), Submit(u),
         ProgramForm', UNCHANGED <<procedures, clearances>>
  PROVE  WorkInv'
<1>1. submissions' = Append(submissions, u) /\ IsList(submissions)
  BY WorkParts DEF Submit
<1>2. WorkStands(procedures', submissions')
  <2>1. OfRow(procedures, u)
    BY DEF OfRow
  <2> QED  BY <1>1, <2>1, SubmissionAdded DEF WorkInv
<1>3. ClearancesStand(clearances', submissions')
  BY <1>1, ClearedOfMore DEF WorkInv
<1> QED  BY <1>2, <1>3, WorkNow

LEMMA OtherReviewed ==
  ASSUME WorkInv, NEW s \in DOMAIN submissions, NEW decision, NEW who, decision # "NONE",
         submissions[s].kind # "PROCEDURE", Decided(s, decision, who), ProgramForm',
         WorkStands(procedures', submissions), UNCHANGED clearances
  PROVE  WorkInv'
<1>1. SubmissionsForm(submissions)
  BY WorkParts
<1>2. WorkStands(procedures', submissions')
  BY OtherDecided
<1>3. ClearancesStand(clearances', submissions')
  BY <1>1, AcceptedStay DEF WorkInv
<1> QED  BY <1>2, <1>3, WorkNow

----
(* The commands that write procedures and their workprogram.                *)

LEMMA LinkKeepsWork ==
  ASSUME WorkInv, NEW p \in DOMAIN procedures, NEW f, EvidenceLink(f, p), UNCHANGED submissions
  PROVE  WorkInv'
<1> DEFINE next == Relinked(f, procedures[p].links, procedures[p].version + 1)
           pins == Pins(next)
           row == Linked(procedures[p], next, pins)
<1>1. RowForm(procedures[p])
  BY WorkParts
<1>2. /\ procedures[p].status \in Editable /\ Revised(p, row)
      /\ UNCHANGED <<program, submissions, clearances>>
  BY DEF EvidenceLink, Linked
<1> HIDE DEF next, pins
<1>3. RowForm(row) /\ row.version = procedures[p].version /\ row.status = procedures[p].status
  BY <1>1, RowLinked
<1> HIDE DEF row
<1> QED  BY <1>2, <1>3, ProcedureWritten

LEMMA UnlinkKeepsWork ==
  ASSUME WorkInv, NEW p \in DOMAIN procedures, NEW link, EvidenceUnlink(p, link), UNCHANGED submissions
  PROVE  WorkInv'
<1> DEFINE rest == procedures[p].links \ {link}
           pins == Pins({l \in rest : IsLatest(l)})
           row == Unlinked(procedures[p], rest, pins)
<1>1. RowForm(procedures[p])
  BY WorkParts
<1>2. Revised(p, row) /\ UNCHANGED <<program, submissions, clearances>>
  BY DEF EvidenceUnlink, Unlinked
<1> HIDE DEF rest, pins
<1>3. RowForm(row) /\ row.version = procedures[p].version /\ row.status = "UNDER_REWORK"
  BY <1>1, RowUnlinked
<1>4. row.status \in Editable
  BY <1>3 DEF Editable
<1> HIDE DEF row
<1> QED  BY <1>2, <1>3, <1>4, ProcedureWritten

LEMMA UpdateKeepsWork ==
  ASSUME WorkInv, NEW p \in DOMAIN procedures, NEW who, ProcedureUpdate(who, p)
  PROVE  WorkInv'
<1> DEFINE people == procedures[p].editors \cup {who}
           pins == Pins(procedures[p].links)
           row == Written(procedures[p], who, people, pins)
<1>1. RowForm(procedures[p])
  BY WorkParts
<1>2. Revised(p, row) /\ UNCHANGED <<program, submissions, clearances>>
  BY DEF ProcedureUpdate, Written, reviewVars
<1> HIDE DEF people, pins
<1>3. RowForm(row) /\ row.version = procedures[p].version /\ row.status = "IN_PROGRESS"
  BY <1>1, RowWritten
<1>4. row.status \in Editable
  BY <1>3 DEF Editable
<1> HIDE DEF row
<1> QED  BY <1>2, <1>3, <1>4, ProcedureWritten

LEMMA SubmitKeepsWork ==
  ASSUME WorkInv, NEW p \in DOMAIN procedures, NEW who, ProcedureSubmit(who, p)
  PROVE  WorkInv'
<1> DEFINE row == [procedures[p] EXCEPT !.status = "SUBMITTED"]
<1>1. RowForm(procedures[p])
  BY WorkParts
<1>2. /\ Revised(p, row) /\ ProcedureSubmission(who, p) /\ UNCHANGED <<program, clearances>>
      /\ procedures[p].applicable => Supported(p)
      /\ EvidenceCurrent(p)
  BY DEF ProcedureSubmit
<1>3. /\ RowForm(row) /\ row.version = procedures[p].version /\ row.status = "SUBMITTED"
      /\ row.applicable = procedures[p].applicable /\ row.editors = procedures[p].editors
      /\ row.pins = procedures[p].pins
  BY <1>1, RowTo
<1> HIDE DEF row
<1>4. row.pins = Pins(procedures[p].links)
  BY <1>2, <1>3 DEF EvidenceCurrent
<1>5. ASSUME row.applicable, p \notin Optional PROVE row.pins # {}
  <2>1. procedures[p].links # {}
    BY <1>2, <1>3, <1>5 DEF Supported
  <2> QED  BY <1>4, <2>1 DEF Pins
<1>6. row.editors \subseteq procedures[p].editors \cup {who}
  BY <1>3
<1> QED  BY <1>2, <1>3, <1>4, <1>5, <1>6, ProcedureSubmitted

LEMMA DeclineKeepsWork ==
  ASSUME WorkInv, NEW p \in DOMAIN procedures, NEW who, ProcedureNotApplicable(who, p)
  PROVE  WorkInv'
<1> DEFINE people == IF procedures[p].editors = {} THEN {who} ELSE procedures[p].editors
           pins == Pins(procedures[p].links)
           no == FALSE
           row == Declined(procedures[p], no, people, pins)
<1>1. RowForm(procedures[p])
  BY WorkParts
<1>2. Revised(p, row) /\ ProcedureSubmission(who, p) /\ UNCHANGED <<program, clearances>>
  BY DEF ProcedureNotApplicable, Declined
<1>3. people \subseteq procedures[p].editors \cup {who}
  OBVIOUS
<1> HIDE DEF people, pins, no
<1>4. /\ RowForm(row) /\ row.version = procedures[p].version /\ row.status = "SUBMITTED"
      /\ row.applicable = no /\ row.editors = people /\ row.pins = pins
  BY <1>1, RowDeclined
<1> HIDE DEF row
<1>5. row.pins = Pins(procedures[p].links)
  BY <1>4 DEF pins
<1>6. ~row.applicable
  BY <1>4 DEF no
<1> QED  BY <1>2, <1>3, <1>4, <1>5, <1>6, ProcedureSubmitted

(* Procedures are added, or moved down while they can be edited.            *)
LEMMA RowsWritten ==
  ASSUME WorkInv, RowsForm(procedures'), MoveOn(procedures, procedures'),
         \A q \in DOMAIN procedures' :
           (q \in DOMAIN procedures /\ procedures'[q] = procedures[q]) \/ procedures'[q].status \in Editable,
         ProgramForm', UNCHANGED <<submissions, clearances>>
  PROVE  WorkInv'
<1>1. \A q \in DOMAIN procedures' :
        (q \in DOMAIN procedures /\ procedures'[q] = procedures[q]) \/ RowStands(procedures', submissions, q)
  BY EditableStands
<1>2. WorkStands(procedures', submissions)
  BY <1>1, WorkMovesOn DEF WorkInv
<1>3. ClearancesStand(clearances', submissions')
  BY DEF WorkInv
<1> QED  BY <1>2, <1>3, WorkNow

LEMMA NewRow == RowForm(Fresh0) /\ Fresh0.status \in Editable
BY DEF RowForm, Fresh0, Editable

LEMMA ProvisionKeepsWork ==
  ASSUME WorkInv, NEW who, NEW band, WorkprogramProvision(who, band)
  PROVE  WorkInv'
<1>1. program.status = "ABSENT"
  BY DEF WorkprogramProvision, Absent
<1>2. DOMAIN procedures = {}
  BY <1>1 DEF WorkInv, ProgramForm
<1>3. /\ procedures' = [p \in ToSet(Template) |-> Fresh0]
      /\ program' = [status |-> "IN_PROGRESS", version |-> 1, band |-> band, assigned |-> who,
                     steps |-> Template]
      /\ UNCHANGED <<submissions, clearances>>
  BY DEF WorkprogramProvision, reviewVars
<1>4. RowsForm(procedures')
  BY <1>3, NewRow DEF RowsForm
<1>5. MoveOn(procedures, procedures')
  BY <1>2 DEF MoveOn
<1>6. \A q \in DOMAIN procedures' : procedures'[q].status \in Editable
  BY <1>3, NewRow
<1>7. ProgramForm'
  BY <1>3 DEF ProgramForm
<1> QED  BY <1>3, <1>4, <1>5, <1>6, <1>7, RowsWritten

LEMMA InsertKeepsWork ==
  ASSUME WorkInv, NEW p, NEW place, ProcedureInsert(p, place)
  PROVE  WorkInv'
<1> DEFINE moved == {program.steps[i] : i \in place..Len(program.steps)}
           old == DOMAIN procedures
           steps == InsertAt(program.steps, place, p)
<1>1. /\ p \notin old /\ program.status \in {"IN_PROGRESS", "UNDER_REWORK"}
      /\ \A q \in moved : procedures[q].status \in Editable
      /\ program' = [program EXCEPT !.steps = steps]
      /\ procedures' = [q \in old \cup {p} |->
           IF q = p THEN Fresh0
           ELSE IF q \in moved THEN Repinned(procedures[q], Pins(procedures[q].links)) ELSE procedures[q]]
      /\ UNCHANGED <<submissions, clearances>>
  BY DEF ProcedureInsert, Repinned, reviewVars
<1> HIDE DEF moved, steps
<1>2. ASSUME NEW q \in old
      PROVE  LET n == Repinned(procedures[q], Pins(procedures[q].links))
             IN RowForm(n) /\ n.version = procedures[q].version + 1 /\ n.status = procedures[q].status
  <2>1. RowForm(procedures[q])
    BY WorkParts
  <2> QED  BY <2>1, RowPinned
<1>3. \A q \in old : RowForm(procedures[q])
  BY WorkParts
<1>4. RowsForm(procedures')
  BY <1>1, <1>2, <1>3, NewRow DEF RowsForm
<1>5. MoveOn(procedures, procedures')
  BY <1>1, <1>2 DEF MoveOn
<1>6. \A q \in DOMAIN procedures' :
        (q \in old /\ procedures'[q] = procedures[q]) \/ procedures'[q].status \in Editable
  BY <1>1, <1>2, NewRow
<1>7. ProgramForm'
  BY <1>1 DEF WorkInv, ProgramForm
<1> QED  BY <1>1, <1>4, <1>5, <1>6, <1>7, RowsWritten
----
(* The commands that review procedures, their workprogram and the rest.     *)

LEMMA ReviewKeepsWork ==
  ASSUME WorkInv, NEW s \in DOMAIN submissions, NEW who, NEW decision \in {"ACCEPT", "RETURN"},
         ProcedureReview(who, s, decision)
  PROVE  WorkInv'
<1> DEFINE item == submissions[s].item
           status == IF decision = "ACCEPT" THEN "REVIEWED" ELSE "UNDER_REWORK"
           row == [procedures[item] EXCEPT !.status = status]
<1>1. /\ submissions[s].kind = "PROCEDURE" /\ Decided(s, decision, who)
      /\ procedures[item].status = "SUBMITTED" /\ procedures[item].version = submissions[s].target
      /\ UNCHANGED <<program, clearances>>
  BY DEF ProcedureReview
<1>2. decision = "ACCEPT" =>
        /\ Pins(procedures[item].links) = submissions[s].pins
        /\ procedures[item].applicable => AllAdequate(procedures[item].links)
  BY DEF ProcedureReview
<1>3. Revised(item, row)
  <2>1. CASE decision = "ACCEPT"
    BY <2>1 DEF ProcedureReview
  <2>2. CASE decision = "RETURN"
    BY <2>2 DEF ProcedureReview
  <2> QED  BY <2>1, <2>2
<1>4. /\ RowsForm(procedures) /\ WorkStands(procedures, submissions) /\ SubmissionsForm(submissions)
      /\ OfRow(procedures, submissions[s])
  BY WorkParts DEF WorkInv, WorkStands
<1> HIDE DEF status
<1>5. /\ item \in DOMAIN procedures /\ RowForm(procedures[item])
      /\ procedures[item].pins = submissions[s].pins
  BY <1>1, <1>4, WorkParts DEF OfRow
<1>6. /\ RowForm(row) /\ row.version = procedures[item].version /\ row.status = status
      /\ row.applicable = procedures[item].applicable /\ row.editors = procedures[item].editors
      /\ row.pins = procedures[item].pins
  BY <1>5, RowTo
<1> HIDE DEF row, item
<1>7. /\ RowsForm(procedures') /\ DOMAIN procedures' = DOMAIN procedures
      /\ \A q \in DOMAIN procedures : q # item => procedures'[q] = procedures[q]
      /\ procedures'[item].version = procedures[item].version + 1 /\ procedures'[item].status = row.status
      /\ procedures'[item].applicable = row.applicable /\ procedures'[item].editors = row.editors
      /\ procedures'[item].pins = row.pins
  BY <1>3, <1>4, <1>5, <1>6, RowRevised
<1>8. decision = "RETURN" => procedures'[item].status \in Editable
  BY <1>6, <1>7 DEF status, Editable
<1>9. ASSUME decision = "ACCEPT"
      PROVE  /\ procedures[item].status = "SUBMITTED" /\ procedures'[item].status = "REVIEWED"
             /\ procedures'[item].pins = procedures[item].pins
             /\ procedures'[item].applicable = procedures[item].applicable
             /\ procedures[item].applicable => \A pin \in procedures[item].pins : pin.adequacy = "ADEQUATE"
  <2>1. /\ procedures'[item].status = "REVIEWED" /\ procedures'[item].pins = procedures[item].pins
        /\ procedures'[item].applicable = procedures[item].applicable
    BY <1>6, <1>7, <1>9 DEF status
  <2>2. ASSUME procedures[item].applicable
        PROVE  \A pin \in procedures[item].pins : pin.adequacy = "ADEQUATE"
    <3>1. \A l \in procedures[item].links : Adequacy(l) = "ADEQUATE"
      BY <1>2, <1>9, <2>2 DEF AllAdequate, item
    <3>2. procedures[item].pins = Pins(procedures[item].links)
      BY <1>2, <1>5, <1>9 DEF item
    <3> QED  BY <3>1, <3>2 DEF Pins
  <2> QED  BY <1>1, <2>1, <2>2 DEF item
<1>10. WorkStands(procedures', submissions')
  BY <1>1, <1>4, <1>6, <1>7, <1>8, <1>9, ProcedureDecided DEF item
<1>11. ClearancesStand(clearances', submissions')
  BY <1>1, <1>4, AcceptedStay DEF WorkInv
<1>12. ProgramForm'
  BY <1>1, <1>7 DEF WorkInv, ProgramForm
<1> QED  BY <1>10, <1>11, <1>12, WorkNow

LEMMA ProgramMoves ==
  ASSUME ProgramForm, NEW status, status # "ABSENT", ProgramTo(status), DOMAIN procedures' = DOMAIN procedures
  PROVE  ProgramForm'
<1> DEFINE r == program
           n1 == [r EXCEPT !.status = status]
           n2 == [n1 EXCEPT !.version = r.version + 1]
<1>1. program' = n2
  BY DEF ProgramTo
<1>2. r = [status |-> r.status, version |-> r.version, band |-> r.band, assigned |-> r.assigned, steps |-> r.steps]
  BY DEF ProgramForm
<1>3. n1 = [status |-> status, version |-> r.version, band |-> r.band, assigned |-> r.assigned, steps |-> r.steps]
  <2> HIDE DEF r
  <2> QED  BY <1>2
<1>4. n2 = [status |-> status, version |-> r.version + 1, band |-> r.band, assigned |-> r.assigned,
            steps |-> r.steps]
  <2> HIDE DEF r, n1
  <2> QED  BY <1>3
<1> HIDE DEF r, n1, n2
<1> QED  BY <1>1, <1>4 DEF ProgramForm

LEMMA SubmitProgramKeepsWork ==
  ASSUME WorkInv, NEW who, WorkprogramSubmit(who)
  PROVE  WorkInv'
<1> DEFINE people == UNION {procedures[p].editors : p \in DOMAIN procedures}
           version == program.version + 1
           n == Submission("WORKPROGRAM", 1, version, who, people)
           u == WithVersions(n, Versions)
<1>1. /\ ProgramTo("SUBMITTED") /\ Submit(u) /\ UNCHANGED <<procedures, clearances>>
  BY DEF WorkprogramSubmit, WithVersions
<1> HIDE DEF people, version
<1>2. /\ SubmissionForm(n) /\ n.kind = "WORKPROGRAM" /\ n.contributors = people \cup {who}
      /\ n.decision = "NONE"
  BY SubmissionMade
<1> HIDE DEF n
<1>3. /\ SubmissionForm(u) /\ u.kind = n.kind /\ u.versions = Versions /\ u.contributors = n.contributors
  BY <1>2, SubmissionOf
<1> HIDE DEF u
<1>4. OfProgram(procedures, u)
  <2>1. /\ DOMAIN u.versions = DOMAIN procedures
        /\ \A q \in DOMAIN procedures : u.versions[q] = procedures[q].version
    BY <1>3 DEF Versions
  <2>2. \A q \in DOMAIN procedures : procedures[q].version \in Nat
    BY WorkParts DEF RowForm
  <2>3. \A q \in DOMAIN procedures : procedures[q].editors \subseteq u.contributors
    BY <1>2, <1>3 DEF people
  <2> QED  BY <2>1, <2>2, <2>3 DEF OfProgram
<1>5. ProgramForm'
  BY <1>1, ProgramMoves DEF WorkInv
<1> QED  BY <1>1, <1>2, <1>3, <1>4, <1>5, OtherSubmitted

LEMMA AcceptProgramKeepsWork ==
  ASSUME WorkInv, NEW who, NEW s \in DOMAIN submissions, WorkprogramAccept(who, s)
  PROVE  WorkInv'
<1>1. /\ submissions[s].kind = "WORKPROGRAM" /\ Decided(s, "ACCEPT", who) /\ ProgramTo("REVIEWED")
      /\ UNCHANGED <<procedures, clearances>>
  BY DEF WorkprogramAccept
<1>2. ProgramForm'
  BY <1>1, ProgramMoves DEF WorkInv
<1>3. WorkStands(procedures', submissions)
  BY <1>1 DEF WorkInv
<1> QED  BY <1>1, <1>2, <1>3, OtherReviewed

LEMMA ReturnProgramKeepsWork ==
  ASSUME WorkInv, NEW who, NEW s \in DOMAIN submissions, NEW chosen \in SUBSET DOMAIN procedures,
         WorkprogramReturn(who, s, chosen)
  PROVE  WorkInv'
<1>1. /\ submissions[s].kind = "WORKPROGRAM" /\ Decided(s, "RETURN", who) /\ ProgramTo("UNDER_REWORK")
      /\ procedures' = [p \in DOMAIN procedures |-> IF p \in chosen THEN Reopened(procedures[p]) ELSE procedures[p]]
      /\ UNCHANGED clearances
  BY DEF WorkprogramReturn, Reopened
<1>2. ASSUME NEW q \in DOMAIN procedures
      PROVE  LET n == Reopened(procedures[q])
             IN RowForm(n) /\ n.version = procedures[q].version + 1 /\ n.status = "UNDER_REWORK"
  <2>1. RowForm(procedures[q])
    BY WorkParts
  <2> QED  BY <2>1, RowReopened
<1>3. \A q \in DOMAIN procedures : RowForm(procedures[q])
  BY WorkParts
<1>4. RowsForm(procedures') /\ DOMAIN procedures' = DOMAIN procedures
  BY <1>1, <1>2, <1>3 DEF RowsForm
<1>5. MoveOn(procedures, procedures')
  BY <1>1, <1>2 DEF MoveOn
<1>6. \A q \in DOMAIN procedures' :
        (q \in DOMAIN procedures /\ procedures'[q] = procedures[q]) \/ procedures'[q].status \in Editable
  BY <1>1, <1>2 DEF Editable
<1>7. \A q \in DOMAIN procedures' :
        (q \in DOMAIN procedures /\ procedures'[q] = procedures[q]) \/ RowStands(procedures', submissions, q)
  BY <1>6, EditableStands
<1>8. WorkStands(procedures', submissions)
  BY <1>4, <1>5, <1>7, WorkMovesOn DEF WorkInv
<1>9. ProgramForm'
  BY <1>1, <1>4, ProgramMoves DEF WorkInv
<1> QED  BY <1>1, <1>8, <1>9, OtherReviewed

(* A submission about something else than procedures, and its decision.     *)
LEMMA ElseSubmitted ==
  ASSUME WorkInv, NEW u, SubmissionForm(u), u.kind \notin {"PROCEDURE", "WORKPROGRAM"}, Submit(u),
         UNCHANGED <<program, procedures, clearances>>
  PROVE  WorkInv'
<1>1. OfProgram(procedures, u)
  BY DEF OfProgram
<1>2. ProgramForm'
  BY DEF WorkInv, ProgramForm
<1> QED  BY <1>1, <1>2, OtherSubmitted

LEMMA ElseReviewed ==
  ASSUME WorkInv, NEW s \in DOMAIN submissions, NEW decision, NEW who, decision # "NONE",
         submissions[s].kind # "PROCEDURE", Decided(s, decision, who),
         UNCHANGED <<program, procedures, clearances>>
  PROVE  WorkInv'
<1>1. ProgramForm'
  BY DEF WorkInv, ProgramForm
<1>2. WorkStands(procedures', submissions)
  BY DEF WorkInv
<1> QED  BY <1>1, <1>2, OtherReviewed

(* The Partner clears the versions that a workprogram was accepted at.      *)
LEMMA ClearanceKeepsWork ==
  ASSUME WorkInv, NEW who, NEW s \in DOMAIN submissions, PartnerClearArea(who, s)
  PROVE  WorkInv'
<1>1. /\ submissions[s].kind = "WORKPROGRAM" /\ submissions[s].decision = "ACCEPT"
      /\ submissions[s].versions = Versions /\ ProgramTo("PARTNER_CLEARED")
      /\ clearances' = clearances \cup {Versions} /\ UNCHANGED <<procedures, submissions>>
  BY DEF PartnerClearArea, reviewVars
<1>2. ProgramForm'
  BY <1>1, ProgramMoves DEF WorkInv
<1>3. WorkStands(procedures', submissions')
  BY <1>1 DEF WorkInv
<1>4. ClearancesStand(clearances', submissions')
  BY <1>1 DEF WorkInv, ClearancesStand
<1> QED  BY <1>2, <1>3, <1>4, WorkNow
----
(* Every command of fieldwork keeps the work.                               *)

LEMMA EvidenceKeepsWork ==
  ASSUME WorkInv, EvidenceNext
  PROVE  WorkInv'
<1>1. UNCHANGED submissions
  BY DEF EvidenceNext, reviewVars
<1>2. CASE UNCHANGED areaVars
  BY <1>1, <1>2, WorkUntouched DEF areaVars
<1>3. ASSUME NEW p \in DOMAIN procedures, NEW f \in Families, EvidenceLink(f, p)
      PROVE  WorkInv'
  BY <1>1, <1>3, LinkKeepsWork
<1>4. ASSUME NEW p \in DOMAIN procedures, NEW link \in procedures[p].links, EvidenceUnlink(p, link)
      PROVE  WorkInv'
  BY <1>1, <1>4, UnlinkKeepsWork
<1> QED  BY <1>2, <1>3, <1>4 DEF EvidenceNext

LEMMA ProceduresKeepWork ==
  ASSUME WorkInv, ProcedureNext
  PROVE  WorkInv'
<1>1. ASSUME NEW who \in Staff, NEW band \in Bands, WorkprogramProvision(who, band)
      PROVE  WorkInv'
  BY <1>1, ProvisionKeepsWork
<1>2. ASSUME NEW p \in Procedures, NEW place \in 1..(Len(program.steps) + 1), ProcedureInsert(p, place)
      PROVE  WorkInv'
  BY <1>2, InsertKeepsWork
<1>3. ASSUME NEW who \in Staff, NEW p \in DOMAIN procedures, ProcedureUpdate(who, p)
      PROVE  WorkInv'
  BY <1>3, UpdateKeepsWork
<1>4. ASSUME NEW who \in Staff, NEW p \in DOMAIN procedures, ProcedureNotApplicable(who, p)
      PROVE  WorkInv'
  BY <1>4, DeclineKeepsWork
<1>5. ASSUME NEW who \in Staff, NEW p \in DOMAIN procedures, ProcedureSubmit(who, p)
      PROVE  WorkInv'
  BY <1>5, SubmitKeepsWork
<1> QED  BY <1>1, <1>2, <1>3, <1>4, <1>5 DEF ProcedureNext

LEMMA AnalysisSubmitKeepsWork ==
  ASSUME WorkInv, NEW who, NEW n, AnalysisSubmit(who, n), UNCHANGED areaVars
  PROVE  WorkInv'
<1> DEFINE version == analyses[n].version + 1
           people == {analyses[n].by}
           pins == Pins(analyses[n].links)
           made == Submission("ANALYTICAL_REVIEW", n, version, who, people)
           u == WithPins(made, pins)
<1>1. Submit(u) /\ UNCHANGED <<program, procedures, clearances>>
  BY DEF AnalysisSubmit, WithPins, areaVars
<1> HIDE DEF version, people, pins
<1>2. SubmissionForm(made) /\ made.kind = "ANALYTICAL_REVIEW"
  BY SubmissionMade
<1> HIDE DEF made
<1>3. SubmissionForm(u) /\ u.kind = made.kind
  BY <1>2, SubmissionPinned
<1> HIDE DEF u
<1> QED  BY <1>1, <1>2, <1>3, ElseSubmitted

LEMMA StatementsKeepWork ==
  ASSUME WorkInv, StatementNext
  PROVE  WorkInv'
<1>1. UNCHANGED areaVars /\ UNCHANGED <<program, procedures, clearances>>
  BY DEF StatementNext, areaVars
<1>2. CASE UNCHANGED reviewVars
  BY <1>1, <1>2, WorkUntouched DEF reviewVars
<1>3. ASSUME NEW who \in Staff, NEW n \in DOMAIN analyses, AnalysisSubmit(who, n)
      PROVE  WorkInv'
  BY <1>1, <1>3, AnalysisSubmitKeepsWork
<1>4. ASSUME NEW who \in Staff, NEW s \in DOMAIN submissions, NEW decision \in {"ACCEPT", "RETURN"},
             AnalysisReview(who, s, decision)
      PROVE  WorkInv'
  <2>1. submissions[s].kind # "PROCEDURE" /\ Decided(s, decision, who) /\ decision # "NONE"
    BY <1>4 DEF AnalysisReview
  <2> QED  BY <1>1, <2>1, ElseReviewed
<1> QED  BY <1>2, <1>3, <1>4 DEF StatementNext, AnalysisReviewNext

LEMMA ReviewsKeepWork ==
  ASSUME WorkInv, ReviewNext
  PROVE  WorkInv'
<1>1. ASSUME NEW who \in Staff, WorkprogramSubmit(who)
      PROVE  WorkInv'
  BY <1>1, SubmitProgramKeepsWork
<1>2. ASSUME NEW who \in Staff, GoingConcernSave(who)
      PROVE  WorkInv'
  BY <1>2, WorkUntouched DEF GoingConcernSave, reviewVars
<1>3. ASSUME NEW who \in Staff, NEW g \in DOMAIN assessments, GoingConcernSubmit(who, g)
      PROVE  WorkInv'
  <2> DEFINE version == assessments[g].version + 1
             people == {assessments[g].by}
             u == Submission("GOING_CONCERN", g, version, who, people)
  <2>1. Submit(u) /\ UNCHANGED <<program, procedures, clearances>>
    BY <1>3 DEF GoingConcernSubmit
  <2> HIDE DEF version, people
  <2>2. SubmissionForm(u) /\ u.kind = "GOING_CONCERN"
    BY SubmissionMade
  <2> HIDE DEF u
  <2> QED  BY <2>1, <2>2, ElseSubmitted
<1>4. ASSUME NEW who \in Staff, NEW r \in DOMAIN srms, SrmSubmit(who, r)
      PROVE  WorkInv'
  <2> DEFINE u == Submission("SRM", r, r, who, {})
  <2>1. Submit(u) /\ UNCHANGED <<program, procedures, clearances>>
    BY <1>4 DEF SrmSubmit
  <2>2. SubmissionForm(u) /\ u.kind = "SRM"
    BY SubmissionMade
  <2> HIDE DEF u
  <2> QED  BY <2>1, <2>2, ElseSubmitted
<1>5. ASSUME NEW who \in Staff, NEW s \in DOMAIN submissions, NEW decision \in {"ACCEPT", "RETURN"},
             ProcedureReview(who, s, decision)
      PROVE  WorkInv'
  BY <1>5, ReviewKeepsWork
<1>6. ASSUME NEW who \in Staff, NEW s \in DOMAIN submissions, NEW decision \in {"ACCEPT", "RETURN"},
             GoingConcernReview(who, s, decision)
      PROVE  WorkInv'
  <2>1. /\ submissions[s].kind # "PROCEDURE" /\ Decided(s, decision, who) /\ decision # "NONE"
        /\ UNCHANGED <<program, procedures, clearances>>
    BY <1>6 DEF GoingConcernReview
  <2> QED  BY <2>1, ElseReviewed
<1>7. ASSUME NEW who \in Staff, NEW s \in DOMAIN submissions, WorkprogramAccept(who, s)
      PROVE  WorkInv'
  BY <1>7, AcceptProgramKeepsWork
<1>8. ASSUME NEW who \in Staff, NEW s \in DOMAIN submissions, NEW chosen \in SUBSET DOMAIN procedures,
             WorkprogramReturn(who, s, chosen)
      PROVE  WorkInv'
  BY <1>8, ReturnProgramKeepsWork
<1>9. ASSUME UNCHANGED areaVars, NEW n \in DOMAIN notes,
             NoteRespond(n) \/ \E s \in DOMAIN submissions : NoteClose(n, s)
      PROVE  WorkInv'
  BY <1>9, WorkUntouched DEF NoteRespond, NoteClose, areaVars
<1> QED  BY <1>1, <1>2, <1>3, <1>4, <1>5, <1>6, <1>7, <1>8, <1>9 DEF ReviewNext

LEMMA HandoversKeepWork ==
  ASSUME WorkInv, HandoverNext
  PROVE  WorkInv'
<1>1. ASSUME NEW who \in Staff, HandoverToManager(who) \/ HandoverToPartner(who)
      PROVE  WorkInv'
  BY <1>1, WorkUntouched DEF HandoverToManager, HandoverToPartner, fieldVars, areaVars, reviewVars
<1>2. ASSUME NEW who \in Staff, NEW s \in DOMAIN submissions, PartnerClearArea(who, s)
      PROVE  WorkInv'
  BY <1>2, ClearanceKeepsWork
<1>3. ASSUME NEW who \in Staff, SrmCompile(who) \/ SrmClear(who)
      PROVE  WorkInv'
  BY <1>3, WorkUntouched DEF SrmCompile, SrmClear, reviewVars
<1> QED  BY <1>1, <1>2, <1>3 DEF HandoverNext

LEMMA FieldworkKeepsWork ==
  ASSUME WorkInv, FieldworkNext
  PROVE  WorkInv'
<1>1. CASE SampleNext
  BY <1>1, WorkUntouched DEF SampleNext, areaVars, reviewVars
<1> QED  BY <1>1, EvidenceKeepsWork, ProceduresKeepWork, StatementsKeepWork, ReviewsKeepWork,
            HandoversKeepWork DEF FieldworkNext
----
(* Confirmations: whoever verified an answer is neither who asked for it    *)
(* nor who took it in.                                                      *)

Confirmation ==
  [critical : BOOLEAN, status : ConfirmationStatuses, version : Nat, request : RequestStates,
   creator : Staff, recorder : Staff \cup {Nobody}, verifier : Staff \cup {Nobody}]

Independent(c) == c.status = "RETURNED_VERIFIED" => c.verifier \notin {Nobody, c.creator, c.recorder}

ConfirmInv ==
  /\ confirmations \in Seq(Confirmation)
  /\ \A c \in DOMAIN confirmations : Independent(confirmations[c])

LEMMA ConfirmWritten ==
  ASSUME ConfirmInv, NEW c \in DOMAIN confirmations, NEW now \in Confirmation, Independent(now),
         confirmations' = [confirmations EXCEPT ![c] = now]
  PROVE  ConfirmInv'
<1>1. confirmations \in Seq(Confirmation) /\ \A k \in DOMAIN confirmations : Independent(confirmations[k])
  BY DEF ConfirmInv
<1> HIDE DEF Confirmation
<1>2. confirmations' \in Seq(Confirmation) /\ DOMAIN confirmations' = DOMAIN confirmations
  BY <1>1, ExceptSeq, LenProperties
<1>3. \A k \in DOMAIN confirmations' : Independent(confirmations'[k])
  BY <1>1, <1>2
<1> QED  BY <1>2, <1>3 DEF ConfirmInv, Confirmation, Independent

LEMMA ConfirmAdded ==
  ASSUME ConfirmInv, NEW s, s \in Seq(Confirmation), \A k \in DOMAIN s : Independent(s[k]),
         NEW draft2 \in Confirmation, Independent(draft2), confirmations' = Append(s, draft2)
  PROVE  ConfirmInv'
<1>1. /\ confirmations' \in Seq(Confirmation)
      /\ DOMAIN confirmations' = 1..(Len(s) + 1) /\ DOMAIN s = 1..Len(s) /\ Len(s) \in Nat
      /\ \A k \in 1..Len(s) : confirmations'[k] = s[k]
      /\ confirmations'[Len(s) + 1] = draft2
  <2> HIDE DEF Confirmation
  <2> QED  BY AppendProperties, LenProperties
<1>2. \A k \in DOMAIN confirmations' : Independent(confirmations'[k])
  <2>1. \A k \in 1..(Len(s) + 1) : k \in 1..Len(s) \/ k = Len(s) + 1
    BY <1>1
  <2> QED  BY <1>1, <2>1
<1> QED  BY <1>1, <1>2 DEF ConfirmInv, Confirmation, Independent

LEMMA DraftIsIndependent ==
  ASSUME NEW who \in Staff, NEW critical \in BOOLEAN
  PROVE  Draft(who, critical) \in Confirmation /\ Independent(Draft(who, critical))
BY DEF Draft, Confirmation, Independent, ConfirmationStatuses, RequestStates

Cancelled(e) == [e EXCEPT !.status = "CANCELLED", !.version = @ + 1]
Sent(e) == [e EXCEPT !.request = "ACCEPTED", !.status = "SENT", !.version = @ + 1]

LEMMA CancelledConfirmation ==
  ASSUME NEW e \in Confirmation
  PROVE  Cancelled(e) \in Confirmation /\ Independent(Cancelled(e))
<1> DEFINE n1 == [e EXCEPT !.status = "CANCELLED"]
           n2 == [n1 EXCEPT !.version = n1.version + 1]
<1>1. n1 \in Confirmation /\ n1.status = "CANCELLED"
  BY DEF Confirmation, ConfirmationStatuses
<1>2. n2 \in Confirmation /\ n2.status = "CANCELLED"
  <2> HIDE DEF n1
  <2> QED  BY <1>1 DEF Confirmation
<1>3. Cancelled(e) = n2
  BY DEF Cancelled, Confirmation
<1> HIDE DEF n2
<1> QED  BY <1>2, <1>3 DEF Independent

LEMMA SentConfirmation ==
  ASSUME NEW e \in Confirmation
  PROVE  Sent(e) \in Confirmation /\ Independent(Sent(e))
<1> DEFINE n1 == [e EXCEPT !.request = "ACCEPTED"]
           n2 == [n1 EXCEPT !.status = "SENT"]
           n3 == [n2 EXCEPT !.version = n2.version + 1]
<1>1. n1 \in Confirmation
  BY DEF Confirmation, RequestStates
<1>2. n2 \in Confirmation /\ n2.status = "SENT"
  <2> HIDE DEF n1
  <2> QED  BY <1>1 DEF Confirmation, ConfirmationStatuses
<1>3. n3 \in Confirmation /\ n3.status = "SENT"
  <2> HIDE DEF n1, n2
  <2> QED  BY <1>2 DEF Confirmation
<1>4. Sent(e) = n3
  BY DEF Sent, Confirmation
<1> HIDE DEF n3
<1> QED  BY <1>3, <1>4 DEF Independent

LEMMA ConfirmInductive ==
  ASSUME ConfirmInv, ConfirmationsNext
  PROVE  ConfirmInv'
<1>1. /\ confirmations \in Seq(Confirmation)
      /\ \A c \in DOMAIN confirmations : confirmations[c] \in Confirmation /\ Independent(confirmations[c])
  <2> HIDE DEF Confirmation
  <2> QED  BY ElementOfSeq, LenProperties DEF ConfirmInv
<1>2. ASSUME NEW who \in Staff, NEW critical \in BOOLEAN, ConfirmationCreate(who, critical)
      PROVE  ConfirmInv'
  <2>1. confirmations' = Append(confirmations, Draft(who, critical))
    BY <1>2 DEF ConfirmationCreate
  <2> QED  BY <1>1, <2>1, DraftIsIndependent, ConfirmAdded
<1>3. CASE HoldingLetter
  BY <1>3 DEF HoldingLetter, ConfirmInv, Independent
<1>4. ASSUME NEW c \in DOMAIN confirmations, NEW from, NEW to \in Confirmation, Step(c, from, to), Independent(to)
      PROVE  ConfirmInv'
  <2> DEFINE now == [to EXCEPT !.version = @ + 1]
  <2>1. now \in Confirmation /\ Independent(now)
    BY <1>4 DEF Confirmation, Independent
  <2>2. confirmations' = [confirmations EXCEPT ![c] = now]
    BY <1>4 DEF Step
  <2> HIDE DEF now
  <2> QED  BY <2>1, <2>2, ConfirmWritten
<1>5. ASSUME NEW c \in DOMAIN confirmations,
             ConfirmationDispatch(c) \/ ConfirmationCancel(c)
      PROVE  ConfirmInv'
  <2> DEFINE old == confirmations[c]
             queued == [old EXCEPT !.status = "QUEUED", !.request = "RENDER"]
             cancelled == [old EXCEPT !.status = "CANCELLED"]
  <2>1. queued \in Confirmation /\ Independent(queued) /\ cancelled \in Confirmation /\ Independent(cancelled)
    BY <1>1 DEF Confirmation, Independent, ConfirmationStatuses, RequestStates
  <2>2. Step(c, "DRAFT", queued) \/ Step(c, "DRAFT", cancelled)
    BY <1>5 DEF ConfirmationDispatch, ConfirmationCancel
  <2> HIDE DEF queued, cancelled
  <2> QED  BY <1>4, <2>1, <2>2
<1>6. ASSUME NEW c \in DOMAIN confirmations, NEW who \in Staff, ConfirmationRecord(who, c)
      PROVE  ConfirmInv'
  <2> DEFINE to == [confirmations[c] EXCEPT !.status = "RETURNED_UNVERIFIED", !.recorder = who]
  <2>1. to \in Confirmation /\ Independent(to)
    BY <1>1 DEF Confirmation, Independent, ConfirmationStatuses
  <2>2. Step(c, "SENT", to)
    BY <1>6 DEF ConfirmationRecord
  <2> HIDE DEF to
  <2> QED  BY <1>4, <2>1, <2>2
<1>7. ASSUME NEW c \in DOMAIN confirmations, NEW who \in Staff, ConfirmationVerify(who, c)
      PROVE  ConfirmInv'
  <2> DEFINE to == [confirmations[c] EXCEPT !.status = "RETURNED_VERIFIED", !.verifier = who]
  <2>1. who \notin {confirmations[c].creator, confirmations[c].recorder} /\ Step(c, "RETURNED_UNVERIFIED", to)
    BY <1>7 DEF ConfirmationVerify
  <2>2. who # Nobody
    BY StaffAreSomebody DEF Staff
  <2>3. to \in Confirmation
    BY <1>1 DEF Confirmation, ConfirmationStatuses
  <2>4. to.verifier = who /\ to.creator = confirmations[c].creator /\ to.recorder = confirmations[c].recorder
    BY <1>1 DEF Confirmation
  <2> HIDE DEF to
  <2>5. Independent(to)
    BY <2>1, <2>2, <2>4 DEF Independent
  <2> QED  BY <1>4, <2>1, <2>3, <2>5
<1>8. ASSUME NEW c \in DOMAIN confirmations,
             \/ RequestRender(c) \/ RequestMail(c) \/ RequestAccepted(c) \/ RequestFails(c)
      PROVE  ConfirmInv'
  <2>1. ASSUME NEW request \in RequestStates,
               confirmations' = [confirmations EXCEPT ![c].request = request]
        PROVE  ConfirmInv'
    <3> DEFINE now == [confirmations[c] EXCEPT !.request = request]
    <3>1. now \in Confirmation /\ Independent(now)
      BY <1>1 DEF Confirmation, Independent
    <3>2. confirmations' = [confirmations EXCEPT ![c] = now]
      BY <2>1
    <3> HIDE DEF now
    <3> QED  BY <3>1, <3>2, ConfirmWritten
  <2>2. CASE RequestRender(c) \/ RequestMail(c) \/ RequestFails(c)
    BY <2>1, <2>2 DEF RequestRender, RequestMail, RequestFails, Job, RequestStates
  <2>3. CASE RequestAccepted(c)
    <3> DEFINE old == confirmations[c]
               sent == Sent(old)
               dead == [old EXCEPT !.request = "DEAD"]
    <3>1. /\ sent \in Confirmation /\ Independent(sent)
          /\ dead \in Confirmation /\ Independent(dead)
      <4>1. old \in Confirmation
        BY <1>1
      <4>2. sent \in Confirmation /\ Independent(sent)
        BY <4>1, SentConfirmation
      <4>3. dead \in Confirmation /\ Independent(dead)
        BY <1>1 DEF Confirmation, Independent, RequestStates
      <4> QED  BY <4>2, <4>3
    <3>2. \/ confirmations' = [confirmations EXCEPT ![c] = sent]
          \/ confirmations' = [confirmations EXCEPT ![c] = dead]
      BY <2>3 DEF RequestAccepted, Sent
    <3> HIDE DEF sent, dead
    <3> QED  BY <3>1, <3>2, ConfirmWritten
  <2> QED  BY <1>8, <2>2, <2>3
<1>9. ASSUME NEW c \in DOMAIN confirmations, NEW who \in Staff, NEW replacement,
             ConfirmationReassess(who, c, replacement),
             replacement = <<>> \/ \E critical \in BOOLEAN : replacement = <<Draft(who, critical)>>
      PROVE  ConfirmInv'
  <2> DEFINE now == Cancelled(confirmations[c])
             left == [confirmations EXCEPT ![c] = now]
  <2>1. now \in Confirmation /\ Independent(now)
    <3>1. confirmations[c] \in Confirmation
      BY <1>1
    <3> QED  BY <3>1, CancelledConfirmation
  <2>2. confirmations' = left \o replacement
    BY <1>9 DEF ConfirmationReassess, Cancelled
  <2> HIDE DEF now
  <2>3. left \in Seq(Confirmation) /\ DOMAIN left = DOMAIN confirmations
    <3> HIDE DEF Confirmation
    <3> QED  BY <1>1, <2>1, ExceptSeq, LenProperties
  <2>4. \A k \in DOMAIN left : Independent(left[k])
    BY <1>1, <2>1
  <2>5. CASE replacement = <<>>
    <3>1. confirmations' = left
      <4> HIDE DEF left, Confirmation
      <4> QED  BY <2>2, <2>3, <2>5, ConcatEmptySeq
    <3> QED  BY <2>1, <3>1, ConfirmWritten
  <2>6. ASSUME NEW critical \in BOOLEAN, replacement = <<Draft(who, critical)>>
        PROVE  ConfirmInv'
    <3>1. Draft(who, critical) \in Confirmation /\ Independent(Draft(who, critical))
      BY DraftIsIndependent
    <3>2. confirmations' = Append(left, Draft(who, critical))
      <4> HIDE DEF left, Confirmation
      <4> QED  BY <2>2, <2>3, <2>6, <3>1, AppendIsConcat
    <3> HIDE DEF left
    <3> QED  BY <2>3, <2>4, <3>1, <3>2, ConfirmAdded
  <2> QED  BY <1>9, <2>5, <2>6
<1> QED  BY <1>2, <1>3, <1>5, <1>6, <1>7, <1>8, <1>9 DEF ConfirmationsNext
----
(* The statements: adjustments and their approvals, the differences that    *)
(* rest on them, and the analytical reviews with theirs.                    *)

AdjustmentForm(r) ==
  /\ r = [finding |-> r.finding, by |-> r.by, status |-> r.status, included |-> r.included, pins |-> r.pins,
          approver |-> r.approver]
  /\ r.status = "REVIEW_APPROVED" => r.approver \in Staff /\ r.approver # r.by

AdjustmentsForm(rows) ==
  /\ IsList(rows)
  /\ \A a \in DOMAIN rows : AdjustmentForm(rows[a])

DifferencesAreAdjusted ==
  /\ IsList(differences)
  /\ \A d \in DOMAIN differences :
       differences[d].disposition = "ADJUSTED" => differences[d].adjustment \in Included

AnalysisForm(r) ==
  r = [version |-> r.version, status |-> r.status, by |-> r.by, writers |-> r.writers, snapshot |-> r.snapshot,
       complete |-> r.complete, links |-> r.links]

AnalysesForm(rows) ==
  /\ IsList(rows)
  /\ \A n \in DOMAIN rows : AnalysisForm(rows[n])

(* A review of an analysis is by another than who drafted it first (whoever *)
(* revised it since may be its reviewer), of evidence that was adequate.    *)
OfAnalysis(rows, u) ==
  u.kind = "ANALYTICAL_REVIEW" =>
    /\ u.item \in DOMAIN rows /\ rows[u.item].by \in u.contributors
    /\ u.decision = "ACCEPT" => u.pins # {} /\ \A pin \in u.pins : pin.adequacy = "ADEQUATE"

AnalysesStand(rows, subs) == \A k \in DOMAIN subs : OfAnalysis(rows, subs[k])

StatementInv ==
  /\ AdjustmentsForm(adjustments) /\ DifferencesAreAdjusted
  /\ AnalysesForm(analyses) /\ AnalysesStand(analyses, submissions)

LEMMA StatementsNow ==
  ASSUME AdjustmentsForm(adjustments'), DifferencesAreAdjusted', AnalysesForm(analyses'),
         AnalysesStand(analyses', submissions')
  PROVE  StatementInv'
BY DEF StatementInv, AdjustmentsForm, AdjustmentForm, AnalysesForm, AnalysisForm, AnalysesStand, OfAnalysis, IsList

Rewritten(r, x, y, z) == [r EXCEPT !.status = "DRAFT", !.snapshot = x, !.complete = y, !.writers = @ \cup {z}]

LEMMA AnalysisRewritten ==
  ASSUME NEW r, AnalysisForm(r), NEW x, NEW y, NEW z
  PROVE  LET n == Rewritten(r, x, y, z)
         IN /\ AnalysisForm(n) /\ n.version = r.version /\ n.status = "DRAFT" /\ n.by = r.by
            /\ n.writers = r.writers \cup {z} /\ n.snapshot = x /\ n.links = r.links
<1> DEFINE n1 == [r EXCEPT !.status = "DRAFT"]
           n2 == [n1 EXCEPT !.snapshot = x]
           n3 == [n2 EXCEPT !.complete = y]
           n4 == [n3 EXCEPT !.writers = r.writers \cup {z}]
           n == Rewritten(r, x, y, z)
<1>0. r = [version |-> r.version, status |-> r.status, by |-> r.by, writers |-> r.writers, snapshot |-> r.snapshot,
             complete |-> r.complete, links |-> r.links]
  BY DEF AnalysisForm
<1>1. n1 = [version |-> r.version, status |-> "DRAFT", by |-> r.by, writers |-> r.writers, snapshot |-> r.snapshot,
             complete |-> r.complete, links |-> r.links]
  BY <1>0
<1>2. n2 = [version |-> r.version, status |-> "DRAFT", by |-> r.by, writers |-> r.writers, snapshot |-> x,
             complete |-> r.complete, links |-> r.links]
  <2> HIDE DEF n1
  <2> QED  BY <1>1
<1>3. n3 = [version |-> r.version, status |-> "DRAFT", by |-> r.by, writers |-> r.writers, snapshot |-> x,
             complete |-> y, links |-> r.links]
  <2> HIDE DEF n1, n2
  <2> QED  BY <1>2
<1>4. n4 = [version |-> r.version, status |-> "DRAFT", by |-> r.by, writers |-> r.writers \cup {z}, snapshot |-> x,
             complete |-> y, links |-> r.links]
  <2> HIDE DEF n1, n2, n3
  <2> QED  BY <1>3
<1>5. n = n4
  BY DEF Rewritten
<1> HIDE DEF n, n1, n2, n3, n4
<1>6. n = [version |-> r.version, status |-> "DRAFT", by |-> r.by, writers |-> r.writers \cup {z}, snapshot |-> x,
             complete |-> y, links |-> r.links]
  BY <1>4, <1>5
<1>7. /\ AnalysisForm(n) /\ n.version = r.version /\ n.status = "DRAFT" /\ n.by = r.by
      /\ n.writers = r.writers \cup {z} /\ n.snapshot = x /\ n.links = r.links
  BY <1>0, <1>6 DEF AnalysisForm
<1> QED  BY <1>7 DEF n

Unsupported(r, x) == [r EXCEPT !.links = @ \ {x}, !.status = "UNDER_REWORK"]

LEMMA AnalysisUnlinked ==
  ASSUME NEW r, AnalysisForm(r), NEW x
  PROVE  LET n == Unsupported(r, x)
         IN /\ AnalysisForm(n) /\ n.version = r.version /\ n.status = "UNDER_REWORK" /\ n.by = r.by
            /\ n.writers = r.writers /\ n.snapshot = r.snapshot /\ n.links = r.links \ {x}
<1> DEFINE n1 == [r EXCEPT !.links = r.links \ {x}]
           n2 == [n1 EXCEPT !.status = "UNDER_REWORK"]
           n == Unsupported(r, x)
<1>0. r = [version |-> r.version, status |-> r.status, by |-> r.by, writers |-> r.writers, snapshot |-> r.snapshot,
             complete |-> r.complete, links |-> r.links]
  BY DEF AnalysisForm
<1>1. n1 = [version |-> r.version, status |-> r.status, by |-> r.by, writers |-> r.writers, snapshot |-> r.snapshot,
             complete |-> r.complete, links |-> r.links \ {x}]
  BY <1>0
<1>2. n2 = [version |-> r.version, status |-> "UNDER_REWORK", by |-> r.by, writers |-> r.writers, snapshot |-> r.snapshot,
             complete |-> r.complete, links |-> r.links \ {x}]
  <2> HIDE DEF n1
  <2> QED  BY <1>1
<1>3. n = n2
  BY DEF Unsupported
<1> HIDE DEF n, n1, n2
<1>4. n = [version |-> r.version, status |-> "UNDER_REWORK", by |-> r.by, writers |-> r.writers, snapshot |-> r.snapshot,
             complete |-> r.complete, links |-> r.links \ {x}]
  BY <1>2, <1>3
<1>5. /\ AnalysisForm(n) /\ n.version = r.version /\ n.status = "UNDER_REWORK" /\ n.by = r.by
      /\ n.writers = r.writers /\ n.snapshot = r.snapshot /\ n.links = r.links \ {x}
  BY <1>0, <1>4 DEF AnalysisForm
<1> QED  BY <1>5 DEF n

Approved(r, x, y) == [r EXCEPT !.status = "REVIEW_APPROVED", !.approver = x, !.included = y]

LEMMA AdjustmentApproved ==
  ASSUME NEW r, AdjustmentForm(r), NEW x, NEW y, x \in Staff, x # r.by
  PROVE  LET n == Approved(r, x, y)
         IN AdjustmentForm(n) /\ n.by = r.by
<1> DEFINE n1 == [r EXCEPT !.status = "REVIEW_APPROVED"]
           n2 == [n1 EXCEPT !.approver = x]
           n3 == [n2 EXCEPT !.included = y]
           n == Approved(r, x, y)
<1>0. r = [finding |-> r.finding, by |-> r.by, status |-> r.status, included |-> r.included, pins |-> r.pins,
             approver |-> r.approver]
  BY DEF AdjustmentForm
<1>1. n1 = [finding |-> r.finding, by |-> r.by, status |-> "REVIEW_APPROVED", included |-> r.included, pins |-> r.pins,
             approver |-> r.approver]
  BY <1>0
<1>2. n2 = [finding |-> r.finding, by |-> r.by, status |-> "REVIEW_APPROVED", included |-> r.included, pins |-> r.pins,
             approver |-> x]
  <2> HIDE DEF n1
  <2> QED  BY <1>1
<1>3. n3 = [finding |-> r.finding, by |-> r.by, status |-> "REVIEW_APPROVED", included |-> y, pins |-> r.pins,
             approver |-> x]
  <2> HIDE DEF n1, n2
  <2> QED  BY <1>2
<1>4. n = n3
  BY DEF Approved
<1> HIDE DEF n, n1, n2, n3
<1>5. n = [finding |-> r.finding, by |-> r.by, status |-> "REVIEW_APPROVED", included |-> y, pins |-> r.pins,
             approver |-> x]
  BY <1>3, <1>4
<1>6. AdjustmentForm(n) /\ n.by = r.by
  BY <1>0, <1>5 DEF AdjustmentForm
<1> QED  BY <1>6 DEF n

(* Adjustments move; those that the statements include stay included.       *)
LEMMA AdjustmentsMove ==
  ASSUME StatementInv, AdjustmentsForm(adjustments'), DOMAIN adjustments \subseteq DOMAIN adjustments',
         \A a \in DOMAIN adjustments :
           adjustments[a].status = "REVIEW_APPROVED" =>
             /\ adjustments'[a].status = "REVIEW_APPROVED"
             /\ adjustments'[a].included = adjustments[a].included,
         UNCHANGED <<differences, analyses, submissions>>
  PROVE  StatementInv'
<1>1. Included \subseteq Included'
  BY DEF Included
<1>2. DifferencesAreAdjusted'
  BY <1>1 DEF StatementInv, DifferencesAreAdjusted, IsList
<1>3. AnalysesForm(analyses') /\ AnalysesStand(analyses', submissions')
  BY DEF StatementInv
<1> QED  BY <1>2, <1>3, StatementsNow

LEMMA AdjustmentWritten ==
  ASSUME StatementInv, NEW a \in DOMAIN adjustments, adjustments[a].status # "REVIEW_APPROVED",
         NEW row, AdjustmentForm(row), AdjustmentBecomes(a, row), UNCHANGED submissions
  PROVE  StatementInv'
<1>1. IsList(adjustments) /\ \A k \in DOMAIN adjustments : AdjustmentForm(adjustments[k])
  BY DEF StatementInv, AdjustmentsForm
<1>2. adjustments = [k \in DOMAIN adjustments |-> adjustments[k]]
  BY <1>1, ListLength
<1>3. adjustments' = [k \in DOMAIN adjustments |-> IF k = a THEN row ELSE adjustments[k]]
  BY <1>2 DEF AdjustmentBecomes
<1>4. IsList(adjustments')
  <2>1. adjustments' = [k \in DOMAIN adjustments |-> adjustments'[k]]
    BY <1>3
  <2> QED  BY <1>1, <2>1, StillAList
<1>5. AdjustmentsForm(adjustments')
  BY <1>1, <1>3, <1>4 DEF AdjustmentsForm
<1>6. UNCHANGED <<differences, analyses, submissions>>
  BY DEF AdjustmentBecomes
<1> QED  BY <1>3, <1>5, <1>6, AdjustmentsMove

LEMMA RejudgedKeepsStatements ==
  ASSUME StatementInv, NEW f, Rejudged(f), UNCHANGED <<differences, analyses, submissions>>
  PROVE  StatementInv'
<1> DEFINE now(pin) == [pin EXCEPT !.standing = @ /\ ~(pin.family = f /\ IsLatest(pin))]
           pins(a) == {now(pin) : pin \in adjustments[a].pins}
<1>1. IsList(adjustments) /\ \A k \in DOMAIN adjustments : AdjustmentForm(adjustments[k])
  BY DEF StatementInv, AdjustmentsForm
<1>2. adjustments' = [a \in DOMAIN adjustments |-> [adjustments[a] EXCEPT !.pins = pins(a)]]
  BY DEF Rejudged
<1> HIDE DEF pins
<1>3. ASSUME NEW a \in DOMAIN adjustments
      PROVE  /\ AdjustmentForm(adjustments'[a]) /\ adjustments'[a].status = adjustments[a].status
             /\ adjustments'[a].included = adjustments[a].included
  <2> DEFINE old == adjustments[a]  x == pins(a)  new == [old EXCEPT !.pins = x]
  <2>1. adjustments'[a] = new
    BY <1>2
  <2>2. AdjustmentForm(old)
    BY <1>1
  <2> HIDE DEF old, x
  <2>3. AdjustmentForm(new) /\ new.status = old.status /\ new.included = old.included
    BY <2>2 DEF AdjustmentForm
  <2> HIDE DEF new
  <2> QED  BY <2>1, <2>3 DEF old
<1>4. DOMAIN adjustments' = DOMAIN adjustments /\ adjustments' = [a \in DOMAIN adjustments |-> adjustments'[a]]
  BY <1>2
<1>5. IsList(adjustments')
  BY <1>1, <1>4, StillAList
<1>6. AdjustmentsForm(adjustments')
  BY <1>3, <1>4, <1>5 DEF AdjustmentsForm
<1> QED  BY <1>3, <1>4, <1>6, AdjustmentsMove

(* Analyses move, and keep who drafted them.                                *)
LEMMA AnalysesMove ==
  ASSUME NEW rows, NEW rows2, NEW subs, AnalysesStand(rows, subs), DOMAIN rows \subseteq DOMAIN rows2,
         \A n \in DOMAIN rows : rows2[n].by = rows[n].by
  PROVE  AnalysesStand(rows2, subs)
BY DEF AnalysesStand, OfAnalysis

LEMMA AnalysisMoved ==
  ASSUME AnalysesForm(analyses), NEW n \in DOMAIN analyses, NEW row, AnalysisForm(row),
         row.by = analyses[n].by, AnalysisBecomes(n, row)
  PROVE  /\ AnalysesForm(analyses') /\ DOMAIN analyses' = DOMAIN analyses
         /\ \A k \in DOMAIN analyses : analyses'[k].by = analyses[k].by
<1> DEFINE new == [row EXCEPT !.version = @ + 1]
<1>1. IsList(analyses) /\ \A k \in DOMAIN analyses : AnalysisForm(analyses[k])
  BY DEF AnalysesForm
<1>2. analyses = [k \in DOMAIN analyses |-> analyses[k]]
  BY <1>1, ListLength
<1>3. analyses' = [k \in DOMAIN analyses |-> IF k = n THEN new ELSE analyses[k]]
  BY <1>2 DEF AnalysisBecomes
<1>4. AnalysisForm(new) /\ new.by = row.by
  BY DEF AnalysisForm
<1> HIDE DEF new
<1>5. IsList(analyses')
  <2>1. analyses' = [k \in DOMAIN analyses |-> analyses'[k]]
    BY <1>3
  <2> QED  BY <1>1, <2>1, StillAList
<1> QED  BY <1>1, <1>3, <1>4, <1>5 DEF AnalysesForm

(* Neither the adjustments nor the differences are touched.                 *)
LEMMA OnlyAnalyses ==
  ASSUME StatementInv, UNCHANGED <<adjustments, differences>>, AnalysesForm(analyses'),
         AnalysesStand(analyses', submissions')
  PROVE  StatementInv'
<1>1. AdjustmentsForm(adjustments')
  BY DEF StatementInv
<1>2. DifferencesAreAdjusted'
  BY DEF StatementInv, DifferencesAreAdjusted, Included, IsList
<1> QED  BY <1>1, <1>2, StatementsNow

LEMMA AnalysisWritten ==
  ASSUME StatementInv, NEW n \in DOMAIN analyses, NEW row, AnalysisForm(row), row.by = analyses[n].by,
         AnalysisBecomes(n, row), UNCHANGED submissions
  PROVE  StatementInv'
<1>1. /\ AnalysesForm(analyses') /\ DOMAIN analyses' = DOMAIN analyses
      /\ \A k \in DOMAIN analyses : analyses'[k].by = analyses[k].by
  BY AnalysisMoved DEF StatementInv
<1>2. AnalysesStand(analyses', submissions')
  BY <1>1, AnalysesMove DEF StatementInv
<1>3. UNCHANGED <<adjustments, differences>>
  BY DEF AnalysisBecomes
<1> QED  BY <1>1, <1>2, <1>3, OnlyAnalyses

(* A submission of something else, and its decision.                        *)
LEMMA ElseAdded ==
  ASSUME StatementInv, IsList(submissions), NEW u, u.kind # "ANALYTICAL_REVIEW", Submit(u),
         UNCHANGED <<adjustments, differences, analyses>>
  PROVE  StatementInv'
<1> DEFINE n == Len(submissions) + 1
<1>1. /\ DOMAIN submissions' = DOMAIN submissions \cup {n} /\ n \notin DOMAIN submissions
      /\ \A k \in DOMAIN submissions : submissions'[k] = submissions[k]
      /\ submissions'[n] = u
  BY Longer DEF Submit
<1> HIDE DEF n
<1>2. AnalysesStand(analyses, submissions')
  BY <1>1 DEF StatementInv, AnalysesStand, OfAnalysis
<1>3. AnalysesForm(analyses') /\ AnalysesStand(analyses', submissions')
  BY <1>2 DEF StatementInv
<1> QED  BY <1>3, OnlyAnalyses

LEMMA ElseDecided ==
  ASSUME StatementInv, SubmissionsForm(submissions), NEW s \in DOMAIN submissions, NEW decision, NEW who,
         Decided(s, decision, who), submissions[s].kind # "ANALYTICAL_REVIEW",
         UNCHANGED <<adjustments, differences, analyses>>
  PROVE  StatementInv'
<1>1. /\ DOMAIN submissions' = DOMAIN submissions
      /\ \A k \in DOMAIN submissions : k # s => submissions'[k] = submissions[k]
      /\ submissions'[s].kind = submissions[s].kind
  BY DecisionForm
<1>2. AnalysesStand(analyses, submissions')
  BY <1>1 DEF StatementInv, AnalysesStand, OfAnalysis
<1>3. AnalysesForm(analyses') /\ AnalysesStand(analyses', submissions')
  BY <1>2 DEF StatementInv
<1> QED  BY <1>3, OnlyAnalyses
----
(* Every command of fieldwork keeps the statements.                         *)

LEMMA AdjustmentsKeepStatements ==
  ASSUME StatementInv, AdjustmentNext, UNCHANGED submissions
  PROVE  StatementInv'
<1>0. /\ IsList(adjustments) /\ IsList(differences) /\ IsList(analyses)
      /\ \A a \in DOMAIN adjustments : AdjustmentForm(adjustments[a])
      /\ \A n \in DOMAIN analyses : AnalysisForm(analyses[n])
  BY DEF StatementInv, AdjustmentsForm, DifferencesAreAdjusted, AnalysesForm
<1>1. ASSUME NEW who \in Staff, NEW finding, NEW families, AdjustmentCreate(who, finding, families)
      PROVE  StatementInv'
  <2> DEFINE pins == {Pinned(f) : f \in families}
             no == FALSE
             row == [finding |-> finding, by |-> who, status |-> "DRAFT", included |-> no, pins |-> pins,
                     approver |-> Nobody]
             n == Len(adjustments) + 1
  <2>1. adjustments' = Append(adjustments, row) /\ UNCHANGED <<differences, analyses, submissions>>
    BY <1>1 DEF AdjustmentCreate
  <2> HIDE DEF pins, no
  <2>2. AdjustmentForm(row)
    BY DEF AdjustmentForm
  <2> HIDE DEF row
  <2>3. /\ IsList(adjustments') /\ DOMAIN adjustments' = DOMAIN adjustments \cup {n}
        /\ \A a \in DOMAIN adjustments : adjustments'[a] = adjustments[a]
        /\ adjustments'[n] = row
    BY <1>0, <2>1, Longer
  <2> HIDE DEF n
  <2>4. AdjustmentsForm(adjustments')
    BY <1>0, <2>2, <2>3 DEF AdjustmentsForm
  <2> QED  BY <2>1, <2>3, <2>4, AdjustmentsMove
<1>2. ASSUME NEW who \in Staff, NEW a \in DOMAIN adjustments, AdjustmentApprove(who, a)
      PROVE  StatementInv'
  <2> DEFINE accepted == adjustments[a].status = "CLIENT_ACCEPTED"
             row == Approved(adjustments[a], who, accepted)
  <2>1. /\ adjustments[a].status \in {"CLIENT_ACCEPTED", "CLIENT_DECLINED"} /\ who # adjustments[a].by
        /\ AdjustmentBecomes(a, row)
    BY <1>2 DEF AdjustmentApprove, Approved
  <2> HIDE DEF accepted
  <2>2. AdjustmentForm(row)
    BY <1>0, <2>1, AdjustmentApproved
  <2> HIDE DEF row
  <2> QED  BY <2>1, <2>2, AdjustmentWritten
<1>3. ASSUME NEW a \in DOMAIN adjustments, NEW status, status # "REVIEW_APPROVED",
             adjustments[a].status # "REVIEW_APPROVED",
             AdjustmentBecomes(a, [adjustments[a] EXCEPT !.status = status])
      PROVE  StatementInv'
  <2> DEFINE row == [adjustments[a] EXCEPT !.status = status]
  <2>1. AdjustmentForm(row)
    BY <1>0, <1>3 DEF AdjustmentForm
  <2>2. AdjustmentBecomes(a, row)
    BY <1>3
  <2> HIDE DEF row
  <2> QED  BY <1>3, <2>1, <2>2, AdjustmentWritten
<1>4. ASSUME NEW a \in DOMAIN adjustments, NEW answer \in {"CLIENT_ACCEPTED", "CLIENT_DECLINED"},
             AdjustmentPropose(a) \/ AdjustmentRespond(a, answer)
      PROVE  StatementInv'
  BY <1>3, <1>4 DEF AdjustmentPropose, AdjustmentRespond
<1>5. ASSUME NEW f, NEW significant, NEW disposition, NEW a \in 0..Len(adjustments),
             DifferenceCreate(f, significant, disposition, a)
      PROVE  StatementInv'
  <2> DEFINE row == [finding |-> f, significant |-> significant, disposition |-> disposition, adjustment |-> a]
             n == Len(differences) + 1
  <2>1. /\ disposition = "ADJUSTED" <=> a # 0
        /\ a # 0 => adjustments[a].status = "REVIEW_APPROVED" /\ adjustments[a].included
        /\ differences' = Append(differences, row) /\ UNCHANGED <<adjustments, analyses, submissions>>
    BY <1>5 DEF DifferenceCreate
  <2>2. row.disposition = "ADJUSTED" => row.adjustment \in Included
    <3>1. Len(adjustments) \in Nat /\ DOMAIN adjustments = 1..Len(adjustments)
      BY <1>0, ListLength
    <3>2. a # 0 => a \in DOMAIN adjustments
      BY <3>1
    <3> QED  BY <2>1, <3>2 DEF Included
  <2> HIDE DEF row
  <2>3. /\ IsList(differences') /\ DOMAIN differences' = DOMAIN differences \cup {n}
        /\ \A d \in DOMAIN differences : differences'[d] = differences[d]
        /\ differences'[n] = row
    BY <1>0, <2>1, Longer
  <2> HIDE DEF n
  <2>4. Included' = Included
    BY <2>1 DEF Included
  <2>5. DifferencesAreAdjusted'
    BY <2>2, <2>3, <2>4 DEF StatementInv, DifferencesAreAdjusted, IsList
  <2>6. /\ AdjustmentsForm(adjustments') /\ AnalysesForm(analyses') /\ AnalysesStand(analyses', submissions')
    BY <2>1 DEF StatementInv
  <2> QED  BY <2>5, <2>6, StatementsNow
<1>6. CASE StatementSnapshot
  BY <1>6, OnlyAnalyses DEF StatementSnapshot, StatementInv
<1>7. ASSUME NEW who, NEW complete, AnalysisDraft(who, complete)
      PROVE  StatementInv'
  <2> DEFINE writers == {who}  one == 1  none == {}
             row == [version |-> one, status |-> "DRAFT", by |-> who, writers |-> writers, snapshot |-> Included,
                     complete |-> complete, links |-> none]
             n == Len(analyses) + 1
  <2>1. analyses' = Append(analyses, row) /\ UNCHANGED <<adjustments, differences, submissions>>
    BY <1>7 DEF AnalysisDraft
  <2> HIDE DEF writers, one, none
  <2>2. AnalysisForm(row)
    BY DEF AnalysisForm
  <2> HIDE DEF row
  <2>3. /\ IsList(analyses') /\ DOMAIN analyses' = DOMAIN analyses \cup {n}
        /\ \A k \in DOMAIN analyses : analyses'[k] = analyses[k]
        /\ analyses'[n] = row
    BY <1>0, <2>1, Longer
  <2> HIDE DEF n
  <2>4. AnalysesForm(analyses')
    BY <1>0, <2>2, <2>3 DEF AnalysesForm
  <2>5. AnalysesStand(analyses', submissions')
    BY <2>1, <2>3, AnalysesMove DEF StatementInv
  <2> QED  BY <2>1, <2>4, <2>5, OnlyAnalyses
<1>8. ASSUME NEW who, NEW complete, NEW n \in DOMAIN analyses, AnalysisRevise(who, n, complete)
      PROVE  StatementInv'
  <2> DEFINE row == Rewritten(analyses[n], Included, complete, who)
  <2>1. AnalysisBecomes(n, row)
    BY <1>8 DEF AnalysisRevise, Rewritten
  <2>2. AnalysisForm(row) /\ row.by = analyses[n].by
    BY <1>0, AnalysisRewritten
  <2> HIDE DEF row
  <2> QED  BY <2>1, <2>2, AnalysisWritten
<1> QED  BY <1>1, <1>2, <1>4, <1>5, <1>6, <1>7, <1>8 DEF AdjustmentNext

LEMMA LinksKeepStatements ==
  ASSUME StatementInv, StatementLinkNext, UNCHANGED submissions
  PROVE  StatementInv'
<1>0. \A n \in DOMAIN analyses : AnalysisForm(analyses[n])
  BY DEF StatementInv, AnalysesForm
<1>1. ASSUME NEW f, NEW row, FindingBecomes(f, row)
      PROVE  StatementInv'
  BY <1>1, OnlyAnalyses DEF FindingBecomes, StatementInv
<1>2. ASSUME NEW f, NEW x, FindingLink(f, x) \/ FindingUnlink(f, x)
      PROVE  StatementInv'
  BY <1>1, <1>2 DEF FindingLink, FindingUnlink
<1>3. ASSUME NEW n \in DOMAIN analyses, NEW family, AnalysisLink(n, family)
      PROVE  StatementInv'
  <2> DEFINE links == Relinked(family, analyses[n].links, analyses[n].version + 1)
             row == [analyses[n] EXCEPT !.links = links]
  <2>1. AnalysisBecomes(n, row)
    BY <1>3 DEF AnalysisLink
  <2> HIDE DEF links
  <2>2. AnalysisForm(row) /\ row.by = analyses[n].by
    BY <1>0 DEF AnalysisForm
  <2> HIDE DEF row
  <2> QED  BY <2>1, <2>2, AnalysisWritten
<1>4. ASSUME NEW n \in DOMAIN analyses, NEW link, AnalysisUnlink(n, link)
      PROVE  StatementInv'
  <2> DEFINE row == Unsupported(analyses[n], link)
  <2>1. AnalysisBecomes(n, row)
    BY <1>4 DEF AnalysisUnlink, Unsupported
  <2>2. AnalysisForm(row) /\ row.by = analyses[n].by
    BY <1>0, AnalysisUnlinked
  <2> HIDE DEF row
  <2> QED  BY <2>1, <2>2, AnalysisWritten
<1> QED  BY <1>2, <1>3, <1>4 DEF StatementLinkNext

LEMMA SubmittedAnalysisStands ==
  ASSUME StatementInv, IsList(submissions), NEW who, NEW n \in DOMAIN analyses, AnalysisSubmit(who, n)
  PROVE  StatementInv'
<1> DEFINE version == analyses[n].version + 1
           people == {analyses[n].by}
           pins == Pins(analyses[n].links)
           made == Submission("ANALYTICAL_REVIEW", n, version, who, people)
           u == WithPins(made, pins)
           row == [analyses[n] EXCEPT !.status = "SUBMITTED"]
           k == Len(submissions) + 1
<1>1. Submit(u) /\ AnalysisBecomes(n, row)
  BY DEF AnalysisSubmit, WithPins
<1> HIDE DEF version, people, pins
<1>2. AnalysisForm(row) /\ row.by = analyses[n].by
  BY DEF StatementInv, AnalysesForm, AnalysisForm
<1> HIDE DEF row
<1>3. /\ AnalysesForm(analyses') /\ DOMAIN analyses' = DOMAIN analyses
      /\ \A i \in DOMAIN analyses : analyses'[i].by = analyses[i].by
  BY <1>1, <1>2, AnalysisMoved DEF StatementInv
<1>4. /\ SubmissionForm(made) /\ made.kind = "ANALYTICAL_REVIEW" /\ made.item = n /\ made.decision = "NONE"
      /\ made.contributors = people \cup {who}
  BY SubmissionMade
<1> HIDE DEF made
<1>5. u.item = made.item /\ u.decision = made.decision /\ u.contributors = made.contributors
  BY <1>4, SubmissionPinned
<1> HIDE DEF u
<1>6. OfAnalysis(analyses', u)
  BY <1>3, <1>4, <1>5 DEF OfAnalysis, people
<1>7. /\ DOMAIN submissions' = DOMAIN submissions \cup {k}
      /\ \A i \in DOMAIN submissions : submissions'[i] = submissions[i]
      /\ submissions'[k] = u
  BY <1>1, Longer DEF Submit
<1> HIDE DEF k
<1>8. AnalysesStand(analyses', submissions)
  BY <1>3, AnalysesMove DEF StatementInv
<1>9. AnalysesStand(analyses', submissions')
  BY <1>6, <1>7, <1>8 DEF AnalysesStand
<1> QED  BY <1>1, <1>3, <1>9, OnlyAnalyses DEF AnalysisBecomes

(* Pins say of their evidence what its links do.                            *)
LEMMA PinsOfLinks ==
  ASSUME NEW links
  PROVE  /\ links # {} <=> Pins(links) # {}
         /\ (\A l \in links : Adequacy(l) = "ADEQUATE") <=>
              \A pin \in Pins(links) : pin.adequacy = "ADEQUATE"
<1> DEFINE pin(l) == [family |-> l.family, version |-> l.version, adequacy |-> Adequacy(l)]
<1>1. Pins(links) = {pin(l) : l \in links}
  BY DEF Pins
<1>2. \A l : pin(l).adequacy = Adequacy(l)
  OBVIOUS
<1> HIDE DEF pin
<1>3. links # {} <=> Pins(links) # {}
  BY <1>1
<1>4. (\A l \in links : Adequacy(l) = "ADEQUATE") <=>
        \A x \in Pins(links) : x.adequacy = "ADEQUATE"
  BY <1>1, <1>2
<1> QED  BY <1>3, <1>4

LEMMA ReviewedAnalysisStands ==
  ASSUME StatementInv, SubmissionsForm(submissions), NEW who, NEW s \in DOMAIN submissions,
         NEW decision \in {"ACCEPT", "RETURN"}, AnalysisReview(who, s, decision)
  PROVE  StatementInv'
<1> DEFINE n == submissions[s].item
           status == IF decision = "ACCEPT" THEN "REVIEWED" ELSE "UNDER_REWORK"
           row == [analyses[n] EXCEPT !.status = status]
<1>1. /\ submissions[s].kind = "ANALYTICAL_REVIEW" /\ Decided(s, decision, who) /\ AnalysisBecomes(n, row)
      /\ decision = "ACCEPT" =>
           WellEvidenced(n, submissions[s].content) /\ Pins(analyses[n].links) = submissions[s].pins
  BY DEF AnalysisReview
<1>2. n \in DOMAIN analyses /\ analyses[n].by \in submissions[s].contributors
  BY <1>1 DEF StatementInv, AnalysesStand, OfAnalysis
<1> HIDE DEF status
<1>3. AnalysisForm(row) /\ row.by = analyses[n].by
  BY <1>2 DEF StatementInv, AnalysesForm, AnalysisForm
<1> HIDE DEF row
<1>4. /\ AnalysesForm(analyses') /\ DOMAIN analyses' = DOMAIN analyses
      /\ \A i \in DOMAIN analyses : analyses'[i].by = analyses[i].by
  BY <1>1, <1>2, <1>3, AnalysisMoved DEF StatementInv
<1>5. /\ DOMAIN submissions' = DOMAIN submissions
      /\ \A k \in DOMAIN submissions : k # s => submissions'[k] = submissions[k]
      /\ submissions'[s].kind = submissions[s].kind /\ submissions'[s].item = n
      /\ submissions'[s].pins = submissions[s].pins /\ submissions'[s].decision = decision
      /\ submissions'[s].contributors = submissions[s].contributors
  BY <1>1, DecisionForm
<1>6. ASSUME decision = "ACCEPT"
      PROVE  submissions[s].pins # {} /\ \A pin \in submissions[s].pins : pin.adequacy = "ADEQUATE"
  <2> DEFINE links == analyses[n].links
  <2>1. links # {} /\ Pins(links) = submissions[s].pins /\ \A l \in links : Adequacy(l) = "ADEQUATE"
    BY <1>1, <1>6 DEF WellEvidenced, AllAdequate
  <2> HIDE DEF links
  <2> QED  BY <2>1, PinsOfLinks
<1>7. OfAnalysis(analyses', submissions'[s])
  BY <1>2, <1>4, <1>5, <1>6 DEF OfAnalysis
<1>8. AnalysesStand(analyses', submissions)
  BY <1>4, AnalysesMove DEF StatementInv
<1>9. AnalysesStand(analyses', submissions')
  BY <1>5, <1>7, <1>8 DEF AnalysesStand
<1> QED  BY <1>1, <1>4, <1>9, OnlyAnalyses DEF AnalysisBecomes

LEMMA OnlyTheRest ==
  ASSUME StatementInv, UNCHANGED <<adjustments, differences, analyses, submissions>>
  PROVE  StatementInv'
BY OnlyAnalyses DEF StatementInv

LEMMA EvidenceKeepsStatements ==
  ASSUME StatementInv, EvidenceNext
  PROVE  StatementInv'
<1>1. UNCHANGED submissions
  BY DEF EvidenceNext, reviewVars
<1>2. ASSUME UNCHANGED <<differences, analyses>>, UNCHANGED adjustments \/ \E f \in Families : Rejudged(f)
      PROVE  StatementInv'
  BY <1>1, <1>2, OnlyTheRest, RejudgedKeepsStatements
<1>3. CASE UNCHANGED statementVars
  BY <1>1, <1>3, OnlyTheRest DEF statementVars
<1>4. CASE StatementLinkNext
  BY <1>1, <1>4, LinksKeepStatements
<1> QED  BY <1>2, <1>3, <1>4 DEF EvidenceNext

LEMMA SubmittedProcedureStands ==
  ASSUME StatementInv, IsList(submissions), NEW who, NEW p, ProcedureSubmission(who, p),
         UNCHANGED <<adjustments, differences, analyses>>
  PROVE  StatementInv'
<1> DEFINE version == procedures[p].version + 1
           people == procedures[p].editors
           pins == Pins(procedures[p].links)
           samples == SamplePins(p)
           made == Submission("PROCEDURE", p, version, who, people)
           u == WithSamples(made, pins, samples)
<1>1. Submit(u)
  BY DEF ProcedureSubmission, WithSamples
<1> HIDE DEF version, people, pins, samples
<1>2. SubmissionForm(made) /\ made.kind = "PROCEDURE"
  BY SubmissionMade
<1> HIDE DEF made
<1>3. u.kind = made.kind
  BY <1>2, SubmissionSampled
<1> HIDE DEF u
<1> QED  BY <1>1, <1>2, <1>3, ElseAdded

LEMMA ProceduresKeepStatements ==
  ASSUME StatementInv, IsList(submissions), ProcedureNext
  PROVE  StatementInv'
<1>1. UNCHANGED <<adjustments, differences, analyses>>
  BY DEF ProcedureNext, statementVars
<1>2. CASE UNCHANGED reviewVars
  BY <1>1, <1>2, OnlyTheRest DEF reviewVars
<1>3. ASSUME NEW who, NEW p, ProcedureSubmission(who, p)
      PROVE  StatementInv'
  BY <1>1, <1>3, SubmittedProcedureStands
<1>4. UNCHANGED reviewVars \/ \E who \in Staff, p \in DOMAIN procedures : ProcedureSubmission(who, p)
  BY DEF ProcedureNext, WorkprogramProvision, ProcedureInsert, ProcedureUpdate, ProcedureNotApplicable,
         ProcedureSubmit
<1> QED  BY <1>2, <1>3, <1>4

LEMMA StatementsKeepThemselves ==
  ASSUME StatementInv, SubmissionsForm(submissions), StatementNext
  PROVE  StatementInv'
<1>1. IsList(submissions)
  BY DEF SubmissionsForm
<1>2. ASSUME FindingNext, UNCHANGED reviewVars
      PROVE  StatementInv'
  <2>1. UNCHANGED <<adjustments, differences, analyses>>
    BY <1>2 DEF FindingNext, FindingCreate, FindingResolve, FindingRespond, FindingBecomes
  <2> QED  BY <1>2, <2>1, OnlyTheRest DEF reviewVars
<1>3. ASSUME AdjustmentNext, UNCHANGED reviewVars
      PROVE  StatementInv'
  BY <1>3, AdjustmentsKeepStatements DEF reviewVars
<1>4. CASE AnalysisReviewNext
  BY <1>1, <1>4, SubmittedAnalysisStands, ReviewedAnalysisStands DEF AnalysisReviewNext
<1> QED  BY <1>2, <1>3, <1>4 DEF StatementNext

LEMMA ReviewsKeepStatements ==
  ASSUME StatementInv, SubmissionsForm(submissions), ReviewNext
  PROVE  StatementInv'
<1>0. IsList(submissions) /\ UNCHANGED <<adjustments, differences, analyses>>
  BY DEF SubmissionsForm, ReviewNext, statementVars
<1>1. ASSUME NEW who \in Staff, WorkprogramSubmit(who)
      PROVE  StatementInv'
  <2> DEFINE version == program.version + 1
             people == UNION {procedures[p].editors : p \in DOMAIN procedures}
             versions == Versions
             made == Submission("WORKPROGRAM", 1, version, who, people)
             u == WithVersions(made, versions)
  <2>1. Submit(u)
    BY <1>1 DEF WorkprogramSubmit, WithVersions
  <2> HIDE DEF version, people, versions
  <2>2. SubmissionForm(made) /\ made.kind = "WORKPROGRAM"
    BY SubmissionMade
  <2> HIDE DEF made
  <2>3. u.kind = made.kind
    BY <2>2, SubmissionOf
  <2> HIDE DEF u
  <2> QED  BY <1>0, <2>1, <2>2, <2>3, ElseAdded
<1>2. ASSUME NEW who \in Staff, GoingConcernSave(who)
      PROVE  StatementInv'
  BY <1>0, <1>2, OnlyTheRest DEF GoingConcernSave, reviewVars
<1>3. ASSUME NEW who \in Staff, NEW g \in DOMAIN assessments, GoingConcernSubmit(who, g)
      PROVE  StatementInv'
  <2> DEFINE version == assessments[g].version + 1
             people == {assessments[g].by}
             u == Submission("GOING_CONCERN", g, version, who, people)
  <2>1. Submit(u)
    BY <1>3 DEF GoingConcernSubmit
  <2> HIDE DEF version, people
  <2>2. u.kind = "GOING_CONCERN"
    BY SubmissionMade
  <2> HIDE DEF u
  <2> QED  BY <1>0, <2>1, <2>2, ElseAdded
<1>4. ASSUME NEW who \in Staff, NEW r \in DOMAIN srms, SrmSubmit(who, r)
      PROVE  StatementInv'
  <2> DEFINE u == Submission("SRM", r, r, who, {})
  <2>1. Submit(u)
    BY <1>4 DEF SrmSubmit
  <2>2. u.kind = "SRM"
    BY SubmissionMade
  <2> HIDE DEF u
  <2> QED  BY <1>0, <2>1, <2>2, ElseAdded
<1>5. ASSUME NEW who \in Staff, NEW s \in DOMAIN submissions, NEW decision, Decided(s, decision, who),
             submissions[s].kind # "ANALYTICAL_REVIEW"
      PROVE  StatementInv'
  BY <1>0, <1>5, ElseDecided
<1>6. ASSUME NEW who \in Staff, NEW s \in DOMAIN submissions, NEW decision \in {"ACCEPT", "RETURN"},
             ProcedureReview(who, s, decision) \/ GoingConcernReview(who, s, decision)
      PROVE  StatementInv'
  BY <1>5, <1>6 DEF ProcedureReview, GoingConcernReview
<1>7. ASSUME NEW who \in Staff, NEW s \in DOMAIN submissions, WorkprogramAccept(who, s)
      PROVE  StatementInv'
  BY <1>5, <1>7 DEF WorkprogramAccept
<1>8. ASSUME NEW who \in Staff, NEW s \in DOMAIN submissions, NEW chosen, WorkprogramReturn(who, s, chosen)
      PROVE  StatementInv'
  BY <1>5, <1>8 DEF WorkprogramReturn
<1>9. ASSUME NEW n \in DOMAIN notes, NoteRespond(n) \/ \E s \in DOMAIN submissions : NoteClose(n, s)
      PROVE  StatementInv'
  BY <1>0, <1>9, OnlyTheRest DEF NoteRespond, NoteClose
<1> QED  BY <1>1, <1>2, <1>3, <1>4, <1>6, <1>7, <1>8, <1>9 DEF ReviewNext

LEMMA HandoversKeepStatements ==
  ASSUME StatementInv, HandoverNext
  PROVE  StatementInv'
<1>1. UNCHANGED <<adjustments, differences, analyses, submissions>>
  BY DEF HandoverNext, HandoverToManager, HandoverToPartner, PartnerClearArea, SrmCompile, SrmClear,
         fieldVars, reviewVars, statementVars
<1> QED  BY <1>1, OnlyTheRest

LEMMA FieldworkKeepsStatements ==
  ASSUME WorkInv, StatementInv, FieldworkNext
  PROVE  StatementInv'
<1>1. SubmissionsForm(submissions) /\ IsList(submissions)
  BY WorkParts
<1>2. CASE SampleNext
  BY <1>2, OnlyTheRest DEF SampleNext, statementVars, reviewVars
<1> QED  BY <1>1, <1>2, EvidenceKeepsStatements, ProceduresKeepStatements, StatementsKeepThemselves,
            ReviewsKeepStatements, HandoversKeepStatements DEF FieldworkNext
----
(* The papers of a release: a report rests on approved statements, a bundle *)
(* on a report that was rendered.                                           *)

LEMMA ListWritten ==
  ASSUME NEW s, IsList(s), NEW i \in DOMAIN s, NEW e
  PROVE  LET t == [s EXCEPT ![i] = e]
         IN /\ IsList(t) /\ DOMAIN t = DOMAIN s /\ t[i] = e
            /\ \A k \in DOMAIN s : k # i => t[k] = s[k]
<1> DEFINE t == [s EXCEPT ![i] = e]
<1>1. s = [k \in DOMAIN s |-> s[k]]
  BY ListLength
<1>2. t = [k \in DOMAIN s |-> IF k = i THEN e ELSE s[k]]
  BY <1>1
<1>3. t = [k \in DOMAIN s |-> t[k]]
  BY <1>2
<1>4. IsList(t)
  <2> HIDE DEF t
  <2> QED  BY <1>3, StillAList
<1> QED  BY <1>2, <1>4

DraftForm ==
  /\ draft = [status |-> draft.status, version |-> draft.version, complete |-> draft.complete, by |-> draft.by,
              approver |-> draft.approver]
  /\ draft.status = "APPROVED" => draft.complete /\ draft.approver # draft.by

ReportForm(r) ==
  r = [opinion |-> r.opinion, date |-> r.date, owner |-> r.owner, status |-> r.status, consent |-> r.consent]

BundleForm(b) ==
  b = [report |-> b.report, letter |-> b.letter, request |-> b.request, route |-> b.route, status |-> b.status]

ReportsForm(papers) == IsList(papers) /\ \A r \in DOMAIN papers : ReportForm(papers[r])

BundlesStand(made, papers) ==
  /\ IsList(made)
  /\ \A b \in DOMAIN made :
       /\ BundleForm(made[b])
       /\ made[b].report \in DOMAIN papers /\ papers[made[b].report].status = "READY"

PaperInv ==
  /\ DraftForm /\ ReportsForm(reports) /\ BundlesStand(bundles, reports)
  /\ DOMAIN reports # {} => draft.status = "APPROVED"

LEMMA PapersNow ==
  ASSUME DraftForm', ReportsForm(reports'), BundlesStand(bundles', reports'),
         DOMAIN reports' # {} => draft'.status = "APPROVED"
  PROVE  PaperInv'
BY DEF PaperInv, ReportsForm, ReportForm, BundlesStand, BundleForm, IsList

LEMMA PapersUntouched ==
  ASSUME PaperInv, UNCHANGED <<draft, reports, bundles>>
  PROVE  PaperInv'
<1>1. DraftForm'
  BY DEF PaperInv, DraftForm
<1> QED  BY <1>1, PapersNow DEF PaperInv

(* A report is written that was rendered still, or was not.                 *)
LEMMA ReportWritten ==
  ASSUME PaperInv, NEW r \in DOMAIN reports, NEW e, ReportForm(e), reports' = [reports EXCEPT ![r] = e],
         reports[r].status = "READY" => e.status = "READY", UNCHANGED <<draft, bundles>>
  PROVE  PaperInv'
<1>1. IsList(reports) /\ \A k \in DOMAIN reports : ReportForm(reports[k])
  BY DEF PaperInv, ReportsForm
<1>2. /\ IsList(reports') /\ DOMAIN reports' = DOMAIN reports /\ reports'[r] = e
      /\ \A k \in DOMAIN reports : k # r => reports'[k] = reports[k]
  BY <1>1, ListWritten
<1>3. ReportsForm(reports')
  BY <1>1, <1>2 DEF ReportsForm
<1>4. BundlesStand(bundles', reports')
  BY <1>2 DEF PaperInv, BundlesStand
<1>5. DraftForm' /\ (DOMAIN reports' # {} => draft'.status = "APPROVED")
  BY <1>2 DEF PaperInv, DraftForm
<1> QED  BY <1>3, <1>4, <1>5, PapersNow

LEMMA ReportStatus ==
  ASSUME NEW e, ReportForm(e), NEW status
  PROVE  LET n == [e EXCEPT !.status = status] IN ReportForm(n) /\ n.status = status
BY DEF ReportForm

LEMMA ReportConsented ==
  ASSUME NEW e, ReportForm(e), NEW agreed
  PROVE  LET n == [e EXCEPT !.consent = agreed] IN ReportForm(n) /\ n.status = e.status
BY DEF ReportForm

LEMMA BundleWritten ==
  ASSUME PaperInv, NEW b \in DOMAIN bundles, NEW status, bundles' = [bundles EXCEPT ![b].status = status],
         UNCHANGED <<draft, reports>>
  PROVE  /\ PaperInv' /\ bundles'[b].status = status
<1> DEFINE e == [bundles[b] EXCEPT !.status = status]
<1>1. /\ IsList(bundles)
      /\ \A k \in DOMAIN bundles :
           /\ BundleForm(bundles[k])
           /\ bundles[k].report \in DOMAIN reports /\ reports[bundles[k].report].status = "READY"
  BY DEF PaperInv, BundlesStand
<1>2. bundles' = [bundles EXCEPT ![b] = e]
  <2>1. bundles = [k \in DOMAIN bundles |-> bundles[k]]
    BY <1>1, ListLength
  <2> QED  BY <2>1
<1>3. BundleForm(e) /\ e.report = bundles[b].report /\ e.status = status
  BY <1>1 DEF BundleForm
<1> HIDE DEF e
<1>4. /\ IsList(bundles') /\ DOMAIN bundles' = DOMAIN bundles /\ bundles'[b] = e
      /\ \A k \in DOMAIN bundles : k # b => bundles'[k] = bundles[k]
  <2> DEFINE t == [bundles EXCEPT ![b] = e]
  <2>1. /\ IsList(t) /\ DOMAIN t = DOMAIN bundles /\ t[b] = e
        /\ \A k \in DOMAIN bundles : k # b => t[k] = bundles[k]
    BY <1>1, ListWritten
  <2> HIDE DEF t
  <2>2. bundles' = t
    BY <1>2 DEF t
  <2> QED  BY <2>1, <2>2
<1>5. BundlesStand(bundles', reports')
  BY <1>1, <1>3, <1>4 DEF BundlesStand
<1>6. DraftForm' /\ ReportsForm(reports') /\ (DOMAIN reports' # {} => draft'.status = "APPROVED")
  BY DEF PaperInv, DraftForm
<1> QED  BY <1>3, <1>4, <1>5, <1>6, PapersNow

LEMMA BundleAdded ==
  ASSUME PaperInv, NEW r \in DOMAIN reports, NEW l, NEW q, BundlePrepare(r, l, q)
  PROVE  PaperInv'
<1> DEFINE e == [report |-> r, letter |-> l, request |-> q, route |-> route, status |-> "PREPARING"]
           n == Len(bundles) + 1
<1>1. bundles' = Append(bundles, e) /\ reports[r].status = "READY" /\ UNCHANGED <<draft, reports>>
  BY DEF BundlePrepare
<1>2. BundleForm(e) /\ e.report = r
  BY DEF BundleForm
<1> HIDE DEF e
<1>3. IsList(bundles)
  BY DEF PaperInv, BundlesStand
<1>4. /\ IsList(bundles') /\ DOMAIN bundles' = DOMAIN bundles \cup {n} /\ bundles'[n] = e
      /\ \A k \in DOMAIN bundles : bundles'[k] = bundles[k]
  BY <1>1, <1>3, Longer
<1> HIDE DEF n
<1>5. BundlesStand(bundles', reports')
  BY <1>1, <1>2, <1>4 DEF PaperInv, BundlesStand
<1>6. DraftForm' /\ ReportsForm(reports') /\ (DOMAIN reports' # {} => draft'.status = "APPROVED")
  BY <1>1 DEF PaperInv, DraftForm
<1> QED  BY <1>5, <1>6, PapersNow

LEMMA ReportAdded ==
  ASSUME PaperInv, NEW who, NEW o, ReportPrepare(who, o)
  PROVE  PaperInv'
<1> DEFINE no == FALSE
           e == [opinion |-> o, date |-> today, owner |-> who, status |-> "PREPARING", consent |-> no]
           n == Len(reports) + 1
<1>1. reports' = Append(reports, e) /\ draft.status = "APPROVED" /\ UNCHANGED <<draft, bundles>>
  BY DEF ReportPrepare
<1> HIDE DEF no
<1>2. ReportForm(e)
  BY DEF ReportForm
<1> HIDE DEF e
<1>3. IsList(reports) /\ \A k \in DOMAIN reports : ReportForm(reports[k])
  BY DEF PaperInv, ReportsForm
<1>4. /\ IsList(reports') /\ DOMAIN reports' = DOMAIN reports \cup {n} /\ reports'[n] = e
      /\ \A k \in DOMAIN reports : reports'[k] = reports[k]
  BY <1>1, <1>3, Longer
<1> HIDE DEF n
<1>5. ReportsForm(reports')
  BY <1>2, <1>3, <1>4 DEF ReportsForm
<1>6. BundlesStand(bundles', reports')
  BY <1>1, <1>4 DEF PaperInv, BundlesStand
<1>7. DraftForm' /\ (DOMAIN reports' # {} => draft'.status = "APPROVED")
  BY <1>1 DEF PaperInv, DraftForm
<1> QED  BY <1>5, <1>6, <1>7, PapersNow

LEMMA DraftSaved ==
  ASSUME PaperInv, NEW who, NEW complete, StatementDraftSave(who, complete)
  PROVE  PaperInv'
<1> DEFINE version == draft.version + 1
           by == IF draft.version = 0 THEN who ELSE draft.by
<1>1. /\ draft' = [status |-> "DRAFT", version |-> version, complete |-> complete, by |-> by, approver |-> Nobody]
      /\ draft.status # "APPROVED" /\ UNCHANGED <<reports, bundles>>
  BY DEF StatementDraftSave
<1> HIDE DEF version, by
<1>2. DraftForm'
  BY <1>1 DEF DraftForm
<1> QED  BY <1>1, <1>2, PapersNow DEF PaperInv

LEMMA DraftApproved ==
  ASSUME PaperInv, NEW who, StatementApprove(who)
  PROVE  PaperInv'
<1>1. /\ draft' = [draft EXCEPT !.status = "APPROVED", !.approver = who]
      /\ draft.complete /\ who # draft.by /\ UNCHANGED <<reports, bundles>>
  BY DEF StatementApprove
<1>2. draft = [status |-> draft.status, version |-> draft.version, complete |-> draft.complete, by |-> draft.by,
               approver |-> draft.approver]
  BY DEF PaperInv, DraftForm
<1>3. draft' = [status |-> "APPROVED", version |-> draft.version, complete |-> draft.complete, by |-> draft.by,
                approver |-> who]
  BY <1>1, <1>2
<1>4. /\ draft' = [status |-> draft'.status, version |-> draft'.version, complete |-> draft'.complete,
                   by |-> draft'.by, approver |-> draft'.approver]
      /\ draft'.complete = draft.complete /\ draft'.status = "APPROVED"
      /\ draft'.approver = who /\ draft'.by = draft.by
  BY <1>3
<1>5. DraftForm'
  <2>1. draft'.complete /\ draft'.approver # draft'.by
    BY <1>1, <1>4
  <2> QED  BY <1>4, <2>1 DEF DraftForm
<1> QED  BY <1>1, <1>4, <1>5, PapersNow DEF PaperInv

LEMMA ReleaseKeepsPapers ==
  ASSUME PaperInv, ReleaseNext
  PROVE  PaperInv'
<1>0. \A r \in DOMAIN reports : ReportForm(reports[r])
  BY DEF PaperInv, ReportsForm
<1>1. ASSUME NEW r \in DOMAIN reports, NEW status, ReportRendered(r, status)
      PROVE  PaperInv'
  <2> DEFINE old == reports[r]  e == [old EXCEPT !.status = status]
  <2>1. reports[r].status = "PREPARING" /\ reports' = [reports EXCEPT ![r] = e] /\ UNCHANGED <<draft, bundles>>
    BY <1>1 DEF ReportRendered
  <2>2. ReportForm(old)
    BY <1>0
  <2> HIDE DEF old
  <2>3. ReportForm(e)
    BY <2>2, ReportStatus
  <2> HIDE DEF e
  <2> QED  BY <2>1, <2>3, ReportWritten
<1>2. ASSUME NEW who, NEW r \in DOMAIN reports, ReportConsent(who, r)
      PROVE  PaperInv'
  <2> DEFINE old == reports[r]  yes == TRUE  e == [old EXCEPT !.consent = yes]
  <2>1. reports' = [reports EXCEPT ![r] = e] /\ UNCHANGED <<draft, bundles>>
    BY <1>2 DEF ReportConsent
  <2>2. ReportForm(old)
    BY <1>0
  <2> HIDE DEF old, yes
  <2>3. ReportForm(e) /\ e.status = old.status
    BY <2>2, ReportConsented
  <2> HIDE DEF e
  <2> QED  BY <2>1, <2>3, ReportWritten DEF old
<1>3. ASSUME NEW b \in DOMAIN bundles, NEW status, BundleRendered(b, status)
      PROVE  PaperInv'
  BY <1>3, BundleWritten DEF BundleRendered
<1>4. ASSUME NEW r \in DOMAIN reports, NEW l, NEW q, BundlePrepare(r, l, q)
      PROVE  PaperInv'
  BY <1>4, BundleAdded
<1>5. ASSUME UNCHANGED <<draft, reports, bundles>>
      PROVE  PaperInv'
  BY <1>5, PapersUntouched
<1>6. CASE PaperNext
  <2>1. ASSUME NEW who, OpinionSelect(who) \/ RepresentationPrepare(who)
        PROVE  PaperInv'
    BY <1>5, <2>1 DEF OpinionSelect, RepresentationPrepare
  <2>2. ASSUME NEW who, NEW chosen, ManagementPrepare(who, chosen)
        PROVE  PaperInv'
    BY <1>5, <2>2 DEF ManagementPrepare
  <2>3. ASSUME NEW l, NEW status, ManagementRendered(l, status)
        PROVE  PaperInv'
    BY <1>5, <2>3 DEF ManagementRendered
  <2>4. ASSUME NEW q, NEW from, NEW to, RequestMoves(q, from, to)
        PROVE  PaperInv'
    BY <1>5, <2>4 DEF RequestMoves
  <2>5. ASSUME NEW q, \/ TemplateRendered(q) \/ TemplateFails(q) \/ RepresentationSend(q)
                      \/ RepresentationReceive(q)
                      \/ \E decision \in {"ACCEPTED", "REJECTED"} : RepresentationReview(q, decision)
        PROVE  PaperInv'
    BY <2>4, <2>5 DEF TemplateRendered, TemplateFails, RepresentationSend, RepresentationReceive,
                      RepresentationReview
  <2> QED  BY <1>1, <1>2, <1>3, <1>4, <1>6, <2>1, <2>2, <2>3, <2>5, DraftSaved, DraftApproved, ReportAdded
           DEF PaperNext
<1>7. CASE DeliveryNext
  BY <1>5, <1>7 DEF DeliveryNext, paperVars
<1>8. CASE DayPasses \/ RouteChanges
  BY <1>5, <1>8 DEF DayPasses, RouteChanges, paperVars
<1>9. ASSUME NEW who, NEW b \in DOMAIN bundles, ReportRelease(who, b)
      PROVE  PaperInv'
  BY <1>9, BundleWritten DEF ReportRelease
<1> QED  BY <1>6, <1>7, <1>8, <1>9 DEF ReleaseNext
----
(* The whole engagement.                                                    *)

AuditInv ==
  /\ WorkInv /\ ConfirmInv /\ StatementInv /\ PaperInv
  /\ IsList(srms)

LEMMA ConfirmUntouched ==
  ASSUME ConfirmInv, UNCHANGED confirmations
  PROVE  ConfirmInv'
BY DEF ConfirmInv, Confirmation, Independent

(* Who moves an SRM, and who the engagement.                                *)
LEMMA SrmsMove ==
  ASSUME FieldworkNext
  PROVE  UNCHANGED srms \/ \E who \in Staff : SrmCompile(who) \/ SrmClear(who)
<1>1. CASE EvidenceNext
  BY <1>1 DEF EvidenceNext, areaVars, EvidenceLink, EvidenceUnlink
<1>2. CASE ProcedureNext
  BY <1>2 DEF ProcedureNext, WorkprogramProvision, ProcedureInsert, ProcedureUpdate, ProcedureNotApplicable,
              ProcedureSubmit
<1>3. CASE SampleNext \/ StatementNext
  BY <1>3 DEF SampleNext, StatementNext, areaVars
<1>4. CASE ReviewNext
  BY <1>4 DEF ReviewNext, areaVars, WorkprogramSubmit, GoingConcernSave, GoingConcernSubmit, SrmSubmit,
              ProcedureReview, GoingConcernReview, WorkprogramAccept, WorkprogramReturn
<1>5. CASE HandoverNext
  BY <1>5 DEF HandoverNext, HandoverToManager, HandoverToPartner, PartnerClearArea, fieldVars, areaVars
<1> QED  BY <1>1, <1>2, <1>3, <1>4, <1>5 DEF FieldworkNext

LEMMA StageMoves ==
  ASSUME AuditNext, stage' # stage
  PROVE  \/ \E who \in Staff :
              (HandoverToManager(who) \/ HandoverToPartner(who)) /\ UNCHANGED confirmationVars
         \/ \E who \in Staff, b \in DOMAIN bundles : ReportRelease(who, b)
<1>1. CASE FieldworkNext
  BY <1>1 DEF FieldworkNext, EvidenceNext, ProcedureNext, SampleNext, StatementNext, ReviewNext, HandoverNext,
              PartnerClearArea
<1>2. CASE ReleaseNext
  BY <1>2 DEF ReleaseNext, PaperNext, DeliveryNext
<1>3. CASE ConfirmationsNext
  BY <1>3 DEF ConfirmationsNext
<1> QED  BY <1>1, <1>2, <1>3 DEF AuditNext

LEMMA SrmsStayAList ==
  ASSUME IsList(srms), FieldworkNext
  PROVE  IsList(srms')
<1>1. ASSUME NEW who, SrmCompile(who)
      PROVE  IsList(srms')
  BY <1>1, Longer DEF SrmCompile
<1>2. ASSUME NEW who, SrmClear(who)
      PROVE  IsList(srms')
  <2> DEFINE t == srms'
  <2>1. t = [i \in DOMAIN srms |-> t[i]]
    <3>1. srms = [i \in DOMAIN srms |-> srms[i]]
      BY ListLength
    <3> QED  BY <1>2, <3>1 DEF SrmClear
  <2> HIDE DEF t
  <2>2. IsList(t)
    BY <2>1, StillAList
  <2> QED  BY <2>2 DEF t
<1> QED  BY <1>1, <1>2, SrmsMove

LEMMA AuditBegins ==
  ASSUME AuditInit
  PROVE  AuditInv
<1>1. /\ program = Absent /\ procedures = <<>> /\ submissions = <<>> /\ clearances = {} /\ srms = <<>>
      /\ adjustments = <<>> /\ differences = <<>> /\ analyses = <<>>
  BY DEF AuditInit, FieldworkInit, EvidenceInit, StatementsInit
<1>2. confirmations = <<>>
  BY DEF AuditInit, ConfirmationsInit
<1>3. /\ draft = [status |-> "NONE", version |-> 0, complete |-> FALSE, by |-> Nobody, approver |-> Nobody]
      /\ reports = <<>> /\ bundles = <<>>
  BY DEF AuditInit, ReleaseInit
<1>4. IsList(<<>>) /\ DOMAIN <<>> = {} /\ <<>> = [i \in DOMAIN <<>> |-> <<>>[i]]
  BY NothingIsAList, ListLength
<1>5. WorkInv
  <2>1. ProgramForm
    BY <1>1, <1>4 DEF ProgramForm, Absent
  <2>2. WorkStands(procedures, submissions)
    BY <1>1, <1>4 DEF WorkStands, RowsForm, SubmissionsForm
  <2>3. ClearancesStand(clearances, submissions)
    BY <1>1 DEF ClearancesStand
  <2> QED  BY <2>1, <2>2, <2>3 DEF WorkInv
<1>6. ConfirmInv
  BY <1>2, <1>4 DEF ConfirmInv
<1>7. StatementInv
  BY <1>1, <1>4 DEF StatementInv, AdjustmentsForm, DifferencesAreAdjusted, AnalysesForm, AnalysesStand
<1>8. PaperInv
  <2>1. DraftForm
    <3> DEFINE no == FALSE
    <3>1. draft = [status |-> "NONE", version |-> 0, complete |-> no, by |-> Nobody, approver |-> Nobody]
      BY <1>3
    <3> HIDE DEF no
    <3> QED  BY <3>1 DEF DraftForm
  <2> QED  BY <1>3, <1>4, <2>1 DEF PaperInv, ReportsForm, BundlesStand
<1> QED  BY <1>1, <1>4, <1>5, <1>6, <1>7, <1>8 DEF AuditInv

LEMMA AuditKeeps ==
  ASSUME AuditInv, [AuditNext]_auditVars
  PROVE  AuditInv'
<1>0. WorkInv /\ ConfirmInv /\ StatementInv /\ PaperInv /\ IsList(srms)
  BY DEF AuditInv
<1>1. ASSUME UNCHANGED fieldVars
      PROVE  WorkInv' /\ StatementInv' /\ IsList(srms')
  <2>1. /\ UNCHANGED <<program, procedures, submissions, clearances>>
        /\ UNCHANGED <<adjustments, differences, analyses, submissions>> /\ UNCHANGED srms
    BY <1>1 DEF fieldVars, areaVars, reviewVars, statementVars
  <2> QED  BY <1>0, <2>1, WorkUntouched, OnlyTheRest
<1>2. ASSUME UNCHANGED confirmationVars
      PROVE  ConfirmInv'
  BY <1>0, <1>2, ConfirmUntouched DEF confirmationVars
<1>3. ASSUME UNCHANGED releaseVars
      PROVE  PaperInv'
  BY <1>0, <1>3, PapersUntouched DEF releaseVars, paperVars
<1>4. CASE FieldworkNext /\ UNCHANGED releaseVars
  <2>1. UNCHANGED confirmationVars
    BY <1>4 DEF FieldworkNext, EvidenceNext, ProcedureNext, SampleNext, StatementNext, ReviewNext, HandoverNext
  <2>2. WorkInv' /\ StatementInv' /\ IsList(srms')
    BY <1>0, <1>4, FieldworkKeepsWork, FieldworkKeepsStatements, SrmsStayAList
  <2> QED  BY <1>2, <1>3, <1>4, <2>1, <2>2 DEF AuditInv
<1>5. CASE ConfirmationsNext /\ UNCHANGED <<fieldVars, releaseVars>>
  BY <1>0, <1>1, <1>3, <1>5, ConfirmInductive DEF AuditInv
<1>6. CASE ReleaseNext /\ UNCHANGED <<fieldVars, confirmationVars>>
  BY <1>0, <1>1, <1>2, <1>6, ReleaseKeepsPapers DEF AuditInv
<1>7. CASE UNCHANGED auditVars
  BY <1>1, <1>2, <1>3, <1>7 DEF AuditInv, auditVars
<1> QED  BY <1>4, <1>5, <1>6, <1>7 DEF AuditNext

(* The work, the confirmations, the statements and the papers of an         *)
(* engagement stay in order, whatever its staff, clients and jobs do: a     *)
(* decision is by none of the contributors its submission names, who are    *)
(* the editors of a procedure and, of an analysis, its first drafter alone. *)
THEOREM AuditInvHolds == AuditSpec => []AuditInv
<1>1. AuditInit => AuditInv
  BY AuditBegins
<1>2. AuditInv /\ [AuditNext]_auditVars => AuditInv'
  BY AuditKeeps
<1> QED  BY <1>1, <1>2, PTL DEF AuditSpec

----
(* Handovers.                                                               *)

(* A reviewed procedure on current evidence and complete samples is done:   *)
(* what it was submitted and accepted with is what it has.                  *)
LEMMA ReviewedIsDone ==
  ASSUME WorkInv, NEW p \in DOMAIN procedures, procedures[p].status = "REVIEWED",
         EvidenceCurrent(p), SamplesComplete(p)
  PROVE  Done(p)
<1> DEFINE row == procedures[p]  links == row.links
<1>1. RowStands(procedures, submissions, p)
  BY DEF WorkInv, WorkStands
<1>2. AllLatest(links) /\ Pins(links) = row.pins
  BY DEF EvidenceCurrent, Fresh
<1>3. /\ row.applicable /\ p \notin Optional => row.pins # {}
      /\ row.applicable => \A pin \in row.pins : pin.adequacy = "ADEQUATE"
  BY <1>1 DEF RowStands
<1>4. /\ \A l \in links : IsLatest(l)
      /\ row.applicable => /\ p \notin Optional => links # {}
                           /\ \A l \in links : Adequacy(l) = "ADEQUATE"
  <2> HIDE DEF links, row
  <2> QED  BY <1>2, <1>3, PinsOfLinks DEF AllLatest
<1>5. PICK k \in DOMAIN submissions :
        /\ submissions[k].kind = "PROCEDURE" /\ submissions[k].item = p /\ submissions[k].decision = "ACCEPT"
        /\ submissions[k].target + 1 = row.version
  BY <1>1 DEF RowStands, RowAccepted
<1>6. submissions[k].reviewer \notin row.editors
  <2>1. OfRow(procedures, submissions[k]) /\ SubmissionForm(submissions[k])
    BY DEF WorkInv, WorkStands, SubmissionsForm
  <2>2. row.editors \subseteq submissions[k].contributors
    BY <1>5, <2>1 DEF OfRow
  <2>3. submissions[k].reviewer \notin submissions[k].contributors
    BY <1>5, <2>1 DEF SubmissionForm
  <2> QED  BY <2>2, <2>3
<1>7. ASSUME NEW n \in DOMAIN plans, plans[n].procedure = p
      PROVE  /\ plans[n].evaluation.result \in Outcomes
             /\ \A r \in plans[n].rows :
                  /\ plans[n].tests[r].tested /\ plans[n].tests[r].version = plans[n].evaluation.tests[r]
                  /\ IsLatest(plans[n].tests[r].evidence) /\ Adequacy(plans[n].tests[r].evidence) = "ADEQUATE"
  <2>1. /\ AllTested(n) /\ WellSupported(n) /\ plans[n].evaluation.tests = TestVersions(n)
        /\ plans[n].evaluation.result \in Outcomes
    BY <1>7 DEF SamplesComplete
  <2>2. \A r \in plans[n].rows :
          plans[n].tests[r].tested /\ plans[n].tests[r].version = plans[n].evaluation.tests[r]
    BY <2>1 DEF AllTested, TestVersions
  <2>3. \A r \in plans[n].rows :
          IsLatest(plans[n].tests[r].evidence) /\ Adequacy(plans[n].tests[r].evidence) = "ADEQUATE"
    BY <2>1, <2>2 DEF WellSupported, Supports
  <2> QED  BY <2>1, <2>2, <2>3
<1> QED  BY <1>4, <1>5, <1>6, <1>7 DEF Done

(* No critical confirmation stands in the way: each is verified, or gone.   *)
LEMMA UnblockedIsConfirmed ==
  ASSUME ConfirmInv, Blockers = {}
  PROVE  \A c \in DOMAIN confirmations : confirmations[c].critical => Confirmed(c)
<1>1. \A c \in DOMAIN confirmations : confirmations[c].critical =>
        confirmations[c].status \in {"CANCELLED", "RETURNED_VERIFIED"}
  BY DEF Blockers
<1>2. \A c \in DOMAIN confirmations : Independent(confirmations[c])
  BY DEF ConfirmInv
<1> QED  BY <1>1, <1>2 DEF Confirmed, Independent

(* Versions that a Partner cleared were accepted by somebody who wrote none *)
(* of the procedures, as they stand.                                        *)
LEMMA ClearedIsAccepted ==
  ASSUME WorkInv, Versions \in clearances
  PROVE  \E s \in DOMAIN submissions :
           /\ submissions[s].kind = "WORKPROGRAM" /\ submissions[s].decision = "ACCEPT"
           /\ submissions[s].versions = Versions
           /\ \A p \in DOMAIN procedures : submissions[s].reviewer \notin procedures[p].editors
<1>1. PICK k \in DOMAIN submissions :
        submissions[k].kind = "WORKPROGRAM" /\ submissions[k].decision = "ACCEPT"
        /\ submissions[k].versions = Versions
  BY DEF WorkInv, ClearancesStand
<1>2. OfProgram(procedures, submissions[k]) /\ SubmissionForm(submissions[k])
  BY DEF WorkInv, WorkStands, SubmissionsForm
<1>3. DOMAIN Versions = DOMAIN procedures /\ \A p \in DOMAIN procedures : Versions[p] = procedures[p].version
  BY DEF Versions
<1>4. \A p \in DOMAIN procedures : procedures[p].editors \subseteq submissions[k].contributors
  BY <1>1, <1>2, <1>3 DEF OfProgram
<1>5. submissions[k].reviewer \notin submissions[k].contributors
  BY <1>1, <1>2 DEF SubmissionForm
<1> QED  BY <1>1, <1>4, <1>5

Earned ==
  /\ stage' = "MANAGERIAL_REVIEW" /\ stage # stage' =>
       /\ \A p \in DOMAIN procedures : Done(p)
       /\ \A c \in DOMAIN confirmations : confirmations[c].critical => Confirmed(c)
  /\ stage' = "PARTNER_APPROVAL" /\ stage # stage' =>
       /\ \A p \in DOMAIN procedures : Done(p)
       /\ \E s \in DOMAIN submissions :
            /\ submissions[s].kind = "WORKPROGRAM"
            /\ submissions[s].decision = "ACCEPT"
            /\ submissions[s].versions = Versions
            /\ \A p \in DOMAIN procedures : submissions[s].reviewer \notin procedures[p].editors
       /\ Versions \in clearances
       /\ \A n \in DOMAIN notes : notes[n].status = "CLOSED"

LEMMA HandedOverIsEarned ==
  ASSUME AuditInv, [AuditNext]_auditVars, stage' # stage
  PROVE  Earned
<1>1. WorkInv /\ ConfirmInv
  BY DEF AuditInv
<1>2. AuditNext
  BY DEF auditVars
<1>3. ASSUME AllReviewed, AllCurrent
      PROVE  \A p \in DOMAIN procedures : Done(p)
  BY <1>1, <1>3, ReviewedIsDone DEF AllReviewed, AllCurrent
<1>4. ASSUME NEW who, HandoverToManager(who)
      PROVE  Earned
  <2>1. AllReviewed /\ AllCurrent /\ Blockers = {} /\ stage' = "MANAGERIAL_REVIEW"
    BY <1>4 DEF HandoverToManager
  <2> QED  BY <1>1, <1>3, <2>1, UnblockedIsConfirmed DEF Earned
<1>5. ASSUME NEW who, HandoverToPartner(who)
      PROVE  Earned
  <2>1. AllReviewed /\ AllCurrent /\ Versions \in clearances /\ NotesClosed /\ stage' = "PARTNER_APPROVAL"
    BY <1>5 DEF HandoverToPartner
  <2> QED  BY <1>1, <1>3, <2>1, ClearedIsAccepted DEF Earned, NotesClosed
<1>6. ASSUME NEW who, NEW b, ReportRelease(who, b)
      PROVE  Earned
  BY <1>6 DEF ReportRelease, Earned
<1> QED  BY <1>2, <1>4, <1>5, <1>6, StageMoves

(* An engagement goes to its Manager only with every procedure done and     *)
(* every critical confirmation verified independently, and to its Partner   *)
(* only with every procedure done still, in the versions that the accepted  *)
(* workprogram and the clearance name, and no review note open.             *)
THEOREM HandoverEarned == AuditSpec => HandoverIsEarned
<1>1. AuditInv /\ [AuditNext]_auditVars => [Earned]_stage
  BY HandedOverIsEarned
<1>2. AuditSpec => [][Earned]_stage
  BY <1>1, AuditInvHolds, PTL DEF AuditSpec
<1> QED  BY <1>2 DEF HandoverIsEarned, Earned

----
(* The statements of an SRM.                                                *)

LEMMA ReadyIsSettled ==
  ASSUME WorkInv, StatementInv, StatementsReady
  PROVE  Settled
<1>1. ASSUME NEW a \in DOMAIN adjustments
      PROVE  /\ adjustments[a].approver \notin {Nobody, adjustments[a].by} /\ adjustments[a].pins # {}
             /\ \A pin \in adjustments[a].pins :
                  IsLatest(pin) /\ Adequacy(pin) = "ADEQUATE" /\ pin.standing
  <2>1. adjustments[a].status = "REVIEW_APPROVED" /\ adjustments[a].pins # {} /\ Verified(a)
    BY DEF StatementsReady, AdjustmentSettled
  <2>2. adjustments[a].approver \in Staff /\ adjustments[a].approver # adjustments[a].by
    BY <2>1 DEF StatementInv, AdjustmentsForm, AdjustmentForm
  <2>3. adjustments[a].approver # Nobody
    BY <2>2, StaffAreSomebody DEF Staff
  <2> QED  BY <2>1, <2>2, <2>3 DEF Verified
<1>2. \A d \in DOMAIN differences :
        differences[d].disposition = "ADJUSTED" => differences[d].adjustment \in Included
  BY DEF StatementInv, DifferencesAreAdjusted
<1>3. ASSUME NEW n \in DOMAIN analyses
      PROVE  /\ analyses[n].snapshot = Included /\ analyses[n].links # {}
             /\ AllLatest(analyses[n].links) /\ AllAdequate(analyses[n].links)
             /\ \E s \in DOMAIN submissions :
                  /\ submissions[s].kind = "ANALYTICAL_REVIEW" /\ submissions[s].item = n
                  /\ submissions[s].decision = "ACCEPT"
                  /\ submissions[s].target + 1 = analyses[n].version
                  /\ submissions[s].reviewer # analyses[n].by
  <2> DEFINE links == analyses[n].links
  <2>1. AnalysisSettled(n)
    BY DEF StatementsReady
  <2>2. analyses[n].snapshot = Included /\ AllLatest(links)
    BY <2>1 DEF AnalysisSettled
  <2>3. PICK s \in DOMAIN submissions :
          /\ submissions[s].kind = "ANALYTICAL_REVIEW" /\ submissions[s].item = n
          /\ submissions[s].target + 1 = analyses[n].version
          /\ submissions[s].decision = "ACCEPT"
          /\ submissions[s].pins = Pins(links)
    BY <2>1 DEF AnalysisSettled
  <2>4. OfAnalysis(analyses, submissions[s]) /\ SubmissionForm(submissions[s])
    BY DEF StatementInv, AnalysesStand, WorkInv, WorkStands, SubmissionsForm
  <2>5. /\ analyses[n].by \in submissions[s].contributors
        /\ submissions[s].pins # {} /\ \A pin \in submissions[s].pins : pin.adequacy = "ADEQUATE"
    BY <2>3, <2>4 DEF OfAnalysis
  <2>6. links # {} /\ AllAdequate(links)
    <3> HIDE DEF links
    <3> QED  BY <2>3, <2>5, PinsOfLinks DEF AllAdequate
  <2>7. submissions[s].reviewer # analyses[n].by
    BY <2>3, <2>4, <2>5 DEF SubmissionForm
  <2> QED  BY <2>2, <2>3, <2>6, <2>7
<1> QED  BY <1>1, <1>2, <1>3 DEF Settled

Summarised ==
  \/ stage' = "PARTNER_APPROVAL" /\ stage # stage'
  \/ srms' # srms /\ Last(srms').clearedBy # Nobody

LEMMA SummarisedIsSettled ==
  ASSUME AuditInv, [AuditNext]_auditVars, Summarised
  PROVE  Settled
<1>1. WorkInv /\ StatementInv /\ IsList(srms)
  BY DEF AuditInv
<1>2. AuditNext
  BY DEF auditVars, Summarised, fieldVars, areaVars
<1>3. SrmCurrent => Settled
  BY <1>1, ReadyIsSettled DEF SrmCurrent, SrmReady
<1>4. CASE stage' = "PARTNER_APPROVAL" /\ stage # stage'
  <2>1. \E who \in Staff : HandoverToPartner(who)
    BY <1>2, <1>4, StageMoves DEF HandoverToManager, ReportRelease
  <2> QED  BY <1>3, <2>1 DEF HandoverToPartner
<1>5. CASE srms' # srms /\ Last(srms').clearedBy # Nobody
  <2>1. FieldworkNext
    BY <1>2, <1>5 DEF AuditNext, fieldVars, areaVars
  <2>2. ASSUME NEW who, SrmCompile(who)
        PROVE  FALSE
    <3> DEFINE inputs == SrmInputs
               e == [by |-> who, inputs |-> inputs, clearedBy |-> Nobody]
               t == Append(srms, e)
    <3>1. srms' = t
      BY <2>2 DEF SrmCompile
    <3> HIDE DEF inputs
    <3>2. e.clearedBy = Nobody
      OBVIOUS
    <3> HIDE DEF e
    <3>3. t[Len(t)] = e
      BY <1>1, Longer
    <3> HIDE DEF t
    <3> QED  BY <1>5, <3>1, <3>2, <3>3 DEF Last
  <2>3. \E who \in Staff : SrmClear(who)
    BY <1>5, <2>1, <2>2, SrmsMove
  <2> QED  BY <1>3, <2>3 DEF SrmClear
<1> QED  BY <1>4, <1>5 DEF Summarised

(* The SRM reaches the Partner, and is cleared, only on statements that are *)
(* settled: adjustments approved by others on evidence that stands, the     *)
(* differences called adjusted put right, the analyses accepted by others   *)
(* against the statements as they stand.                                    *)
THEOREM SummaryIsSettled == AuditSpec => StatementsAreSettled
<1>1. AuditInv /\ [AuditNext]_auditVars => [Summarised => Settled]_<<stage, srms>>
  BY SummarisedIsSettled
<1>2. AuditSpec => [][Summarised => Settled]_<<stage, srms>>
  BY <1>1, AuditInvHolds, PTL DEF AuditSpec
<1> QED  BY <1>2 DEF StatementsAreSettled, Summarised

----
(* The release.                                                             *)

OfOneDay ==
  \E b \in DOMAIN bundles :
    LET report  == reports[bundles[b].report]
        request == requests[bundles[b].request]
    IN /\ bundles'[b].status = "RELEASED" /\ bundles[b].status = "READY"
       /\ report.date = today /\ report.consent /\ report.status = "READY"
       /\ request.date = today /\ request.status = "ACCEPTED"
       /\ \A item \in letters[bundles[b].letter].items : item[2] = findings[item[1]].version
       /\ bundles[b].route = route
       /\ draft.status = "APPROVED" /\ draft.complete /\ draft.approver # draft.by
       /\ \A c \in DOMAIN confirmations : confirmations[c].critical => Confirmed(c)

Released == stage' = "COMPLIANCE_COUNTDOWN" /\ stage # stage'

LEMMA ReleasedOfOneDay ==
  ASSUME AuditInv, [AuditNext]_auditVars, Released
  PROVE  OfOneDay
<1>1. ConfirmInv /\ PaperInv
  BY DEF AuditInv
<1>2. PICK who \in Staff, b \in DOMAIN bundles : ReportRelease(who, b)
  <2>1. AuditNext
    BY DEF auditVars, Released
  <2> QED  BY <2>1, StageMoves DEF Released, HandoverToManager, HandoverToPartner
<1> DEFINE report == reports[bundles[b].report]
           request == requests[bundles[b].request]
<1>3. /\ bundles[b].status = "READY" /\ report.date = today /\ report.consent
      /\ request.status = "ACCEPTED" /\ request.date = today
      /\ \A item \in letters[bundles[b].letter].items : item[2] = findings[item[1]].version
      /\ bundles[b].route = route /\ Blockers = {}
  BY <1>2 DEF ReportRelease, Reported
<1>4. bundles'[b].status = "RELEASED"
  <2>1. bundles' = [bundles EXCEPT ![b].status = "RELEASED"] /\ UNCHANGED <<draft, reports>>
    BY <1>2 DEF ReportRelease
  <2> QED  BY <1>1, <2>1, BundleWritten
<1>5. bundles[b].report \in DOMAIN reports /\ report.status = "READY"
  BY <1>1 DEF PaperInv, BundlesStand
<1>6. draft.status = "APPROVED" /\ draft.complete /\ draft.approver # draft.by
  BY <1>1, <1>5 DEF PaperInv, DraftForm
<1>7. \A c \in DOMAIN confirmations : confirmations[c].critical => Confirmed(c)
  BY <1>1, <1>3, UnblockedIsConfirmed
<1> QED  BY <1>3, <1>4, <1>5, <1>6, <1>7 DEF OfOneDay

(* What is released is one thing of one day: the report, the consent to it  *)
(* and the accepted representation are of that day, its letter reports the  *)
(* findings as they stand, its statements were approved complete and by     *)
(* somebody else than their preparer, it goes to the client's present       *)
(* contact and no critical confirmation is outstanding.                     *)
THEOREM ReleasedAsOne == AuditSpec => ReleaseIsOfOneDay
<1>1. AuditInv /\ [AuditNext]_auditVars => [Released => OfOneDay]_stage
  BY ReleasedOfOneDay
<1>2. AuditSpec => [][Released => OfOneDay]_stage
  BY <1>1, AuditInvHolds, PTL DEF AuditSpec
<1> QED  BY <1>2 DEF ReleaseIsOfOneDay, Released, OfOneDay

----
(* The types of an engagement.  An invariant of a part says what its type    *)
(* invariant says and, of every record, which fields it has.                 *)

EvidenceLinks == [family : Families, version : Nat, target : Nat]

(* Links of a row name one version there is of each family they are of, and *)
(* were made for a version the row has had.                                 *)
LinksStand(held, links, version) ==
  /\ links \subseteq EvidenceLinks
  /\ \A l \in links : l.version \in DOMAIN held[l.family] /\ l.target <= version
  /\ \A k, l \in links : k.family = l.family => k = l

EvidencePins == [family : Families, version : Nat, standing : BOOLEAN]

PinsStand(held, pins) ==
  /\ pins \subseteq EvidencePins
  /\ \A l \in pins : l.version \in DOMAIN held[l.family]
  /\ \A k, l \in pins : k.family = l.family => k = l

EvidenceHeld == evidence \in [Families -> Seq([by : Staff, adequacy : Adequacies])]

NoteForm(subs, r) ==
  /\ r = [submission |-> r.submission, procedure |-> r.procedure, status |-> r.status, after |-> r.after]
  /\ r.submission \in DOMAIN subs

DecidedBy(u) == u.decision = "NONE" <=> u.reviewer = Nobody

ReviewsHold ==
  /\ IsList(notes) /\ \A n \in DOMAIN notes : NoteForm(submissions, notes[n])
  /\ \A s \in DOMAIN submissions : DecidedBy(submissions[s])

TestForm(held, t) ==
  /\ t = [version |-> t.version, tested |-> t.tested, evidence |-> t.evidence, links |-> t.links]
  /\ t.version \in 0..MaxTests
  /\ t.tested <=> t.evidence # Nothing
  /\ LinksStand(held, t.links, t.version)

PlanForm(held, r) ==
  /\ r = [procedure |-> r.procedure, rows |-> r.rows, tests |-> r.tests, evaluation |-> r.evaluation]
  /\ r.rows \subseteq Rows /\ r.rows # {}
  /\ r.tests = [k \in r.rows |-> r.tests[k]]
  /\ \A k \in r.rows : TestForm(held, r.tests[k])
  /\ r.evaluation.result \in Outcomes \cup {"NONE", "INCOMPLETE"}

SamplesHold ==
  /\ policy \in PolicyStates /\ population \in BOOLEAN
  /\ plans # <<>> => population /\ policy \in {"ACTIVE", "RETIRED"}
  /\ IsList(plans) /\ \A n \in DOMAIN plans : PlanForm(evidence, plans[n])

FindingForm(held, r) ==
  /\ r = [version |-> r.version, status |-> r.status, by |-> r.by, links |-> r.links]
  /\ r.version \in 1..MaxRevision /\ r.by \in Staff
  /\ r.status \in {"OPEN", "RESPONDED", "RESOLVED"}
  /\ LinksStand(held, r.links, r.version)

FindingsHold == IsList(findings) /\ \A f \in DOMAIN findings : FindingForm(evidence, findings[f])

AdjustmentStands(held, found, r) ==
  /\ AdjustmentForm(r)
  /\ r.status \in AdjustmentStatuses /\ r.finding \in 0..found
  /\ PinsStand(held, r.pins)
  /\ r.status = "REVIEW_APPROVED" <=> r.approver # Nobody

AdjustmentsHold ==
  /\ IsList(adjustments)
  /\ \A a \in DOMAIN adjustments : AdjustmentStands(evidence, Len(findings), adjustments[a])

DifferencesHold ==
  /\ IsList(differences)
  /\ \A d \in DOMAIN differences :
       /\ differences[d].finding \in DOMAIN findings
       /\ differences[d].disposition \in Dispositions
       /\ differences[d].adjustment \in 0..Len(adjustments)

AnalysisStands(held, kept, r) ==
  /\ AnalysisForm(r)
  /\ r.version \in 1..MaxRevision
  /\ r.status \in Drafts \cup {"SUBMITTED", "REVIEWED"}
  /\ r.by \in r.writers /\ r.writers \subseteq Staff
  /\ r.snapshot \in kept
  /\ LinksStand(held, r.links, r.version)

AnalysesHold ==
  IsList(analyses) /\ \A n \in DOMAIN analyses : AnalysisStands(evidence, snapshots, analyses[n])

ProcedureStands(held, r) ==
  /\ RowForm(r)
  /\ r.version \in 1..MaxVersion /\ r.status \in Editable \cup {"SUBMITTED", "REVIEWED"}
  /\ LinksStand(held, r.links, r.version)

ProceduresHold == \A q \in DOMAIN procedures : ProcedureStands(evidence, procedures[q])

(* The steps of the workprogram are its procedures, each of them once.      *)
StepsHold ==
  /\ program.status \in Editable \cup {"ABSENT", "SUBMITTED", "REVIEWED", "PARTNER_CLEARED"}
  /\ program.band \in Bands \cup {"GREEN"} /\ program.version \in Nat
  /\ program.assigned \in Staff \cup {Nobody}
  /\ program.status = "ABSENT" => program = Absent
  /\ program.steps \in Seq(DOMAIN procedures) /\ ToSet(program.steps) = DOMAIN procedures
  /\ \A i, j \in 1..Len(program.steps) : program.steps[i] = program.steps[j] => i = j

PlansOfProcedures ==
  \A n \in DOMAIN plans : plans[n].procedure \in DOMAIN procedures \cup {Nobody}

HoldingLettersHold ==
  \A outstanding \in holdingLetters : outstanding \subseteq (1..Len(confirmations)) \X Nat

ReportOf(made, day) ==
  [opinion : 1..made, date : 1..day, owner : Partners, status : JobStatuses, consent : BOOLEAN]

LetterOf(found) == [items : SUBSET (found \X Nat), status : JobStatuses]

RequestOf(day) == [date : 1..day, status : RequestStatuses]

BundleOf(papers, written, asked, version) ==
  [report : papers, letter : written, request : asked, route : 1..version,
   status : JobStatuses \cup {"RELEASED"}]

(* One bundle is released, which starts the countdown.                      *)
ReleaseStands(now, made) ==
  IF now = "COMPLIANCE_COUNTDOWN"
  THEN \E b \in DOMAIN made : \A k \in DOMAIN made : made[k].status = "RELEASED" <=> k = b
  ELSE \A k \in DOMAIN made : made[k].status # "RELEASED"

MailsHold == dispatches \in Seq({"QUEUED", "ACCEPTED", "FAILED"}) /\ deliveries \subseteq DeliveryMethods

PapersHold ==
  /\ today \in 1..MaxDay /\ opinions \in 0..MaxOpinions /\ route \in 1..MaxRoutes
  /\ draft.status \in {"NONE", "DRAFT", "APPROVED"}
  /\ reports \in Seq(ReportOf(opinions, today))
  /\ letters \in Seq(LetterOf(DOMAIN findings))
  /\ requests \in Seq(RequestOf(today))
  /\ bundles \in Seq(BundleOf(DOMAIN reports, DOMAIN letters, DOMAIN requests, route))
  /\ ReleaseStands(stage, bundles)
  /\ MailsHold

(* Links outlive the steps that add evidence, and the versions of their row. *)
LEMMA NoLinksStand ==
  ASSUME NEW held, NEW version
  PROVE  LinksStand(held, {}, version)
BY DEF LinksStand

LEMMA LinksOutlive ==
  ASSUME NEW held, NEW held2, \A f \in Families : DOMAIN held[f] \subseteq DOMAIN held2[f]
  PROVE  /\ \A links, version : LinksStand(held, links, version) => LinksStand(held2, links, version)
         /\ \A pins : PinsStand(held, pins) => PinsStand(held2, pins)
<1>1. ASSUME NEW links, NEW version, LinksStand(held, links, version)
      PROVE  LinksStand(held2, links, version)
  <2>1. \A l \in links : l.family \in Families
    BY <1>1 DEF LinksStand, EvidenceLinks
  <2> QED  BY <1>1, <2>1 DEF LinksStand
<1>2. ASSUME NEW pins, PinsStand(held, pins)
      PROVE  PinsStand(held2, pins)
  <2>1. \A l \in pins : l.family \in Families
    BY <1>2 DEF PinsStand, EvidencePins
  <2> QED  BY <1>2, <2>1 DEF PinsStand
<1> QED  BY <1>1, <1>2

LEMMA FewerLinksStand ==
  ASSUME NEW held, NEW links, NEW version \in Nat, LinksStand(held, links, version),
         NEW fewer \in SUBSET links, NEW later \in Nat, version <= later
  PROVE  LinksStand(held, fewer, later)
<1>1. \A l \in links : l.target \in Nat
  BY DEF LinksStand, EvidenceLinks
<1>2. \A l \in fewer : l.target <= later
  BY <1>1 DEF LinksStand
<1> QED  BY <1>2 DEF LinksStand

LEMMA HeldFamily ==
  ASSUME EvidenceHeld, NEW f \in Families
  PROVE  /\ evidence[f] \in Seq([by : Staff, adequacy : Adequacies])
         /\ Len(evidence[f]) \in Nat /\ DOMAIN evidence[f] = 1..Len(evidence[f])
         /\ evidence[f] # <<>> => Len(evidence[f]) # 0 /\ Len(evidence[f]) \in DOMAIN evidence[f]
<1>1. evidence[f] \in Seq([by : Staff, adequacy : Adequacies])
  BY DEF EvidenceHeld
<1> DEFINE R == [by : Staff, adequacy : Adequacies]
<1> HIDE DEF R
<1>2. Len(evidence[f]) \in Nat /\ DOMAIN evidence[f] = 1..Len(evidence[f])
  BY <1>1, LenProperties DEF R
<1>3. evidence[f] # <<>> => Len(evidence[f]) # 0
  BY <1>1, EmptySeq
<1> QED  BY <1>1, <1>2, <1>3

LEMMA Aimed ==
  ASSUME NEW l \in EvidenceLinks, NEW target \in Nat
  PROVE  LET n == [l EXCEPT !.target = target]
         IN n \in EvidenceLinks /\ n.family = l.family /\ n.version = l.version /\ n.target = target
BY DEF EvidenceLinks

LEMMA RelinkedStand ==
  ASSUME EvidenceHeld, NEW f \in Families, evidence[f] # <<>>,
         NEW links, NEW version, LinksStand(evidence, links, version), NEW target \in Nat
  PROVE  LinksStand(evidence, Relinked(f, links, target), target)
<1> DEFINE last == [family |-> f, version |-> Len(evidence[f]), target |-> 0]
           kept == {l \in links : IsLatest(l) /\ l.family # f}
           Aim(l) == [l EXCEPT !.target = target]
<1>1. Relinked(f, links, target) = {Aim(l) : l \in kept \cup {last}}
  BY DEF Relinked
<1>2. last \in EvidenceLinks /\ last.family = f /\ last.version \in DOMAIN evidence[f]
  BY HeldFamily DEF EvidenceLinks
<1>3. /\ kept \subseteq EvidenceLinks
      /\ \A l \in kept : l.version \in DOMAIN evidence[l.family] /\ l.family # f
      /\ \A k, l \in kept : k.family = l.family => k = l
  BY DEF LinksStand
<1> HIDE DEF last, kept
<1>4. /\ kept \cup {last} \subseteq EvidenceLinks
      /\ \A l \in kept \cup {last} : l.version \in DOMAIN evidence[l.family]
      /\ \A k, l \in kept \cup {last} : k.family = l.family => k = l
  BY <1>2, <1>3
<1>5. \A l \in kept \cup {last} :
        Aim(l) \in EvidenceLinks /\ Aim(l).family = l.family /\ Aim(l).version = l.version /\ Aim(l).target = target
  BY <1>4, Aimed
<1> HIDE DEF Aim
<1>6. target <= target
  OBVIOUS
<1>7. \A n \in Relinked(f, links, target) : \E l \in kept \cup {last} : n = Aim(l)
  BY <1>1
<1>8. Relinked(f, links, target) \subseteq EvidenceLinks
  BY <1>5, <1>7
<1>9. \A n \in Relinked(f, links, target) : n.version \in DOMAIN evidence[n.family] /\ n.target <= target
  BY <1>4, <1>5, <1>6, <1>7
<1>10. ASSUME NEW m \in Relinked(f, links, target), NEW n \in Relinked(f, links, target), m.family = n.family
       PROVE  m = n
  <2>1. PICK k \in kept \cup {last} : m = Aim(k)
    BY <1>7
  <2>2. PICK l \in kept \cup {last} : n = Aim(l)
    BY <1>7
  <2> QED  BY <1>4, <1>5, <1>10, <2>1, <2>2
<1> QED  BY <1>8, <1>9, <1>10 DEF LinksStand

(* The evidence grows, and is judged. *)
EvidenceGrows == \A f \in Families : DOMAIN evidence[f] \subseteq DOMAIN evidence'[f]

LEMMA EvidenceCreated ==
  ASSUME EvidenceHeld, NEW who \in Staff, NEW f \in Families, EvidenceCreate(who, f)
  PROVE  EvidenceHeld' /\ EvidenceGrows
<1> DEFINE R == [by : Staff, adequacy : Adequacies]
           more == Append(evidence[f], [by |-> who, adequacy |-> "PENDING"])
<1>1. evidence' = [evidence EXCEPT ![f] = more]
  BY DEF EvidenceCreate
<1>2. evidence \in [Families -> Seq(R)]
  BY DEF EvidenceHeld
<1>3. [by |-> who, adequacy |-> "PENDING"] \in R
  BY DEF Adequacies
<1>4. more \in Seq(R) /\ DOMAIN evidence[f] \subseteq DOMAIN more
  <2> DEFINE e == [by |-> who, adequacy |-> "PENDING"]
  <2>1. e \in R /\ more = Append(evidence[f], e) /\ evidence[f] \in Seq(R)
    BY <1>2, <1>3
  <2> HIDE DEF e, R, more
  <2>2. /\ more \in Seq(R) /\ Len(more) = Len(evidence[f]) + 1
        /\ Len(evidence[f]) \in Nat /\ DOMAIN evidence[f] = 1..Len(evidence[f])
    BY <2>1, AppendProperties, LenProperties
  <2>3. DOMAIN more = 1..Len(more)
    BY <2>2, LenProperties
  <2> QED  BY <2>2, <2>3
<1> HIDE DEF R, more
<1>5. evidence' \in [Families -> Seq(R)]
  BY <1>1, <1>2, <1>4
<1>6. EvidenceGrows
  BY <1>1, <1>2, <1>4 DEF EvidenceGrows
<1> QED  BY <1>5, <1>6 DEF EvidenceHeld, R, Adequacies

LEMMA EvidenceJudged ==
  ASSUME EvidenceHeld, NEW who, NEW f \in Families, NEW adequacy \in Adequacies,
         EvidenceReview(who, f, adequacy)
  PROVE  EvidenceHeld' /\ EvidenceGrows
<1> DEFINE R == [by : Staff, adequacy : Adequacies]
           n == Len(evidence[f])
           row == [evidence[f][n] EXCEPT !.adequacy = adequacy]
           judged == [evidence[f] EXCEPT ![n] = row]
<1>1. evidence[f] \in Seq(R) /\ n \in DOMAIN evidence[f] /\ evidence \in [Families -> Seq(R)]
  BY HeldFamily DEF EvidenceReview, EvidenceHeld
<1>2. evidence[f][n] \in R
  <2> HIDE DEF R
  <2> QED  BY <1>1, ElementOfSeq, LenProperties
<1>3. row \in R
  BY <1>2
<1>4. evidence' = [evidence EXCEPT ![f] = judged]
  BY DEF EvidenceReview
<1>5. judged \in Seq(R) /\ DOMAIN judged = DOMAIN evidence[f]
  <2> HIDE DEF R, row
  <2> QED  BY <1>1, <1>3, ExceptSeq, LenProperties
<1> HIDE DEF R, judged
<1>6. evidence' \in [Families -> Seq(R)]
  BY <1>1, <1>4, <1>5
<1>7. EvidenceGrows
  BY <1>1, <1>4, <1>5 DEF EvidenceGrows
<1> QED  BY <1>6, <1>7 DEF EvidenceHeld, R, Adequacies

----
(* Reviews and their notes.                                                 *)
LEMMA NoteIsFormed ==
  ASSUME NEW subs, NEW s \in DOMAIN subs, NEW about
  PROVE  NoteForm(subs, Note(s, about))
BY DEF NoteForm, Note

LEMMA ReviewsNow ==
  ASSUME IsList(notes'), \A n \in DOMAIN notes' : NoteForm(submissions', notes'[n]),
         \A s \in DOMAIN submissions' : DecidedBy(submissions'[s])
  PROVE  ReviewsHold'
BY DEF ReviewsHold, IsList, NoteForm, DecidedBy

LEMMA ReviewsUntouched ==
  ASSUME ReviewsHold, UNCHANGED <<submissions, notes>>
  PROVE  ReviewsHold'
BY DEF ReviewsHold, IsList, NoteForm, DecidedBy

(* A submission is made, which nobody has decided.                          *)
LEMMA ReviewAsked ==
  ASSUME ReviewsHold, IsList(submissions), NEW u, u.decision = "NONE", u.reviewer = Nobody,
         Submit(u), UNCHANGED notes
  PROVE  ReviewsHold'
<1> DEFINE n == Len(submissions) + 1
<1>1. /\ DOMAIN submissions' = DOMAIN submissions \cup {n} /\ n \notin DOMAIN submissions
      /\ \A k \in DOMAIN submissions : submissions'[k] = submissions[k]
      /\ submissions'[n] = u
  BY Longer DEF Submit
<1> HIDE DEF n
<1>2. \A s \in DOMAIN submissions' : DecidedBy(submissions'[s])
  BY <1>1 DEF ReviewsHold, DecidedBy
<1>3. IsList(notes')
  BY DEF ReviewsHold
<1>4. \A k \in DOMAIN notes' : NoteForm(submissions', notes'[k])
  BY <1>1 DEF ReviewsHold, NoteForm
<1> QED  BY <1>2, <1>3, <1>4, ReviewsNow

(* A submission is decided by somebody, and the notes are those it makes.   *)
LEMMA ReviewGiven ==
  ASSUME ReviewsHold, SubmissionsForm(submissions), NEW s \in DOMAIN submissions, NEW who \in Staff,
         NEW decision \in {"ACCEPT", "RETURN"}, Decided(s, decision, who),
         IsList(notes'), \A n \in DOMAIN notes' : NoteForm(submissions, notes'[n])
  PROVE  ReviewsHold'
<1>1. /\ DOMAIN submissions' = DOMAIN submissions
      /\ \A k \in DOMAIN submissions : k # s => submissions'[k] = submissions[k]
      /\ submissions'[s].decision = decision /\ submissions'[s].reviewer = who
  BY DecisionForm
<1>2. who # Nobody
  BY StaffAreSomebody DEF Staff
<1>3. DecidedBy(submissions'[s])
  BY <1>1, <1>2 DEF DecidedBy
<1>4. \A k \in DOMAIN submissions' : DecidedBy(submissions'[k])
  BY <1>1, <1>3 DEF ReviewsHold
<1>5. \A n \in DOMAIN notes' : NoteForm(submissions', notes'[n])
  BY <1>1 DEF NoteForm
<1> QED  BY <1>4, <1>5, ReviewsNow

LEMMA NoteTaken ==
  ASSUME ReviewsHold, NEW s \in DOMAIN submissions, NEW about, notes' = Append(notes, Note(s, about))
  PROVE  IsList(notes') /\ \A n \in DOMAIN notes' : NoteForm(submissions, notes'[n])
<1> DEFINE e == Note(s, about)  n == Len(notes) + 1
<1>1. NoteForm(submissions, e)
  BY NoteIsFormed
<1>2. IsList(notes) /\ \A k \in DOMAIN notes : NoteForm(submissions, notes[k])
  BY DEF ReviewsHold
<1> HIDE DEF e
<1>3. /\ IsList(notes') /\ DOMAIN notes' = DOMAIN notes \cup {n} /\ notes'[n] = e
      /\ \A k \in DOMAIN notes : notes'[k] = notes[k]
  BY <1>2, Longer DEF e
<1> HIDE DEF n
<1> QED  BY <1>1, <1>2, <1>3

LEMMA ReviewAnswered ==
  ASSUME ReviewsHold, SubmissionsForm(submissions), NEW s \in DOMAIN submissions, NEW who \in Staff,
         NEW decision \in {"ACCEPT", "RETURN"}, Decided(s, decision, who), NoteUnlessAccepted(s, decision)
  PROVE  ReviewsHold'
<1>1. CASE notes' = notes
  BY <1>1, ReviewGiven DEF ReviewsHold
<1>2. CASE notes' = Append(notes, Note(s, Nobody))
  <2>1. IsList(notes') /\ \A n \in DOMAIN notes' : NoteForm(submissions, notes'[n])
    BY <1>2, NoteTaken
  <2> QED  BY <2>1, ReviewGiven
<1> QED  BY <1>1, <1>2 DEF NoteUnlessAccepted

(* The elements of a finite set make a sequence.                            *)
LEMMA SetIsASequence ==
  ASSUME NEW S, IsFiniteSet(S)
  PROVE  SetToSeq(S) \in Seq(S)
<1> DEFINE n == Cardinality(S)
<1>1. n \in Nat /\ ExistsBijection(1..n, S)
  BY FS_CardinalityType
<1>2. \E f \in [1..n -> S] : IsInjective(f)
  BY <1>1 DEF ExistsBijection, Bijection, Injection
<1>3. SetToSeq(S) \in [1..n -> S]
  BY <1>2 DEF SetToSeq
<1> HIDE DEF n
<1> QED  BY <1>1, <1>3, SeqDef

LEMMA NotesTaken ==
  ASSUME ReviewsHold, NEW s \in DOMAIN submissions, NEW chosen, IsFiniteSet({Note(s, p) : p \in chosen}),
         notes' = notes \o SetToSeq({Note(s, p) : p \in chosen})
  PROVE  IsList(notes') /\ \A n \in DOMAIN notes' : NoteForm(submissions, notes'[n])
<1> DEFINE T == {Note(s, p) : p \in chosen}
           more == SetToSeq(T)
           S == Range(notes) \cup T
<1>1. more \in Seq(T) /\ notes' = notes \o more
  BY SetIsASequence
<1>2. notes \in Seq(Range(notes)) /\ \A k \in DOMAIN notes : NoteForm(submissions, notes[k])
  BY DEF ReviewsHold, IsList
<1>3. \A e \in Range(notes) : NoteForm(submissions, e)
  BY <1>2 DEF Range
<1>4. \A e \in T : NoteForm(submissions, e)
  BY NoteIsFormed
<1>5. \A e \in S : NoteForm(submissions, e)
  BY <1>3, <1>4
<1>6. notes \in Seq(S) /\ more \in Seq(S)
  <2>1. Range(notes) \subseteq S /\ T \subseteq S
    OBVIOUS
  <2> HIDE DEF S, T, more
  <2> QED  BY <1>1, <1>2, <2>1, SeqMonotonic
<1> HIDE DEF S, more, T
<1>7. notes' \in Seq(S)
  BY <1>1, <1>6, ConcatProperties
<1>8. \A k \in DOMAIN notes' : notes'[k] \in S
  BY <1>7, ElementOfSeq, LenProperties
<1>9. IsList(notes')
  BY <1>7, SequencesAreLists
<1> QED  BY <1>5, <1>8, <1>9

(* The preparer answers a note, and its reviewer closes it.                 *)
LEMMA NoteWritten ==
  ASSUME ReviewsHold, NEW n \in DOMAIN notes, NEW e, NoteForm(submissions, e),
         notes' = [notes EXCEPT ![n] = e], UNCHANGED submissions
  PROVE  ReviewsHold'
<1>1. IsList(notes) /\ \A k \in DOMAIN notes : NoteForm(submissions, notes[k])
  BY DEF ReviewsHold
<1>2. /\ IsList(notes') /\ DOMAIN notes' = DOMAIN notes /\ notes'[n] = e
      /\ \A k \in DOMAIN notes : k # n => notes'[k] = notes[k]
  BY <1>1, ListWritten
<1>3. \A k \in DOMAIN notes' : NoteForm(submissions', notes'[k])
  BY <1>1, <1>2
<1> QED  BY <1>2, <1>3, ReviewsNow DEF ReviewsHold

LEMMA NoteMoves ==
  ASSUME ReviewsHold, NEW n \in DOMAIN notes, NoteRespond(n) \/ \E s \in DOMAIN submissions : NoteClose(n, s)
  PROVE  ReviewsHold'
<1> DEFINE r == notes[n]
<1>1. IsList(notes) /\ NoteForm(submissions, r)
  BY DEF ReviewsHold
<1>2. notes = [k \in DOMAIN notes |-> notes[k]]
  BY <1>1, ListLength
<1>3. CASE NoteRespond(n)
  <2> DEFINE after == Len(submissions)
             n1 == [r EXCEPT !.status = "RESPONDED"]
             n2 == [n1 EXCEPT !.after = after]
  <2>1. notes' = [notes EXCEPT ![n] = n2] /\ UNCHANGED submissions
    BY <1>2, <1>3 DEF NoteRespond
  <2> HIDE DEF r, after
  <2>2. NoteForm(submissions, n1)
    BY <1>1 DEF NoteForm
  <2> HIDE DEF n1
  <2>3. NoteForm(submissions, n2)
    BY <2>2 DEF NoteForm
  <2> HIDE DEF n2
  <2> QED  BY <2>1, <2>3, NoteWritten
<1>4. ASSUME NEW s, NoteClose(n, s)
      PROVE  ReviewsHold'
  <2> DEFINE n1 == [r EXCEPT !.status = "CLOSED"]
  <2>1. notes' = [notes EXCEPT ![n] = n1] /\ UNCHANGED submissions
    BY <1>2, <1>4 DEF NoteClose
  <2> HIDE DEF r
  <2>2. NoteForm(submissions, n1)
    BY <1>1 DEF NoteForm
  <2> HIDE DEF n1
  <2> QED  BY <2>1, <2>2, NoteWritten
<1> QED  BY <1>3, <1>4

LEMMA NobodyDecided ==
  ASSUME NEW kind, NEW item, NEW target, NEW who, NEW people
  PROVE  LET n == Submission(kind, item, target, who, people)
         IN SubmissionForm(n) /\ n.decision = "NONE" /\ n.reviewer = Nobody
BY DEF Submission, SubmissionForm

LEMMA ProcedureAsked ==
  ASSUME ReviewsHold, IsList(submissions), NEW who, NEW p, ProcedureSubmission(who, p), UNCHANGED notes
  PROVE  ReviewsHold'
<1> DEFINE version == procedures[p].version + 1
           n == Submission("PROCEDURE", p, version, who, procedures[p].editors)
           x == Pins(procedures[p].links)
           y == SamplePins(p)
           u == WithSamples(n, x, y)
<1>1. Submit(u)
  BY DEF ProcedureSubmission, WithSamples
<1> HIDE DEF version
<1>2. SubmissionForm(n) /\ n.decision = "NONE" /\ n.reviewer = Nobody
  BY NobodyDecided
<1> HIDE DEF n, x, y
<1>3. u.decision = "NONE" /\ u.reviewer = Nobody
  BY <1>2, SubmissionSampled
<1> HIDE DEF u
<1> QED  BY <1>1, <1>3, ReviewAsked

LEMMA ProgramAsked ==
  ASSUME ReviewsHold, IsList(submissions), NEW who, WorkprogramSubmit(who)
  PROVE  ReviewsHold'
<1> DEFINE people == UNION {procedures[p].editors : p \in DOMAIN procedures}
           version == program.version + 1
           n == Submission("WORKPROGRAM", 1, version, who, people)
           u == WithVersions(n, Versions)
<1>1. Submit(u) /\ UNCHANGED notes
  BY DEF WorkprogramSubmit, WithVersions
<1> HIDE DEF people, version
<1>2. SubmissionForm(n) /\ n.decision = "NONE" /\ n.reviewer = Nobody
  BY NobodyDecided
<1> HIDE DEF n
<1>3. u.decision = "NONE" /\ u.reviewer = Nobody
  BY <1>2, SubmissionOf
<1> HIDE DEF u
<1> QED  BY <1>1, <1>3, ReviewAsked

LEMMA AnalysisAsked ==
  ASSUME ReviewsHold, IsList(submissions), NEW who, NEW n, AnalysisSubmit(who, n)
  PROVE  ReviewsHold'
<1> DEFINE version == analyses[n].version + 1
           people == {analyses[n].by}
           pins == Pins(analyses[n].links)
           made == Submission("ANALYTICAL_REVIEW", n, version, who, people)
           u == WithPins(made, pins)
<1>1. Submit(u) /\ UNCHANGED notes
  BY DEF AnalysisSubmit, WithPins
<1> HIDE DEF version, people, pins
<1>2. SubmissionForm(made) /\ made.decision = "NONE" /\ made.reviewer = Nobody
  BY NobodyDecided
<1> HIDE DEF made
<1>3. u.decision = "NONE" /\ u.reviewer = Nobody
  BY <1>2, SubmissionPinned
<1> HIDE DEF u
<1> QED  BY <1>1, <1>3, ReviewAsked

LEMMA ProcedureAnswered ==
  ASSUME ReviewsHold, SubmissionsForm(submissions), NEW s \in DOMAIN submissions, NEW who \in Staff,
         NEW decision \in {"ACCEPT", "RETURN"}, ProcedureReview(who, s, decision)
  PROVE  ReviewsHold'
<1>1. Decided(s, decision, who)
  BY DEF ProcedureReview
<1>2. CASE UNCHANGED notes
  BY <1>1, <1>2, ReviewGiven DEF ReviewsHold
<1>3. CASE notes' = Append(notes, Note(s, submissions[s].item))
  <2>1. IsList(notes') /\ \A n \in DOMAIN notes' : NoteForm(submissions, notes'[n])
    BY <1>3, NoteTaken
  <2> QED  BY <1>1, <2>1, ReviewGiven
<1> QED  BY <1>2, <1>3 DEF ProcedureReview

LEMMA ProgramReturned ==
  ASSUME ReviewsHold, SubmissionsForm(submissions), IsFiniteSet(DOMAIN procedures),
         NEW s \in DOMAIN submissions, NEW who \in Staff, NEW chosen \in SUBSET DOMAIN procedures,
         WorkprogramReturn(who, s, chosen)
  PROVE  ReviewsHold'
<1> DEFINE T == {Note(s, p) : p \in chosen}
           f == [p \in chosen |-> Note(s, p)]
<1>1. Decided(s, "RETURN", who) /\ notes' = notes \o SetToSeq({Note(s, p) : p \in chosen})
  BY DEF WorkprogramReturn
<1>2. IsFiniteSet(chosen)
  BY FS_Subset
<1>3. f \in Surjection(chosen, T)
  BY DEF Surjection
<1>4. IsFiniteSet(T)
  <2> HIDE DEF T, f
  <2> QED  BY <1>2, <1>3, FS_Surjection
<1>5. IsList(notes') /\ \A n \in DOMAIN notes' : NoteForm(submissions, notes'[n])
  BY <1>1, <1>4, NotesTaken
<1> QED  BY <1>1, <1>5, ReviewGiven

LEMMA ReviewsKept ==
  ASSUME ReviewsHold, WorkInv, IsFiniteSet(DOMAIN procedures), FieldworkNext
  PROVE  ReviewsHold'
<1>1. SubmissionsForm(submissions) /\ IsList(submissions)
  BY WorkParts
<1>2. CASE UNCHANGED <<submissions, notes>>
  BY <1>2, ReviewsUntouched
<1>3. CASE EvidenceNext \/ SampleNext
  BY <1>2, <1>3 DEF EvidenceNext, SampleNext, reviewVars
<1>4. CASE ProcedureNext
  <2>1. ASSUME NEW who \in Staff, NEW p \in DOMAIN procedures,
               ProcedureNotApplicable(who, p) \/ ProcedureSubmit(who, p)
        PROVE  ReviewsHold'
    BY <1>1, <2>1, ProcedureAsked DEF ProcedureNotApplicable, ProcedureSubmit
  <2> QED  BY <1>2, <1>4, <2>1 DEF ProcedureNext, WorkprogramProvision, ProcedureInsert, ProcedureUpdate, reviewVars
<1>5. CASE StatementNext
  <2>1. ASSUME NEW who \in Staff, NEW n \in DOMAIN analyses, AnalysisSubmit(who, n)
        PROVE  ReviewsHold'
    BY <1>1, <2>1, AnalysisAsked
  <2>2. ASSUME NEW who \in Staff, NEW s \in DOMAIN submissions, NEW decision \in {"ACCEPT", "RETURN"},
               AnalysisReview(who, s, decision)
        PROVE  ReviewsHold'
    BY <1>1, <2>2, ReviewAnswered DEF AnalysisReview
  <2> QED  BY <1>2, <1>5, <2>1, <2>2 DEF StatementNext, AnalysisReviewNext, reviewVars
<1>6. CASE ReviewNext
  <2>1. ASSUME NEW who \in Staff, WorkprogramSubmit(who)
        PROVE  ReviewsHold'
    BY <1>1, <2>1, ProgramAsked
  <2>2. ASSUME NEW who \in Staff, GoingConcernSave(who)
        PROVE  ReviewsHold'
    BY <1>2, <2>2 DEF GoingConcernSave, reviewVars
  <2>3. ASSUME NEW who \in Staff, NEW g \in DOMAIN assessments, GoingConcernSubmit(who, g)
        PROVE  ReviewsHold'
    <3> DEFINE version == assessments[g].version + 1
               people == {assessments[g].by}
               u == Submission("GOING_CONCERN", g, version, who, people)
    <3>1. Submit(u) /\ UNCHANGED notes
      BY <2>3 DEF GoingConcernSubmit
    <3> HIDE DEF version, people
    <3>2. u.decision = "NONE" /\ u.reviewer = Nobody
      BY NobodyDecided
    <3> HIDE DEF u
    <3> QED  BY <1>1, <3>1, <3>2, ReviewAsked
  <2>4. ASSUME NEW who \in Staff, NEW r \in DOMAIN srms, SrmSubmit(who, r)
        PROVE  ReviewsHold'
    <3> DEFINE u == Submission("SRM", r, r, who, {})
    <3>1. Submit(u) /\ UNCHANGED notes
      BY <2>4 DEF SrmSubmit
    <3>2. u.decision = "NONE" /\ u.reviewer = Nobody
      BY NobodyDecided
    <3> HIDE DEF u
    <3> QED  BY <1>1, <3>1, <3>2, ReviewAsked
  <2>5. ASSUME NEW who \in Staff, NEW s \in DOMAIN submissions, NEW decision \in {"ACCEPT", "RETURN"},
               ProcedureReview(who, s, decision)
        PROVE  ReviewsHold'
    BY <1>1, <2>5, ProcedureAnswered
  <2>6. ASSUME NEW who \in Staff, NEW s \in DOMAIN submissions, NEW decision \in {"ACCEPT", "RETURN"},
               GoingConcernReview(who, s, decision)
        PROVE  ReviewsHold'
    BY <1>1, <2>6, ReviewAnswered DEF GoingConcernReview
  <2>7. ASSUME NEW who \in Staff, NEW s \in DOMAIN submissions, WorkprogramAccept(who, s)
        PROVE  ReviewsHold'
    <3>1. Decided(s, "ACCEPT", who) /\ notes' = notes
      BY <2>7 DEF WorkprogramAccept
    <3> QED  BY <1>1, <3>1, ReviewGiven DEF ReviewsHold
  <2>8. ASSUME NEW who \in Staff, NEW s \in DOMAIN submissions, NEW chosen \in SUBSET DOMAIN procedures,
               WorkprogramReturn(who, s, chosen)
        PROVE  ReviewsHold'
    BY <1>1, <2>8, ProgramReturned
  <2>9. ASSUME NEW n \in DOMAIN notes, NoteRespond(n) \/ \E s \in DOMAIN submissions : NoteClose(n, s)
        PROVE  ReviewsHold'
    BY <2>9, NoteMoves
  <2> QED  BY <1>6, <2>1, <2>2, <2>3, <2>4, <2>5, <2>6, <2>7, <2>8, <2>9 DEF ReviewNext
<1>7. CASE HandoverNext
  BY <1>2, <1>7 DEF HandoverNext, HandoverToManager, HandoverToPartner, PartnerClearArea, SrmCompile, SrmClear,
                    fieldVars, reviewVars
<1> QED  BY <1>3, <1>4, <1>5, <1>6, <1>7 DEF FieldworkNext

----
(* Samples: a plan, its rows and their tests.                               *)
TestRow(t) == t = [version |-> t.version, tested |-> t.tested, evidence |-> t.evidence, links |-> t.links]

LEMMA SamplesNow ==
  ASSUME policy' \in PolicyStates, population' \in BOOLEAN,
         plans' # <<>> => population' /\ policy' \in {"ACTIVE", "RETIRED"},
         IsList(plans'), \A n \in DOMAIN plans' : PlanForm(evidence', plans'[n])
  PROVE  SamplesHold'
BY DEF SamplesHold, IsList, PlanForm, TestForm, LinksStand

LEMMA SamplesOutlive ==
  ASSUME SamplesHold, EvidenceGrows, UNCHANGED samplingVars
  PROVE  SamplesHold'
<1>1. \A links, version : LinksStand(evidence, links, version) => LinksStand(evidence', links, version)
  BY LinksOutlive DEF EvidenceGrows
<1>2. \A t : TestForm(evidence, t) => TestForm(evidence', t)
  BY <1>1 DEF TestForm
<1>3. \A r : PlanForm(evidence, r) => PlanForm(evidence', r)
  BY <1>2 DEF PlanForm
<1>4. UNCHANGED <<policy, population, plans>>
  BY DEF samplingVars
<1>5. \A n \in DOMAIN plans' : PlanForm(evidence', plans'[n])
  BY <1>3, <1>4 DEF SamplesHold
<1> QED  BY <1>4, <1>5, SamplesNow DEF SamplesHold

LEMMA PlanWritten ==
  ASSUME SamplesHold, NEW n \in DOMAIN plans, NEW e, PlanForm(evidence, e),
         plans' = [plans EXCEPT ![n] = e], UNCHANGED <<policy, population, evidence>>
  PROVE  SamplesHold'
<1>1. IsList(plans) /\ \A k \in DOMAIN plans : PlanForm(evidence, plans[k])
  BY DEF SamplesHold
<1>2. /\ IsList(plans') /\ DOMAIN plans' = DOMAIN plans /\ plans'[n] = e
      /\ \A k \in DOMAIN plans : k # n => plans'[k] = plans[k]
  BY <1>1, ListWritten
<1>3. \A k \in DOMAIN plans' : PlanForm(evidence', plans'[k])
  BY <1>1, <1>2
<1>4. plans # <<>>
  BY NothingIsAList
<1> QED  BY <1>2, <1>3, <1>4, SamplesNow DEF SamplesHold

LEMMA PlanAdded ==
  ASSUME SamplesHold, NEW procedure, NEW drawn \in SUBSET Rows, NEW open, SamplingPlan(procedure, drawn, open),
         UNCHANGED evidence
  PROVE  SamplesHold'
<1> DEFINE tests == [r \in drawn |-> Untested]
           e == [procedure |-> procedure, rows |-> drawn, tests |-> tests, evaluation |-> Unevaluated]
           n == Len(plans) + 1
<1>1. /\ plans' = Append(plans, e) /\ drawn # {} /\ population /\ policy = "ACTIVE"
      /\ UNCHANGED <<policy, population>>
  BY DEF SamplingPlan
<1>2. IsList(plans) /\ \A k \in DOMAIN plans : PlanForm(evidence, plans[k])
  BY DEF SamplesHold
<1>3. TestForm(evidence, Untested)
  <2> DEFINE no == FALSE
  <2>1. Untested = [version |-> 0, tested |-> no, evidence |-> Nothing, links |-> {}] /\ ~no
    BY DEF Untested
  <2>2. LinksStand(evidence, {}, 0)
    BY NoLinksStand
  <2>3. 0 \in 0..MaxTests
    BY SamplingBounds
  <2> HIDE DEF no
  <2> QED  BY <2>1, <2>2, <2>3 DEF TestForm
<1>4. PlanForm(evidence, e)
  <2>1. \A k \in drawn : TestForm(evidence, tests[k])
    BY <1>3
  <2>2. tests = [k \in drawn |-> tests[k]]
    OBVIOUS
  <2> HIDE DEF tests
  <2>3. e.evaluation.result = "NONE"
    BY DEF Unevaluated
  <2>4. e.procedure = procedure /\ e.rows = drawn /\ e.tests = tests /\ e.evaluation = Unevaluated
    OBVIOUS
  <2>5. e = [procedure |-> e.procedure, rows |-> e.rows, tests |-> e.tests, evaluation |-> e.evaluation]
    OBVIOUS
  <2> HIDE DEF e
  <2> QED  BY <1>1, <2>1, <2>2, <2>3, <2>4, <2>5 DEF PlanForm
<1> HIDE DEF e
<1>5. /\ IsList(plans') /\ DOMAIN plans' = DOMAIN plans \cup {n} /\ plans'[n] = e
      /\ \A k \in DOMAIN plans : plans'[k] = plans[k]
  BY <1>1, <1>2, Longer
<1> HIDE DEF n
<1>6. \A k \in DOMAIN plans' : PlanForm(evidence', plans'[k])
  BY <1>2, <1>4, <1>5
<1> QED  BY <1>1, <1>5, <1>6, SamplesNow DEF SamplesHold

(* A test is written, and its version is raised.                            *)
LEMMA TestWritten ==
  ASSUME SamplesHold, NEW n \in DOMAIN plans, NEW r \in plans[n].rows, NEW test, TestRow(test),
         test.tested <=> test.evidence # Nothing,
         LinksStand(evidence, test.links, plans[n].tests[r].version + 1),
         TestBecomes(n, r, test), UNCHANGED evidence
  PROVE  SamplesHold'
<1> DEFINE old == plans[n]
           version == old.tests[r].version + 1
           new == [test EXCEPT !.version = version]
           tests == [old.tests EXCEPT ![r] = new]
           e == [old EXCEPT !.tests = tests]
<1>1. IsList(plans) /\ PlanForm(evidence, old)
  BY DEF SamplesHold
<1>2. plans = [k \in DOMAIN plans |-> plans[k]]
  BY <1>1, ListLength
<1>3. old = [procedure |-> old.procedure, rows |-> old.rows, tests |-> old.tests, evaluation |-> old.evaluation]
  BY <1>1 DEF PlanForm
<1>4. old.tests = [k \in old.rows |-> old.tests[k]] /\ \A k \in old.rows : TestForm(evidence, old.tests[k])
  BY <1>1 DEF PlanForm
<1>5. /\ plans' = [plans EXCEPT ![n].tests[r] = new] /\ plans[n].tests[r].version < MaxTests
      /\ UNCHANGED <<policy, population>>
  BY DEF TestBecomes
<1>6. plans' = [plans EXCEPT ![n] = e]
  BY <1>2, <1>3, <1>4, <1>5
<1>7. version \in 0..MaxTests
  <2>1. plans[n].tests[r].version \in 0..MaxTests
    BY <1>4 DEF TestForm
  <2> QED  BY <1>5, <2>1, SamplingBounds
<1>8. TestForm(evidence, new)
  <2>1. LinksStand(evidence, test.links, version)
    OBVIOUS
  <2> HIDE DEF version
  <2>2. new = [version |-> version, tested |-> test.tested, evidence |-> test.evidence, links |-> test.links]
    BY DEF TestRow
  <2> HIDE DEF new
  <2>3. new.version = version /\ new.tested = test.tested /\ new.evidence = test.evidence /\ new.links = test.links
    BY <2>2
  <2>4. new = [version |-> new.version, tested |-> new.tested, evidence |-> new.evidence, links |-> new.links]
    BY <2>2, <2>3
  <2> QED  BY <1>7, <2>1, <2>3, <2>4 DEF TestForm
<1> HIDE DEF new, version
<1>9. tests = [k \in old.rows |-> tests[k]] /\ \A k \in old.rows : TestForm(evidence, tests[k])
  BY <1>4, <1>8
<1>10. PlanForm(evidence, e)
  <2>1. /\ old.rows \subseteq Rows /\ old.rows # {}
        /\ old.evaluation.result \in Outcomes \cup {"NONE", "INCOMPLETE"}
    BY <1>1 DEF PlanForm
  <2> HIDE DEF old, tests
  <2>2. e = [procedure |-> old.procedure, rows |-> old.rows, tests |-> tests, evaluation |-> old.evaluation]
    BY <1>3
  <2> HIDE DEF e
  <2>3. e.procedure = old.procedure /\ e.rows = old.rows /\ e.tests = tests /\ e.evaluation = old.evaluation
    BY <2>2
  <2>4. e = [procedure |-> e.procedure, rows |-> e.rows, tests |-> e.tests, evaluation |-> e.evaluation]
    BY <2>2, <2>3
  <2> QED  BY <1>9, <2>1, <2>3, <2>4 DEF PlanForm
<1> HIDE DEF e
<1> QED  BY <1>5, <1>6, <1>10, PlanWritten

LEMMA TestRested ==
  ASSUME NEW test, TestRow(test), NEW f, NEW links
  PROVE  LET n == OnEvidence(test, f, links)
         IN /\ TestRow(n) /\ n.tested /\ n.links = links
            /\ n.evidence = [family |-> f, version |-> Len(evidence[f])]
<1> DEFINE yes == TRUE
           rest == [family |-> f, version |-> Len(evidence[f])]
           n1 == [test EXCEPT !.tested = yes]
           n2 == [n1 EXCEPT !.links = links]
           n3 == [n2 EXCEPT !.evidence = rest]
           n == OnEvidence(test, f, links)
<1>0. n = n3 /\ yes
  BY DEF OnEvidence
<1>1. test = [version |-> test.version, tested |-> test.tested, evidence |-> test.evidence, links |-> test.links]
  BY DEF TestRow
<1> HIDE DEF yes, rest
<1>2. n1 = [version |-> test.version, tested |-> yes, evidence |-> test.evidence, links |-> test.links]
  BY <1>1
<1>3. n2 = [version |-> test.version, tested |-> yes, evidence |-> test.evidence, links |-> links]
  <2> HIDE DEF n1
  <2> QED  BY <1>2
<1>4. n3 = [version |-> test.version, tested |-> yes, evidence |-> rest, links |-> links]
  <2> HIDE DEF n1, n2
  <2> QED  BY <1>3
<1> HIDE DEF n1, n2, n3, n
<1>5. n = [version |-> test.version, tested |-> yes, evidence |-> rest, links |-> links]
  BY <1>0, <1>4
<1>6. TestRow(n) /\ n.tested = yes /\ n.links = links /\ n.evidence = rest
  BY <1>5 DEF TestRow
<1>7. n.tested
  BY <1>0, <1>6
<1> QED  BY <1>6, <1>7 DEF n, rest

LEMMA SomethingRested ==
  ASSUME EvidenceHeld, NEW f \in Families, evidence[f] # <<>>
  PROVE  [family |-> f, version |-> Len(evidence[f])] # Nothing
<1>1. Len(evidence[f]) # 0
  BY HeldFamily
<1> DEFINE e == [family |-> f, version |-> Len(evidence[f])]
<1>2. e.version # 0
  BY <1>1
<1>3. Nothing.version = 0
  BY DEF Nothing
<1> QED  BY <1>2, <1>3

LEMMA UntestedRow == TestRow(Untested) /\ ~Untested.tested /\ Untested.evidence = Nothing /\ Untested.links = {}
BY DEF TestRow, Untested

LEMMA SamplesWork ==
  ASSUME EvidenceHeld, SamplesHold, NEW n \in DOMAIN plans, NEW r \in plans[n].rows, UNCHANGED evidence
  PROVE  /\ \A f \in Families : \A open : SampleTest(n, r, f, open) => SamplesHold'
         /\ \A open : SampleUntest(n, r, open) => SamplesHold'
         /\ \A f \in Families : SampleLink(n, r, f) => SamplesHold'
         /\ \A link : SampleUnlink(n, r, link) => SamplesHold'
<1> DEFINE test == plans[n].tests[r]
           next == test.version + 1
<1>1. TestForm(evidence, test)
  BY DEF SamplesHold, PlanForm
<1>2. test.version \in Nat /\ next \in Nat /\ test.version <= next
  BY <1>1, SamplingBounds DEF TestForm
<1>3. TestRow(test) /\ LinksStand(evidence, test.links, test.version)
  BY <1>1 DEF TestForm, TestRow
<1>4. ASSUME NEW f \in Families, NEW open, SampleTest(n, r, f, open)
      PROVE  SamplesHold'
  <2> DEFINE links == Relinked(f, {}, next)
             new == OnEvidence(Untested, f, links)
  <2>1. TestBecomes(n, r, new) /\ evidence[f] # <<>>
    BY <1>4 DEF SampleTest
  <2>2. LinksStand(evidence, links, next)
    <3>1. LinksStand(evidence, {}, next)
      BY NoLinksStand
    <3> HIDE DEF next
    <3> QED  BY <1>2, <2>1, <3>1, RelinkedStand
  <2> HIDE DEF links
  <2>3. /\ TestRow(new) /\ new.tested /\ new.links = links
        /\ new.evidence = [family |-> f, version |-> Len(evidence[f])]
    BY UntestedRow, TestRested
  <2>4. new.evidence # Nothing
    BY <2>1, <2>3, SomethingRested
  <2> HIDE DEF new
  <2> QED  BY <2>1, <2>2, <2>3, <2>4, TestWritten
<1>5. ASSUME NEW open, SampleUntest(n, r, open)
      PROVE  SamplesHold'
  <2>1. TestBecomes(n, r, Untested)
    BY <1>5 DEF SampleUntest
  <2>2. LinksStand(evidence, {}, next)
    BY NoLinksStand
  <2> QED  BY <2>1, <2>2, UntestedRow, TestWritten
<1>6. ASSUME NEW f \in Families, SampleLink(n, r, f)
      PROVE  SamplesHold'
  <2> DEFINE links == Relinked(f, test.links, next)
             new == OnEvidence(test, f, links)
  <2>1. TestBecomes(n, r, new) /\ evidence[f] # <<>>
    BY <1>6 DEF SampleLink, Linkable
  <2>2. LinksStand(evidence, links, next)
    <3> HIDE DEF next, test
    <3> QED  BY <1>2, <1>3, <2>1, RelinkedStand
  <2> HIDE DEF links
  <2>3. /\ TestRow(new) /\ new.tested /\ new.links = links
        /\ new.evidence = [family |-> f, version |-> Len(evidence[f])]
    <3> HIDE DEF test
    <3> QED  BY <1>3, TestRested
  <2>4. new.evidence # Nothing
    BY <2>1, <2>3, SomethingRested
  <2> HIDE DEF new
  <2> QED  BY <2>1, <2>2, <2>3, <2>4, TestWritten
<1>7. ASSUME NEW link, SampleUnlink(n, r, link)
      PROVE  SamplesHold'
  <2> DEFINE links == test.links \ {link}
             new == [Untested EXCEPT !.links = links]
  <2>1. TestBecomes(n, r, new)
    BY <1>7 DEF SampleUnlink
  <2>2. LinksStand(evidence, links, next)
    <3> HIDE DEF next, test
    <3> QED  BY <1>2, <1>3, FewerLinksStand
  <2> HIDE DEF links
  <2>3. TestRow(new) /\ ~new.tested /\ new.evidence = Nothing /\ new.links = links
    <3> DEFINE no == FALSE
    <3>1. Untested = [version |-> 0, tested |-> no, evidence |-> Nothing, links |-> {}] /\ ~no
      BY DEF Untested
    <3> HIDE DEF no
    <3>2. new = [version |-> 0, tested |-> no, evidence |-> Nothing, links |-> links]
      BY <3>1
    <3> HIDE DEF new
    <3>3. TestRow(new) /\ new.tested = no /\ new.evidence = Nothing /\ new.links = links
      BY <3>2 DEF TestRow
    <3> QED  BY <3>1, <3>3
  <2> HIDE DEF new
  <2> QED  BY <2>1, <2>2, <2>3, TestWritten
<1> QED  BY <1>4, <1>5, <1>6, <1>7

LEMMA SampleJudged ==
  ASSUME SamplesHold, NEW n \in DOMAIN plans, NEW outcome \in Outcomes, NEW open, SampleEvaluate(n, outcome, open),
         UNCHANGED evidence
  PROVE  SamplesHold'
<1> DEFINE old == plans[n]
           result == IF AllTested(n) THEN outcome ELSE "INCOMPLETE"
           judged == [tests |-> TestVersions(n), result |-> result]
           e == [old EXCEPT !.evaluation = judged]
<1>1. IsList(plans) /\ PlanForm(evidence, old)
  BY DEF SamplesHold
<1>2. plans = [k \in DOMAIN plans |-> plans[k]]
  BY <1>1, ListLength
<1>3. plans' = [plans EXCEPT ![n].evaluation = judged] /\ UNCHANGED <<policy, population>>
  BY DEF SampleEvaluate
<1>4. plans' = [plans EXCEPT ![n] = e]
  BY <1>2, <1>3
<1>5. judged.result \in Outcomes \cup {"NONE", "INCOMPLETE"}
  OBVIOUS
<1>6. PlanForm(evidence, e)
  <2>1. old = [procedure |-> old.procedure, rows |-> old.rows, tests |-> old.tests, evaluation |-> old.evaluation]
    BY <1>1 DEF PlanForm
  <2> HIDE DEF old, judged
  <2>2. e = [procedure |-> old.procedure, rows |-> old.rows, tests |-> old.tests, evaluation |-> judged]
    BY <2>1
  <2> HIDE DEF e
  <2>3. e.procedure = old.procedure /\ e.rows = old.rows /\ e.tests = old.tests /\ e.evaluation = judged
    BY <2>2
  <2>4. e = [procedure |-> e.procedure, rows |-> e.rows, tests |-> e.tests, evaluation |-> e.evaluation]
    BY <2>2, <2>3
  <2> QED  BY <1>1, <1>5, <2>3, <2>4 DEF PlanForm
<1> HIDE DEF e
<1> QED  BY <1>3, <1>4, <1>6, PlanWritten

LEMMA PolicyMoves ==
  ASSUME SamplesHold, UNCHANGED evidence, SamplingPolicyNext
  PROVE  SamplesHold'
<1>0. /\ policy \in PolicyStates /\ population \in BOOLEAN
      /\ plans # <<>> => population /\ policy \in {"ACTIVE", "RETIRED"}
      /\ IsList(plans) /\ \A n \in DOMAIN plans : PlanForm(evidence, plans[n])
  BY DEF SamplesHold
<1>1. UNCHANGED plans
  BY DEF SamplingPolicyNext, PolicyCreate, PolicyTakesEffect, PopulationCreate, PolicyRetire, PolicyApprove
<1>2. /\ policy' \in PolicyStates /\ population' \in BOOLEAN
      /\ plans' # <<>> => population' /\ policy' \in {"ACTIVE", "RETIRED"}
  BY <1>0, <1>1
  DEF SamplingPolicyNext, PolicyCreate, PolicyTakesEffect, PopulationCreate, PolicyRetire, PolicyApprove, PolicyStates
<1> QED  BY <1>0, <1>1, <1>2, SamplesNow

LEMMA EvidenceKept ==
  ASSUME EvidenceHeld, FieldworkNext
  PROVE  EvidenceHeld' /\ EvidenceGrows
<1>1. CASE UNCHANGED evidence
  BY <1>1 DEF EvidenceHeld, EvidenceGrows, Adequacies, Staff
<1>2. ASSUME NEW who \in Staff, NEW f \in Families, EvidenceCreate(who, f)
      PROVE  EvidenceHeld' /\ EvidenceGrows
  BY <1>2, EvidenceCreated
<1>3. ASSUME NEW who \in Staff, NEW f \in Families, NEW adequacy \in Adequacies \ {"PENDING"},
             EvidenceReview(who, f, adequacy)
      PROVE  EvidenceHeld' /\ EvidenceGrows
  BY <1>3, EvidenceJudged
<1>4. CASE EvidenceNext
  <2>1. \/ UNCHANGED evidence
        \/ \E who \in Staff, f \in Families :
             \/ EvidenceCreate(who, f)
             \/ \E adequacy \in Adequacies \ {"PENDING"} : EvidenceReview(who, f, adequacy)
    BY <1>4 DEF EvidenceNext
  <2> QED  BY <1>1, <1>2, <1>3, <2>1
<1>5. CASE ProcedureNext \/ SampleNext \/ StatementNext \/ ReviewNext \/ HandoverNext
  BY <1>1, <1>5 DEF ProcedureNext, SampleNext, StatementNext, ReviewNext, HandoverNext
<1> QED  BY <1>4, <1>5 DEF FieldworkNext

LEMMA SamplesKept ==
  ASSUME EvidenceHeld, SamplesHold, FieldworkNext
  PROVE  SamplesHold'
<1>1. EvidenceGrows
  BY EvidenceKept
<1>2. CASE UNCHANGED samplingVars
  BY <1>1, <1>2, SamplesOutlive
<1>3. ASSUME UNCHANGED evidence, NEW n \in DOMAIN plans, NEW r \in plans[n].rows,
             \/ \E f \in Families : SampleLink(n, r, f)
             \/ \E link \in plans[n].tests[r].links : SampleUnlink(n, r, link)
      PROVE  SamplesHold'
  BY <1>3, SamplesWork
<1>4. CASE EvidenceNext
  BY <1>2, <1>3, <1>4 DEF EvidenceNext
<1>5. CASE SampleNext
  <2>1. UNCHANGED evidence
    BY <1>5 DEF SampleNext
  <2>2. CASE SamplingPolicyNext
    BY <2>1, <2>2, PolicyMoves
  <2>3. ASSUME NEW p, NEW drawn \in SUBSET Rows, SamplingPlan(p, drawn, Open(p))
        PROVE  SamplesHold'
    BY <2>1, <2>3, PlanAdded
  <2>4. ASSUME NEW n \in DOMAIN plans, NEW r \in plans[n].rows, NEW open,
               (\E f \in Families : SampleTest(n, r, f, open)) \/ SampleUntest(n, r, open)
        PROVE  SamplesHold'
    BY <2>1, <2>4, SamplesWork
  <2>5. ASSUME NEW n \in DOMAIN plans, NEW outcome \in Outcomes, NEW open, SampleEvaluate(n, outcome, open)
        PROVE  SamplesHold'
    BY <2>1, <2>5, SampleJudged
  <2> QED  BY <1>5, <2>2, <2>3, <2>4, <2>5 DEF SampleNext
<1>6. CASE ProcedureNext \/ StatementNext \/ ReviewNext
  BY <1>2, <1>6 DEF ProcedureNext, StatementNext, ReviewNext
<1>7. CASE HandoverNext
  BY <1>2, <1>7 DEF HandoverNext
<1> QED  BY <1>4, <1>5, <1>6, <1>7 DEF FieldworkNext

----
(* Findings.                                                                *)
FindingRow(r) == r = [version |-> r.version, status |-> r.status, by |-> r.by, links |-> r.links]

LEMMA FindingsNow ==
  ASSUME IsList(findings'), \A f \in DOMAIN findings' : FindingForm(evidence', findings'[f])
  PROVE  FindingsHold'
BY DEF FindingsHold, IsList, FindingForm, LinksStand, Staff

LEMMA FindingsOutlive ==
  ASSUME FindingsHold, EvidenceGrows, UNCHANGED findings
  PROVE  FindingsHold'
<1>1. \A links, version : LinksStand(evidence, links, version) => LinksStand(evidence', links, version)
  BY LinksOutlive DEF EvidenceGrows
<1>2. \A r : FindingForm(evidence, r) => FindingForm(evidence', r)
  BY <1>1 DEF FindingForm
<1> QED  BY <1>2, FindingsNow DEF FindingsHold

LEMMA FindingAdded ==
  ASSUME FindingsHold, NEW who \in Staff, FindingCreate(who), UNCHANGED evidence
  PROVE  FindingsHold' /\ Len(findings') = Len(findings) + 1
<1> DEFINE e == [version |-> 1, status |-> "OPEN", by |-> who, links |-> {}]
           n == Len(findings) + 1
<1>1. findings' = Append(findings, e)
  BY DEF FindingCreate
<1>2. IsList(findings) /\ \A k \in DOMAIN findings : FindingForm(evidence, findings[k])
  BY DEF FindingsHold
<1>3. FindingForm(evidence, e)
  <2>1. LinksStand(evidence, {}, 1)
    BY NoLinksStand
  <2>2. 1 \in 1..MaxRevision
    BY StatementBounds
  <2> QED  BY <2>1, <2>2 DEF FindingForm
<1> HIDE DEF e
<1>4. /\ IsList(findings') /\ DOMAIN findings' = DOMAIN findings \cup {n} /\ findings'[n] = e
      /\ \A k \in DOMAIN findings : findings'[k] = findings[k]
      /\ Len(findings') = Len(findings) + 1
  BY <1>1, <1>2, Longer
<1> HIDE DEF n
<1>5. \A k \in DOMAIN findings' : FindingForm(evidence', findings'[k])
  BY <1>2, <1>3, <1>4
<1> QED  BY <1>4, <1>5, FindingsNow

LEMMA FindingWritten ==
  ASSUME FindingsHold, NEW f \in DOMAIN findings, NEW row, FindingRow(row), row.version = findings[f].version,
         row.by \in Staff, row.status \in {"OPEN", "RESPONDED", "RESOLVED"},
         LinksStand(evidence, row.links, row.version + 1), FindingBecomes(f, row), UNCHANGED evidence
  PROVE  FindingsHold' /\ Len(findings') = Len(findings)
<1> DEFINE version == row.version + 1
           e == [row EXCEPT !.version = version]
<1>1. IsList(findings) /\ \A k \in DOMAIN findings : FindingForm(evidence, findings[k])
  BY DEF FindingsHold
<1>2. findings' = [findings EXCEPT ![f] = e] /\ findings[f].version < MaxRevision
  BY DEF FindingBecomes
<1>3. version \in 1..MaxRevision
  <2>1. findings[f].version \in 1..MaxRevision
    BY <1>1 DEF FindingForm
  <2> QED  BY <1>2, <2>1, StatementBounds
<1>4. FindingForm(evidence, e)
  <2>1. LinksStand(evidence, row.links, version)
    OBVIOUS
  <2> HIDE DEF version
  <2>2. e = [version |-> version, status |-> row.status, by |-> row.by, links |-> row.links]
    BY DEF FindingRow
  <2> HIDE DEF e
  <2>3. e.version = version /\ e.status = row.status /\ e.by = row.by /\ e.links = row.links
    BY <2>2
  <2>4. e = [version |-> e.version, status |-> e.status, by |-> e.by, links |-> e.links]
    BY <2>2, <2>3
  <2> QED  BY <1>3, <2>1, <2>3, <2>4 DEF FindingForm
<1> HIDE DEF e
<1>5. /\ IsList(findings') /\ DOMAIN findings' = DOMAIN findings /\ findings'[f] = e
      /\ \A k \in DOMAIN findings : k # f => findings'[k] = findings[k]
  BY <1>1, <1>2, ListWritten
<1>6. \A k \in DOMAIN findings' : FindingForm(evidence', findings'[k])
  BY <1>1, <1>4, <1>5
<1>7. Len(findings') = Len(findings)
  <2>1. findings' = [k \in DOMAIN findings |-> findings'[k]]
    <3>1. findings = [k \in DOMAIN findings |-> findings[k]]
      BY <1>1, ListLength
    <3> QED  BY <1>2, <3>1
  <2> QED  BY <1>1, <2>1, StillAList
<1> QED  BY <1>5, <1>6, <1>7, FindingsNow

LEMMA FindingTo ==
  ASSUME NEW r, FindingRow(r), NEW x
  PROVE  LET n == [r EXCEPT !.status = x]
         IN FindingRow(n) /\ n.version = r.version /\ n.status = x /\ n.by = r.by /\ n.links = r.links
BY DEF FindingRow

LEMMA FindingRelinked ==
  ASSUME NEW r, FindingRow(r), NEW x
  PROVE  LET n == [r EXCEPT !.links = x]
         IN FindingRow(n) /\ n.version = r.version /\ n.status = r.status /\ n.by = r.by /\ n.links = x
BY DEF FindingRow

(* What may happen to a finding.                                            *)
FindingMoves(f) ==
  \/ FindingRespond(f)
  \/ \E who \in Staff : FindingResolve(who, f)
  \/ \E family \in Families : FindingLink(f, family)
  \/ \E link \in findings[f].links : FindingUnlink(f, link)

LEMMA FindingMoved ==
  ASSUME EvidenceHeld, FindingsHold, NEW f \in DOMAIN findings, FindingMoves(f), UNCHANGED evidence
  PROVE  FindingsHold' /\ Len(findings') = Len(findings)
<1> DEFINE r == findings[f]
<1>1. FindingForm(evidence, r)
  BY DEF FindingsHold
<1>2. /\ FindingRow(r) /\ r.version \in Nat /\ r.version + 1 \in Nat /\ r.version <= r.version + 1
      /\ r.by \in Staff /\ r.status \in {"OPEN", "RESPONDED", "RESOLVED"}
      /\ LinksStand(evidence, r.links, r.version)
  BY <1>1, StatementBounds DEF FindingForm, FindingRow
<1>3. LinksStand(evidence, r.links, r.version + 1)
  <2> HIDE DEF r
  <2> QED  BY <1>2, FewerLinksStand
<1>4. ASSUME NEW x \in {"RESPONDED", "RESOLVED"}, FindingBecomes(f, [r EXCEPT !.status = x])
      PROVE  FindingsHold' /\ Len(findings') = Len(findings)
  <2> DEFINE n == [r EXCEPT !.status = x]
  <2>1. FindingRow(n) /\ n.version = r.version /\ n.status = x /\ n.by = r.by /\ n.links = r.links
    BY <1>2, FindingTo
  <2>2. FindingBecomes(f, n)
    BY <1>4
  <2> HIDE DEF n
  <2> QED  BY <1>2, <1>3, <2>1, <2>2, FindingWritten
<1>5. ASSUME NEW x, LinksStand(evidence, x, r.version + 1), FindingBecomes(f, [r EXCEPT !.links = x])
      PROVE  FindingsHold' /\ Len(findings') = Len(findings)
  <2> DEFINE n == [r EXCEPT !.links = x]
  <2>1. FindingRow(n) /\ n.version = r.version /\ n.status = r.status /\ n.by = r.by /\ n.links = x
    BY <1>2, FindingRelinked
  <2>2. FindingBecomes(f, n)
    BY <1>5
  <2> HIDE DEF n
  <2> QED  BY <1>2, <1>5, <2>1, <2>2, FindingWritten
<1>6. CASE FindingRespond(f)
  BY <1>4, <1>6 DEF FindingRespond
<1>7. ASSUME NEW who, FindingResolve(who, f)
      PROVE  FindingsHold' /\ Len(findings') = Len(findings)
  BY <1>4, <1>7 DEF FindingResolve
<1>8. ASSUME NEW family \in Families, FindingLink(f, family)
      PROVE  FindingsHold' /\ Len(findings') = Len(findings)
  <2> DEFINE x == Relinked(family, r.links, r.version + 1)
  <2>1. FindingBecomes(f, [r EXCEPT !.links = x]) /\ evidence[family] # <<>>
    BY <1>8 DEF FindingLink, Linkable
  <2>2. LinksStand(evidence, x, r.version + 1)
    <3> HIDE DEF r
    <3> QED  BY <1>2, <2>1, RelinkedStand
  <2> HIDE DEF x
  <2> QED  BY <1>5, <2>1, <2>2
<1>9. ASSUME NEW link, FindingUnlink(f, link)
      PROVE  FindingsHold' /\ Len(findings') = Len(findings)
  <2> DEFINE x == r.links \ {link}
  <2>1. FindingBecomes(f, [r EXCEPT !.links = x])
    BY <1>9 DEF FindingUnlink
  <2>2. LinksStand(evidence, x, r.version + 1)
    <3> HIDE DEF r
    <3> QED  BY <1>2, FewerLinksStand
  <2> HIDE DEF x
  <2> QED  BY <1>5, <2>1, <2>2
<1> QED  BY <1>6, <1>7, <1>8, <1>9 DEF FindingMoves

----
(* Adjustments and the differences they put right.                          *)
LEMMA AdjustmentsNow ==
  ASSUME IsList(adjustments'),
         \A a \in DOMAIN adjustments' : AdjustmentStands(evidence', Len(findings'), adjustments'[a])
  PROVE  AdjustmentsHold'
BY DEF AdjustmentsHold, IsList, AdjustmentStands, AdjustmentForm, PinsStand, Staff

LEMMA MoreFindings ==
  ASSUME NEW held, NEW held2, \A f \in Families : DOMAIN held[f] \subseteq DOMAIN held2[f],
         NEW m \in Nat, NEW n \in Nat, m <= n
  PROVE  \A r : AdjustmentStands(held, m, r) => AdjustmentStands(held2, n, r)
<1>1. \A pins : PinsStand(held, pins) => PinsStand(held2, pins)
  BY LinksOutlive
<1>2. 0..m \subseteq 0..n
  OBVIOUS
<1> QED  BY <1>1, <1>2 DEF AdjustmentStands

LEMMA AdjustmentsOutlive ==
  ASSUME FindingsHold, AdjustmentsHold, EvidenceGrows, UNCHANGED adjustments, FindingsHold',
         Len(findings) <= Len(findings')
  PROVE  AdjustmentsHold'
<1>1. Len(findings) \in Nat /\ Len(findings') \in Nat
  <2>1. IsList(findings) /\ IsList(findings')
    BY DEF FindingsHold, IsList
  <2> QED  BY <2>1, ListLength
<1>2. \A r : AdjustmentStands(evidence, Len(findings), r) => AdjustmentStands(evidence', Len(findings'), r)
  BY <1>1, MoreFindings DEF EvidenceGrows
<1> QED  BY <1>2, AdjustmentsNow DEF AdjustmentsHold

LEMMA AdjustmentAdded ==
  ASSUME EvidenceHeld, AdjustmentsHold, NEW who \in Staff, NEW finding \in 0..Len(findings),
         NEW families \in SUBSET Families, AdjustmentCreate(who, finding, families), UNCHANGED evidence
  PROVE  AdjustmentsHold' /\ Len(adjustments') = Len(adjustments) + 1
<1> DEFINE no == FALSE
           pins == {Pinned(f) : f \in families}
           e == [finding |-> finding, by |-> who, status |-> "DRAFT", included |-> no, pins |-> pins,
                 approver |-> Nobody]
           n == Len(adjustments) + 1
<1>1. adjustments' = Append(adjustments, e) /\ UNCHANGED findings /\ \A f \in families : evidence[f] # <<>>
  BY DEF AdjustmentCreate
<1> HIDE DEF no
<1>2. IsList(adjustments) /\ \A k \in DOMAIN adjustments : AdjustmentStands(evidence, Len(findings), adjustments[k])
  BY DEF AdjustmentsHold
<1>3. PinsStand(evidence, pins)
  <2>1. ASSUME NEW f \in families
        PROVE  /\ Pinned(f) \in EvidencePins /\ Pinned(f).family = f
               /\ Pinned(f).version \in DOMAIN evidence[f]
    <3>1. evidence[f] # <<>> /\ Len(evidence[f]) \in Nat /\ Len(evidence[f]) \in DOMAIN evidence[f]
      BY <1>1, HeldFamily
    <3> QED  BY <3>1 DEF Pinned, EvidencePins
  <2> QED  BY <2>1 DEF PinsStand
<1>4. AdjustmentStands(evidence, Len(findings), e)
  <2> HIDE DEF pins
  <2>1. AdjustmentForm(e)
    BY DEF AdjustmentForm
  <2>2. /\ e.status = "DRAFT" /\ e.finding = finding /\ e.pins = pins /\ e.approver = Nobody
    OBVIOUS
  <2> HIDE DEF e
  <2> QED  BY <1>3, <2>1, <2>2 DEF AdjustmentStands, AdjustmentStatuses
<1> HIDE DEF e
<1>5. /\ IsList(adjustments') /\ DOMAIN adjustments' = DOMAIN adjustments \cup {n} /\ adjustments'[n] = e
      /\ \A k \in DOMAIN adjustments : adjustments'[k] = adjustments[k]
      /\ Len(adjustments') = Len(adjustments) + 1
  BY <1>1, <1>2, Longer
<1> HIDE DEF n
<1>6. \A k \in DOMAIN adjustments' : AdjustmentStands(evidence', Len(findings'), adjustments'[k])
  BY <1>1, <1>2, <1>4, <1>5
<1> QED  BY <1>5, <1>6, AdjustmentsNow

LEMMA AdjustmentRewritten ==
  ASSUME AdjustmentsHold, NEW a \in DOMAIN adjustments, NEW row, AdjustmentStands(evidence, Len(findings), row),
         AdjustmentBecomes(a, row), UNCHANGED evidence
  PROVE  AdjustmentsHold' /\ Len(adjustments') = Len(adjustments)
<1>1. IsList(adjustments) /\ \A k \in DOMAIN adjustments : AdjustmentStands(evidence, Len(findings), adjustments[k])
  BY DEF AdjustmentsHold
<1>2. adjustments' = [adjustments EXCEPT ![a] = row] /\ UNCHANGED findings
  BY DEF AdjustmentBecomes
<1>3. /\ IsList(adjustments') /\ DOMAIN adjustments' = DOMAIN adjustments /\ adjustments'[a] = row
      /\ \A k \in DOMAIN adjustments : k # a => adjustments'[k] = adjustments[k]
  BY <1>1, <1>2, ListWritten
<1>4. \A k \in DOMAIN adjustments' : AdjustmentStands(evidence', Len(findings'), adjustments'[k])
  BY <1>1, <1>2, <1>3
<1>5. Len(adjustments') = Len(adjustments)
  <2>1. adjustments' = [k \in DOMAIN adjustments |-> adjustments'[k]]
    <3>1. adjustments = [k \in DOMAIN adjustments |-> adjustments[k]]
      BY <1>1, ListLength
    <3> QED  BY <1>2, <3>1
  <2> QED  BY <1>1, <2>1, StillAList
<1> QED  BY <1>3, <1>4, <1>5, AdjustmentsNow

LEMMA AdjustmentAnswered ==
  ASSUME NEW held, NEW found, NEW r, AdjustmentStands(held, found, r), r.status # "REVIEW_APPROVED",
         NEW x \in AdjustmentStatuses \ {"REVIEW_APPROVED"}
  PROVE  AdjustmentStands(held, found, [r EXCEPT !.status = x])
<1> DEFINE n == [r EXCEPT !.status = x]
<1>1. r = [finding |-> r.finding, by |-> r.by, status |-> r.status, included |-> r.included, pins |-> r.pins,
           approver |-> r.approver]
  BY DEF AdjustmentStands, AdjustmentForm
<1>2. n = [finding |-> r.finding, by |-> r.by, status |-> x, included |-> r.included, pins |-> r.pins,
           approver |-> r.approver]
  BY <1>1
<1> HIDE DEF n
<1>3. /\ n.finding = r.finding /\ n.status = x /\ n.pins = r.pins /\ n.approver = r.approver /\ n.by = r.by
      /\ n.included = r.included
  BY <1>2
<1>4. AdjustmentForm(n)
  BY <1>2, <1>3 DEF AdjustmentForm
<1>5. AdjustmentStands(held, found, n)
  BY <1>3, <1>4 DEF AdjustmentStands
<1> QED  BY <1>5 DEF n

LEMMA AdjustmentPassed ==
  ASSUME NEW held, NEW found, NEW r, AdjustmentStands(held, found, r), NEW who \in Staff, who # r.by, NEW y
  PROVE  AdjustmentStands(held, found, Approved(r, who, y))
<1> DEFINE n == Approved(r, who, y)
           n1 == [r EXCEPT !.status = "REVIEW_APPROVED"]
           n2 == [n1 EXCEPT !.approver = who]
           n3 == [n2 EXCEPT !.included = y]
<1>0. n = n3
  BY DEF Approved
<1>1. r = [finding |-> r.finding, by |-> r.by, status |-> r.status, included |-> r.included, pins |-> r.pins,
           approver |-> r.approver]
  BY DEF AdjustmentStands, AdjustmentForm
<1>2. n1 = [finding |-> r.finding, by |-> r.by, status |-> "REVIEW_APPROVED", included |-> r.included,
            pins |-> r.pins, approver |-> r.approver]
  BY <1>1
<1>3. n2 = [finding |-> r.finding, by |-> r.by, status |-> "REVIEW_APPROVED", included |-> r.included,
            pins |-> r.pins, approver |-> who]
  <2> HIDE DEF n1
  <2> QED  BY <1>2
<1>4. n3 = [finding |-> r.finding, by |-> r.by, status |-> "REVIEW_APPROVED", included |-> y,
            pins |-> r.pins, approver |-> who]
  <2> HIDE DEF n1, n2
  <2> QED  BY <1>3
<1> HIDE DEF n, n1, n2, n3
<1>5. /\ n.finding = r.finding /\ n.status = "REVIEW_APPROVED" /\ n.pins = r.pins /\ n.approver = who
      /\ n.by = r.by /\ n.included = y
  BY <1>0, <1>4
<1>6. AdjustmentForm(n)
  BY <1>0, <1>4, <1>5 DEF AdjustmentForm
<1>7. who # Nobody
  BY StaffAreSomebody DEF Staff
<1>8. AdjustmentStands(held, found, n)
  BY <1>5, <1>6, <1>7 DEF AdjustmentStands, AdjustmentStatuses
<1> QED  BY <1>8 DEF n

(* What may happen to an adjustment.                                        *)
AdjustmentMoves(a) ==
  \/ AdjustmentPropose(a)
  \/ \E answer \in {"CLIENT_ACCEPTED", "CLIENT_DECLINED"} : AdjustmentRespond(a, answer)
  \/ \E who \in Staff : AdjustmentApprove(who, a)

LEMMA AdjustmentMoved ==
  ASSUME AdjustmentsHold, NEW a \in DOMAIN adjustments, AdjustmentMoves(a), UNCHANGED evidence
  PROVE  AdjustmentsHold' /\ Len(adjustments') = Len(adjustments)
<1> DEFINE r == adjustments[a]
<1>1. AdjustmentStands(evidence, Len(findings), r)
  BY DEF AdjustmentsHold
<1>2. ASSUME NEW x \in AdjustmentStatuses \ {"REVIEW_APPROVED"}, r.status # "REVIEW_APPROVED",
             AdjustmentBecomes(a, [r EXCEPT !.status = x])
      PROVE  AdjustmentsHold' /\ Len(adjustments') = Len(adjustments)
  <2> DEFINE n == [r EXCEPT !.status = x]
  <2>1. AdjustmentStands(evidence, Len(findings), n)
    <3> HIDE DEF r
    <3> QED  BY <1>1, <1>2, AdjustmentAnswered
  <2>2. AdjustmentBecomes(a, n)
    BY <1>2
  <2> HIDE DEF n
  <2> QED  BY <2>1, <2>2, AdjustmentRewritten
<1>3. CASE AdjustmentPropose(a)
  BY <1>2, <1>3 DEF AdjustmentPropose, AdjustmentStatuses
<1>4. ASSUME NEW answer \in {"CLIENT_ACCEPTED", "CLIENT_DECLINED"}, AdjustmentRespond(a, answer)
      PROVE  AdjustmentsHold' /\ Len(adjustments') = Len(adjustments)
  BY <1>2, <1>4 DEF AdjustmentRespond, AdjustmentStatuses
<1>5. ASSUME NEW who \in Staff, AdjustmentApprove(who, a)
      PROVE  AdjustmentsHold' /\ Len(adjustments') = Len(adjustments)
  <2> DEFINE y == (r.status = "CLIENT_ACCEPTED")
             n == Approved(r, who, y)
  <2>1. AdjustmentBecomes(a, n) /\ who # r.by
    BY <1>5 DEF AdjustmentApprove, Approved
  <2>2. AdjustmentStands(evidence, Len(findings), n)
    <3> HIDE DEF r, y
    <3> QED  BY <1>1, <2>1, AdjustmentPassed
  <2> HIDE DEF n
  <2> QED  BY <2>1, <2>2, AdjustmentRewritten
<1> QED  BY <1>3, <1>4, <1>5 DEF AdjustmentMoves

(* A pin keeps its version when that is judged again.                       *)
LEMMA PinJudged ==
  ASSUME NEW pin \in EvidencePins, NEW b \in BOOLEAN
  PROVE  LET n == [pin EXCEPT !.standing = b]
         IN n \in EvidencePins /\ n.family = pin.family /\ n.version = pin.version
BY DEF EvidencePins

JudgedAgain(pins, f) == {[pin EXCEPT !.standing = @ /\ ~(pin.family = f /\ IsLatest(pin))] : pin \in pins}

LEMMA PinsJudged ==
  ASSUME NEW pins, PinsStand(evidence, pins), NEW f
  PROVE  PinsStand(evidence, JudgedAgain(pins, f))
<1> DEFINE now(pin) == [pin EXCEPT !.standing = @ /\ ~(pin.family = f /\ IsLatest(pin))]
           S == {now(pin) : pin \in pins}
<1>1. /\ pins \subseteq EvidencePins /\ \A l \in pins : l.version \in DOMAIN evidence[l.family]
      /\ \A k, l \in pins : k.family = l.family => k = l
  BY DEF PinsStand
<1>2. ASSUME NEW pin \in pins
      PROVE  now(pin) \in EvidencePins /\ now(pin).family = pin.family /\ now(pin).version = pin.version
  <2> DEFINE b == pin.standing /\ ~(pin.family = f /\ IsLatest(pin))
             n == [pin EXCEPT !.standing = b]
  <2>1. b \in BOOLEAN /\ now(pin) = n
    OBVIOUS
  <2>2. pin \in EvidencePins
    BY <1>1
  <2> HIDE DEF b, now
  <2>3. n \in EvidencePins /\ n.family = pin.family /\ n.version = pin.version
    BY <2>1, <2>2, PinJudged
  <2> HIDE DEF n
  <2> QED  BY <2>1, <2>3
<1>3. \A n \in S : \E pin \in pins : n = now(pin)
  OBVIOUS
<1> HIDE DEF now
<1>4. S \subseteq EvidencePins /\ \A n \in S : n.version \in DOMAIN evidence[n.family]
  BY <1>1, <1>2, <1>3
<1>5. ASSUME NEW m \in S, NEW n \in S, m.family = n.family PROVE m = n
  <2>1. PICK k \in pins : m = now(k)
    BY <1>3
  <2>2. PICK l \in pins : n = now(l)
    BY <1>3
  <2> QED  BY <1>1, <1>2, <1>5, <2>1, <2>2
<1>6. PinsStand(evidence, S)
  BY <1>4, <1>5 DEF PinsStand
<1> QED  BY <1>6 DEF now, JudgedAgain

LEMMA AdjustmentsRejudged ==
  ASSUME FindingsHold, AdjustmentsHold, EvidenceGrows, NEW f, Rejudged(f), UNCHANGED findings
  PROVE  AdjustmentsHold' /\ Len(adjustments') = Len(adjustments)
<1>1. IsList(adjustments) /\ \A k \in DOMAIN adjustments : AdjustmentStands(evidence, Len(findings), adjustments[k])
  BY DEF AdjustmentsHold
<1>2. adjustments' = [a \in DOMAIN adjustments |-> [adjustments[a] EXCEPT !.pins = JudgedAgain(adjustments[a].pins, f)]]
  BY DEF Rejudged, JudgedAgain
<1>3. ASSUME NEW a \in DOMAIN adjustments
      PROVE  PinsStand(evidence, JudgedAgain(adjustments[a].pins, f))
  <2>1. PinsStand(evidence, adjustments[a].pins)
    BY <1>1 DEF AdjustmentStands
  <2> QED  BY <2>1, PinsJudged
<1>4. ASSUME NEW a \in DOMAIN adjustments
      PROVE  AdjustmentStands(evidence, Len(findings), adjustments'[a])
  <2> DEFINE r == adjustments[a]  x == JudgedAgain(adjustments[a].pins, f)  n == [r EXCEPT !.pins = x]
  <2>1. adjustments'[a] = n
    BY <1>2
  <2>2. AdjustmentStands(evidence, Len(findings), r) /\ PinsStand(evidence, x)
    BY <1>1, <1>3
  <2> HIDE DEF r, x
  <2>3. r = [finding |-> r.finding, by |-> r.by, status |-> r.status, included |-> r.included, pins |-> r.pins,
             approver |-> r.approver]
    BY <2>2 DEF AdjustmentStands, AdjustmentForm
  <2>4. n = [finding |-> r.finding, by |-> r.by, status |-> r.status, included |-> r.included, pins |-> x,
             approver |-> r.approver]
    BY <2>3
  <2> HIDE DEF n
  <2>5. /\ n.finding = r.finding /\ n.status = r.status /\ n.pins = x /\ n.approver = r.approver /\ n.by = r.by
        /\ n.included = r.included
    BY <2>4
  <2>6. AdjustmentForm(n)
    BY <2>2, <2>4, <2>5 DEF AdjustmentForm, AdjustmentStands
  <2>7. AdjustmentStands(evidence, Len(findings), n)
    BY <2>2, <2>5, <2>6 DEF AdjustmentStands
  <2> QED  BY <2>1, <2>7
<1>5. adjustments' = [a \in DOMAIN adjustments |-> adjustments'[a]] /\ DOMAIN adjustments' = DOMAIN adjustments
  BY <1>2
<1>6. IsList(adjustments') /\ Len(adjustments') = Len(adjustments)
  BY <1>1, <1>5, StillAList
<1>7. Len(findings) \in Nat /\ Len(findings) <= Len(findings)
  BY ListLength DEF FindingsHold
<1>8. \A r : AdjustmentStands(evidence, Len(findings), r) => AdjustmentStands(evidence', Len(findings), r)
  BY <1>7, MoreFindings DEF EvidenceGrows
<1>9. \A a \in DOMAIN adjustments' : AdjustmentStands(evidence', Len(findings'), adjustments'[a])
  BY <1>4, <1>5, <1>8
<1> QED  BY <1>6, <1>9, AdjustmentsNow

(* A difference is of a finding, and is never written again.                *)
DifferenceStands(r, found, made) ==
  r.finding \in found /\ r.disposition \in Dispositions /\ r.adjustment \in made

LEMMA DifferencesNow ==
  ASSUME IsList(differences'),
         \A d \in DOMAIN differences' :
           DifferenceStands(differences'[d], DOMAIN findings', 0..Len(adjustments'))
  PROVE  DifferencesHold'
BY DEF DifferencesHold, IsList, DifferenceStands

LEMMA DifferencesOutlive ==
  ASSUME DifferencesHold, UNCHANGED differences, DOMAIN findings \subseteq DOMAIN findings',
         0..Len(adjustments) \subseteq 0..Len(adjustments')
  PROVE  DifferencesHold'
<1>1. \A d \in DOMAIN differences' : DifferenceStands(differences'[d], DOMAIN findings', 0..Len(adjustments'))
  BY DEF DifferencesHold, DifferenceStands
<1> QED  BY <1>1, DifferencesNow DEF DifferencesHold

LEMMA DifferenceAdded ==
  ASSUME DifferencesHold, NEW finding \in DOMAIN findings, NEW significant, NEW disposition \in Dispositions,
         NEW a \in 0..Len(adjustments), DifferenceCreate(finding, significant, disposition, a)
  PROVE  DifferencesHold'
<1> DEFINE e == [finding |-> finding, significant |-> significant, disposition |-> disposition, adjustment |-> a]
           n == Len(differences) + 1
<1>1. differences' = Append(differences, e) /\ UNCHANGED <<findings, adjustments>>
  BY DEF DifferenceCreate
<1>2. DifferenceStands(e, DOMAIN findings, 0..Len(adjustments))
  BY DEF DifferenceStands
<1> HIDE DEF e
<1>3. IsList(differences)
  BY DEF DifferencesHold
<1>4. /\ IsList(differences') /\ DOMAIN differences' = DOMAIN differences \cup {n} /\ differences'[n] = e
      /\ \A k \in DOMAIN differences : differences'[k] = differences[k]
  BY <1>1, <1>3, Longer
<1> HIDE DEF n
<1>5. \A d \in DOMAIN differences' : DifferenceStands(differences'[d], DOMAIN findings', 0..Len(adjustments'))
  BY <1>1, <1>2, <1>4 DEF DifferencesHold, DifferenceStands
<1> QED  BY <1>4, <1>5, DifferencesNow

----
(* Analytical reviews.                                                      *)
AnalysisStatuses == Drafts \cup {"SUBMITTED", "REVIEWED"}

LEMMA AnalysesNow ==
  ASSUME IsList(analyses'), \A n \in DOMAIN analyses' : AnalysisStands(evidence', snapshots', analyses'[n])
  PROVE  AnalysesHold'
BY DEF AnalysesHold, IsList, AnalysisStands, AnalysisForm, LinksStand, Staff, Drafts

LEMMA AnalysesOutlive ==
  ASSUME AnalysesHold, EvidenceGrows, UNCHANGED analyses, snapshots \subseteq snapshots'
  PROVE  AnalysesHold'
<1>1. \A links, version : LinksStand(evidence, links, version) => LinksStand(evidence', links, version)
  BY LinksOutlive DEF EvidenceGrows
<1>2. \A r : AnalysisStands(evidence, snapshots, r) => AnalysisStands(evidence', snapshots', r)
  BY <1>1 DEF AnalysisStands
<1> QED  BY <1>2, AnalysesNow DEF AnalysesHold

LEMMA AnalysisAdded ==
  ASSUME AnalysesHold, NEW who \in Staff, NEW complete, AnalysisDraft(who, complete), UNCHANGED evidence
  PROVE  AnalysesHold'
<1> DEFINE e == [version |-> 1, status |-> "DRAFT", by |-> who, writers |-> {who},
                 snapshot |-> Included, complete |-> complete, links |-> {}]
           n == Len(analyses) + 1
<1>1. analyses' = Append(analyses, e) /\ Included \in snapshots /\ UNCHANGED snapshots
  BY DEF AnalysisDraft
<1>2. IsList(analyses) /\ \A k \in DOMAIN analyses : AnalysisStands(evidence, snapshots, analyses[k])
  BY DEF AnalysesHold
<1>3. AnalysisStands(evidence, snapshots, e)
  <2> DEFINE one == 1  writers == {who}  none == {}
             r == [version |-> one, status |-> "DRAFT", by |-> who, writers |-> writers,
                   snapshot |-> Included, complete |-> complete, links |-> none]
  <2>1. LinksStand(evidence, none, one)
    BY NoLinksStand
  <2>2. one \in 1..MaxRevision /\ who \in writers /\ writers \subseteq Staff
    BY StatementBounds
  <2> HIDE DEF one, writers, none
  <2>3. AnalysisForm(r)
    BY DEF AnalysisForm
  <2>4. /\ r.version = one /\ r.status = "DRAFT" /\ r.by = who /\ r.writers = writers
        /\ r.snapshot = Included /\ r.links = none
    OBVIOUS
  <2> HIDE DEF r
  <2>5. AnalysisStands(evidence, snapshots, r)
    BY <1>1, <2>1, <2>2, <2>3, <2>4 DEF AnalysisStands, Drafts
  <2> QED  BY <2>5 DEF r, one, writers, none
<1> HIDE DEF e
<1>4. /\ IsList(analyses') /\ DOMAIN analyses' = DOMAIN analyses \cup {n} /\ analyses'[n] = e
      /\ \A k \in DOMAIN analyses : analyses'[k] = analyses[k]
  BY <1>1, <1>2, Longer
<1> HIDE DEF n
<1>5. \A k \in DOMAIN analyses' : AnalysisStands(evidence', snapshots', analyses'[k])
  BY <1>1, <1>2, <1>3, <1>4
<1> QED  BY <1>4, <1>5, AnalysesNow

LEMMA AnalysisRaised ==
  ASSUME NEW row, AnalysisForm(row), NEW version
  PROVE  LET n == [row EXCEPT !.version = version]
         IN /\ AnalysisForm(n) /\ n.version = version /\ n.status = row.status /\ n.by = row.by
            /\ n.writers = row.writers /\ n.snapshot = row.snapshot /\ n.links = row.links
BY DEF AnalysisForm

LEMMA AnalysisTo ==
  ASSUME NEW r, AnalysisForm(r), NEW x
  PROVE  LET n == [r EXCEPT !.status = x]
         IN /\ AnalysisForm(n) /\ n.version = r.version /\ n.status = x /\ n.by = r.by
            /\ n.writers = r.writers /\ n.snapshot = r.snapshot /\ n.links = r.links
BY DEF AnalysisForm

LEMMA AnalysisRelinked ==
  ASSUME NEW r, AnalysisForm(r), NEW x
  PROVE  LET n == [r EXCEPT !.links = x]
         IN /\ AnalysisForm(n) /\ n.version = r.version /\ n.status = r.status /\ n.by = r.by
            /\ n.writers = r.writers /\ n.snapshot = r.snapshot /\ n.links = x
BY DEF AnalysisForm

LEMMA AnalysisRowWritten ==
  ASSUME AnalysesHold, NEW n \in DOMAIN analyses, NEW row, AnalysisForm(row),
         row.version = analyses[n].version, row.status \in AnalysisStatuses,
         row.by \in row.writers, row.writers \subseteq Staff, row.snapshot \in snapshots,
         LinksStand(evidence, row.links, row.version + 1), AnalysisBecomes(n, row), UNCHANGED evidence
  PROVE  AnalysesHold'
<1> DEFINE version == row.version + 1
           e == [row EXCEPT !.version = version]
<1>1. IsList(analyses) /\ \A k \in DOMAIN analyses : AnalysisStands(evidence, snapshots, analyses[k])
  BY DEF AnalysesHold
<1>2. analyses' = [analyses EXCEPT ![n] = e] /\ analyses[n].version < MaxRevision /\ UNCHANGED snapshots
  BY DEF AnalysisBecomes
<1>3. version \in 1..MaxRevision
  <2>1. analyses[n].version \in 1..MaxRevision
    BY <1>1 DEF AnalysisStands
  <2> QED  BY <1>2, <2>1, StatementBounds
<1>4. AnalysisStands(evidence, snapshots, e)
  <2>1. LinksStand(evidence, row.links, version)
    OBVIOUS
  <2> HIDE DEF version
  <2>2. /\ AnalysisForm(e) /\ e.version = version /\ e.status = row.status /\ e.by = row.by
        /\ e.writers = row.writers /\ e.snapshot = row.snapshot /\ e.links = row.links
    BY AnalysisRaised
  <2> HIDE DEF e
  <2> QED  BY <1>3, <2>1, <2>2 DEF AnalysisStands, AnalysisStatuses
<1> HIDE DEF e
<1>5. /\ IsList(analyses') /\ DOMAIN analyses' = DOMAIN analyses /\ analyses'[n] = e
      /\ \A k \in DOMAIN analyses : k # n => analyses'[k] = analyses[k]
  BY <1>1, <1>2, ListWritten
<1>6. \A k \in DOMAIN analyses' : AnalysisStands(evidence', snapshots', analyses'[k])
  BY <1>1, <1>2, <1>4, <1>5
<1> QED  BY <1>5, <1>6, AnalysesNow

(* What may happen to an analytical review.                                 *)
AnalysisMoves(n) ==
  \/ \E who \in Staff, complete \in BOOLEAN : AnalysisRevise(who, n, complete)
  \/ \E family \in Families : AnalysisLink(n, family)
  \/ \E link \in analyses[n].links : AnalysisUnlink(n, link)
  \/ \E status \in AnalysisStatuses : AnalysisBecomes(n, [analyses[n] EXCEPT !.status = status])

LEMMA AnalysisHasMoved ==
  ASSUME EvidenceHeld, AnalysesHold, NEW n \in DOMAIN analyses, AnalysisMoves(n), UNCHANGED evidence
  PROVE  AnalysesHold'
<1> DEFINE r == analyses[n]
<1>1. AnalysisStands(evidence, snapshots, r)
  BY DEF AnalysesHold
<1>2. /\ AnalysisForm(r) /\ r.version \in Nat /\ r.version + 1 \in Nat /\ r.version <= r.version + 1
      /\ r.status \in AnalysisStatuses /\ r.by \in r.writers /\ r.writers \subseteq Staff
      /\ r.snapshot \in snapshots /\ LinksStand(evidence, r.links, r.version)
  BY <1>1, StatementBounds DEF AnalysisStands, AnalysisStatuses
<1>3. LinksStand(evidence, r.links, r.version + 1)
  <2> HIDE DEF r
  <2> QED  BY <1>2, FewerLinksStand
<1>4. ASSUME NEW who \in Staff, NEW complete, AnalysisRevise(who, n, complete)
      PROVE  AnalysesHold'
  <2> DEFINE row == Rewritten(r, Included, complete, who)
  <2>1. AnalysisBecomes(n, row) /\ Included \in snapshots
    BY <1>4 DEF AnalysisRevise, Rewritten
  <2>2. /\ AnalysisForm(row) /\ row.version = r.version /\ row.status = "DRAFT" /\ row.by = r.by
        /\ row.writers = r.writers \cup {who} /\ row.snapshot = Included /\ row.links = r.links
    <3> HIDE DEF r
    <3> QED  BY <1>2, AnalysisRewritten
  <2> HIDE DEF row
  <2>3. /\ row.status \in AnalysisStatuses /\ row.by \in row.writers /\ row.writers \subseteq Staff
        /\ row.snapshot \in snapshots /\ LinksStand(evidence, row.links, row.version + 1)
    BY <1>2, <1>3, <2>1, <2>2 DEF AnalysisStatuses, Drafts
  <2> QED  BY <2>1, <2>2, <2>3, AnalysisRowWritten
<1>5. ASSUME NEW family \in Families, AnalysisLink(n, family)
      PROVE  AnalysesHold'
  <2> DEFINE x == Relinked(family, r.links, r.version + 1)
             row == [r EXCEPT !.links = x]
  <2>1. AnalysisBecomes(n, row) /\ evidence[family] # <<>>
    BY <1>5 DEF AnalysisLink, Linkable
  <2>2. LinksStand(evidence, x, r.version + 1)
    <3> HIDE DEF r
    <3> QED  BY <1>2, <2>1, RelinkedStand
  <2> HIDE DEF x
  <2>3. /\ AnalysisForm(row) /\ row.version = r.version /\ row.status = r.status /\ row.by = r.by
        /\ row.writers = r.writers /\ row.snapshot = r.snapshot /\ row.links = x
    <3> HIDE DEF r
    <3> QED  BY <1>2, AnalysisRelinked
  <2> HIDE DEF row
  <2> QED  BY <1>2, <2>1, <2>2, <2>3, AnalysisRowWritten
<1>6. ASSUME NEW link, AnalysisUnlink(n, link)
      PROVE  AnalysesHold'
  <2> DEFINE row == Unsupported(r, link)
  <2>1. AnalysisBecomes(n, row)
    BY <1>6 DEF AnalysisUnlink, Unsupported
  <2>2. /\ AnalysisForm(row) /\ row.version = r.version /\ row.status = "UNDER_REWORK" /\ row.by = r.by
        /\ row.writers = r.writers /\ row.snapshot = r.snapshot /\ row.links = r.links \ {link}
    <3> HIDE DEF r
    <3> QED  BY <1>2, AnalysisUnlinked
  <2>3. LinksStand(evidence, r.links \ {link}, r.version + 1)
    <3> HIDE DEF r
    <3> QED  BY <1>2, FewerLinksStand
  <2> HIDE DEF row
  <2>4. row.status \in AnalysisStatuses
    BY <2>2 DEF AnalysisStatuses, Drafts
  <2> QED  BY <1>2, <2>1, <2>2, <2>3, <2>4, AnalysisRowWritten
<1>7. ASSUME NEW x \in AnalysisStatuses, AnalysisBecomes(n, [r EXCEPT !.status = x])
      PROVE  AnalysesHold'
  <2> DEFINE row == [r EXCEPT !.status = x]
  <2>1. AnalysisBecomes(n, row)
    BY <1>7
  <2>2. /\ AnalysisForm(row) /\ row.version = r.version /\ row.status = x /\ row.by = r.by
        /\ row.writers = r.writers /\ row.snapshot = r.snapshot /\ row.links = r.links
    <3> HIDE DEF r
    <3> QED  BY <1>2, AnalysisTo
  <2> HIDE DEF row
  <2> QED  BY <1>2, <1>3, <2>1, <2>2, AnalysisRowWritten
<1> QED  BY <1>4, <1>5, <1>6, <1>7 DEF AnalysisMoves

(* Which steps move the findings, adjustments, differences, snapshots and   *)
(* analyses.                                                                *)
StatementsHold == FindingsHold /\ AdjustmentsHold /\ DifferencesHold /\ AnalysesHold

LEMMA OnlyAnalysesMove ==
  ASSUME EvidenceHeld, StatementsHold, UNCHANGED <<evidence, findings, adjustments, differences>>, AnalysesHold'
  PROVE  StatementsHold'
<1>1. EvidenceGrows
  BY DEF EvidenceGrows
<1>2. FindingsHold'
  BY <1>1, FindingsOutlive DEF StatementsHold
<1>3. Len(findings) <= Len(findings')
  BY ListLength DEF StatementsHold, FindingsHold
<1>4. AdjustmentsHold'
  BY <1>1, <1>2, <1>3, AdjustmentsOutlive DEF StatementsHold
<1>5. DifferencesHold'
  BY DifferencesOutlive DEF StatementsHold
<1> QED  BY <1>2, <1>4, <1>5 DEF StatementsHold

LEMMA StatementsOutlive ==
  ASSUME StatementsHold, EvidenceGrows, UNCHANGED <<findings, adjustments, differences, analyses>>,
         snapshots \subseteq snapshots'
  PROVE  StatementsHold'
<1>2. FindingsHold'
  BY FindingsOutlive DEF StatementsHold
<1>3. Len(findings) <= Len(findings')
  BY ListLength DEF StatementsHold, FindingsHold
<1>4. AdjustmentsHold'
  BY <1>2, <1>3, AdjustmentsOutlive DEF StatementsHold
<1>5. DifferencesHold'
  BY DifferencesOutlive DEF StatementsHold
<1>6. AnalysesHold'
  BY AnalysesOutlive DEF StatementsHold
<1> QED  BY <1>2, <1>4, <1>5, <1>6 DEF StatementsHold

LEMMA OnlyFindingsMove ==
  ASSUME EvidenceHeld, StatementsHold, UNCHANGED <<evidence, adjustments, differences, snapshots, analyses>>,
         FindingsHold', NEW more \in {0, 1}, Len(findings') = Len(findings) + more
  PROVE  StatementsHold'
<1>1. EvidenceGrows
  BY DEF EvidenceGrows
<1>2. /\ Len(findings) \in Nat /\ DOMAIN findings = 1..Len(findings)
      /\ Len(findings') \in Nat /\ DOMAIN findings' = 1..Len(findings')
  BY ListLength DEF StatementsHold, FindingsHold
<1>3. Len(findings) <= Len(findings') /\ DOMAIN findings \subseteq DOMAIN findings'
  BY <1>2
<1>4. AdjustmentsHold'
  BY <1>1, <1>3, AdjustmentsOutlive DEF StatementsHold
<1>5. DifferencesHold'
  BY <1>3, DifferencesOutlive DEF StatementsHold
<1>6. AnalysesHold'
  BY <1>1, AnalysesOutlive DEF StatementsHold
<1> QED  BY <1>4, <1>5, <1>6 DEF StatementsHold

LEMMA OnlyAdjustmentsMove ==
  ASSUME StatementsHold, EvidenceGrows, UNCHANGED <<findings, differences, snapshots, analyses>>,
         AdjustmentsHold', NEW more \in {0, 1}, Len(adjustments') = Len(adjustments) + more
  PROVE  StatementsHold'
<1>1. FindingsHold'
  BY FindingsOutlive DEF StatementsHold
<1>2. Len(adjustments) \in Nat
  BY ListLength DEF StatementsHold, AdjustmentsHold
<1>3. 0..Len(adjustments) \subseteq 0..Len(adjustments')
  BY <1>2
<1>4. DifferencesHold'
  BY <1>3, DifferencesOutlive DEF StatementsHold
<1>5. AnalysesHold'
  BY AnalysesOutlive DEF StatementsHold
<1> QED  BY <1>1, <1>4, <1>5 DEF StatementsHold

LEMMA OnlyDifferencesMove ==
  ASSUME StatementsHold, UNCHANGED <<evidence, findings, adjustments, snapshots, analyses>>, DifferencesHold'
  PROVE  StatementsHold'
<1>1. EvidenceGrows
  BY DEF EvidenceGrows
<1>2. FindingsHold'
  BY <1>1, FindingsOutlive DEF StatementsHold
<1>3. Len(findings) <= Len(findings')
  BY ListLength DEF StatementsHold, FindingsHold
<1>4. AdjustmentsHold'
  BY <1>1, <1>2, <1>3, AdjustmentsOutlive DEF StatementsHold
<1>5. AnalysesHold'
  BY <1>1, AnalysesOutlive DEF StatementsHold
<1> QED  BY <1>2, <1>4, <1>5 DEF StatementsHold


LEMMA FindingsMove ==
  ASSUME EvidenceHeld, StatementsHold, UNCHANGED evidence, NEW f \in DOMAIN findings, FindingMoves(f)
  PROVE  StatementsHold'
<1>1. UNCHANGED <<adjustments, differences, snapshots, analyses>>
  BY DEF FindingMoves, FindingRespond, FindingResolve, FindingLink, FindingUnlink, FindingBecomes
<1>2. FindingsHold' /\ Len(findings') = Len(findings)
  BY FindingMoved DEF StatementsHold
<1>3. Len(findings') = Len(findings) + 0 /\ 0 \in {0, 1}
  BY <1>2, ListLength DEF StatementsHold, FindingsHold
<1> QED  BY <1>1, <1>2, <1>3, OnlyFindingsMove

LEMMA AnalysesHaveMoved ==
  ASSUME EvidenceHeld, StatementsHold, UNCHANGED evidence, NEW n \in DOMAIN analyses, AnalysisMoves(n)
  PROVE  StatementsHold'
<1>1. UNCHANGED <<findings, adjustments, differences>>
  BY DEF AnalysisMoves, AnalysisRevise, AnalysisLink, AnalysisUnlink, AnalysisBecomes
<1>2. AnalysesHold'
  BY AnalysisHasMoved DEF StatementsHold
<1> QED  BY <1>1, <1>2, OnlyAnalysesMove

LEMMA AdjustmentsHaveMoved ==
  ASSUME EvidenceHeld, StatementsHold, UNCHANGED evidence, NEW a \in DOMAIN adjustments, AdjustmentMoves(a)
  PROVE  StatementsHold'
<1>1. UNCHANGED <<findings, differences, snapshots, analyses>>
  BY DEF AdjustmentMoves, AdjustmentPropose, AdjustmentRespond, AdjustmentApprove, AdjustmentBecomes
<1>2. AdjustmentsHold' /\ Len(adjustments') = Len(adjustments)
  BY AdjustmentMoved DEF StatementsHold
<1>3. Len(adjustments') = Len(adjustments) + 0 /\ 0 \in {0, 1}
  BY <1>2, ListLength DEF StatementsHold, AdjustmentsHold
<1>4. EvidenceGrows
  BY DEF EvidenceGrows
<1> QED  BY <1>1, <1>2, <1>3, <1>4, OnlyAdjustmentsMove

LEMMA LinksMoveStatements ==
  ASSUME EvidenceHeld, StatementsHold, UNCHANGED evidence, StatementLinkNext
  PROVE  StatementsHold'
<1>1. ASSUME NEW f \in DOMAIN findings,
             \/ \E family \in Families : FindingLink(f, family)
             \/ \E link \in findings[f].links : FindingUnlink(f, link)
      PROVE  StatementsHold'
  BY <1>1, FindingsMove DEF FindingMoves
<1>2. ASSUME NEW n \in DOMAIN analyses,
             \/ \E family \in Families : AnalysisLink(n, family)
             \/ \E link \in analyses[n].links : AnalysisUnlink(n, link)
      PROVE  StatementsHold'
  BY <1>2, AnalysesHaveMoved DEF AnalysisMoves
<1> QED  BY <1>1, <1>2 DEF StatementLinkNext

LEMMA CommandsMoveStatements ==
  ASSUME EvidenceHeld, StatementsHold, UNCHANGED evidence, FindingNext \/ AdjustmentNext
  PROVE  StatementsHold'
<1>0. EvidenceGrows
  BY DEF EvidenceGrows
<1>1. ASSUME NEW who \in Staff, FindingCreate(who)
      PROVE  StatementsHold'
  <2>1. FindingsHold' /\ Len(findings') = Len(findings) + 1 /\ 1 \in {0, 1}
    BY <1>1, FindingAdded DEF StatementsHold
  <2>2. UNCHANGED <<adjustments, differences, snapshots, analyses>>
    BY <1>1 DEF FindingCreate
  <2> QED  BY <2>1, <2>2, OnlyFindingsMove
<1>2. ASSUME NEW f \in DOMAIN findings, FindingRespond(f) \/ \E who \in Staff : FindingResolve(who, f)
      PROVE  StatementsHold'
  BY <1>2, FindingsMove DEF FindingMoves
<1>3. ASSUME NEW who \in Staff, NEW finding \in 0..Len(findings), NEW families \in SUBSET Families,
             AdjustmentCreate(who, finding, families)
      PROVE  StatementsHold'
  <2>1. AdjustmentsHold' /\ Len(adjustments') = Len(adjustments) + 1 /\ 1 \in {0, 1}
    BY <1>3, AdjustmentAdded DEF StatementsHold
  <2>2. UNCHANGED <<findings, differences, snapshots, analyses>>
    BY <1>3 DEF AdjustmentCreate
  <2> QED  BY <1>0, <2>1, <2>2, OnlyAdjustmentsMove
<1>4. ASSUME NEW a \in DOMAIN adjustments,
             \/ AdjustmentPropose(a)
             \/ \E answer \in {"CLIENT_ACCEPTED", "CLIENT_DECLINED"} : AdjustmentRespond(a, answer)
             \/ \E who \in Staff : AdjustmentApprove(who, a)
      PROVE  StatementsHold'
  BY <1>4, AdjustmentsHaveMoved DEF AdjustmentMoves
<1>5. ASSUME NEW who \in Staff, NEW complete \in BOOLEAN, AnalysisDraft(who, complete)
      PROVE  StatementsHold'
  <2>1. AnalysesHold'
    BY <1>5, AnalysisAdded DEF StatementsHold
  <2>2. UNCHANGED <<findings, adjustments, differences>>
    BY <1>5 DEF AnalysisDraft
  <2> QED  BY <2>1, <2>2, OnlyAnalysesMove
<1>6. ASSUME NEW who \in Staff, NEW complete \in BOOLEAN, NEW n \in DOMAIN analyses, AnalysisRevise(who, n, complete)
      PROVE  StatementsHold'
  BY <1>6, AnalysesHaveMoved DEF AnalysisMoves
<1>7. ASSUME NEW f \in DOMAIN findings, NEW significant, NEW disposition \in Dispositions,
             NEW a \in 0..Len(adjustments), DifferenceCreate(f, significant, disposition, a)
      PROVE  StatementsHold'
  <2>1. DifferencesHold'
    BY <1>7, DifferenceAdded DEF StatementsHold
  <2>2. UNCHANGED <<findings, adjustments, snapshots, analyses>>
    BY <1>7 DEF DifferenceCreate
  <2> QED  BY <2>1, <2>2, OnlyDifferencesMove
<1>8. CASE StatementSnapshot
  BY <1>0, <1>8, StatementsOutlive DEF StatementSnapshot
<1>9. CASE FindingNext
  BY <1>1, <1>2, <1>9 DEF FindingNext
<1>10. CASE AdjustmentNext
  BY <1>3, <1>4, <1>5, <1>6, <1>7, <1>8, <1>10 DEF AdjustmentNext
<1> QED  BY <1>9, <1>10

LEMMA ReviewsMoveStatements ==
  ASSUME EvidenceHeld, StatementsHold, StatementInv, UNCHANGED evidence, AnalysisReviewNext
  PROVE  StatementsHold'
<1>1. ASSUME NEW n \in DOMAIN analyses, NEW status \in AnalysisStatuses,
             AnalysisBecomes(n, [analyses[n] EXCEPT !.status = status])
      PROVE  StatementsHold'
  BY <1>1, AnalysesHaveMoved DEF AnalysisMoves
<1>2. ASSUME NEW who \in Staff, NEW n \in DOMAIN analyses, AnalysisSubmit(who, n)
      PROVE  StatementsHold'
  BY <1>1, <1>2 DEF AnalysisSubmit, AnalysisStatuses
<1>3. ASSUME NEW who \in Staff, NEW s \in DOMAIN submissions, NEW decision \in {"ACCEPT", "RETURN"},
             AnalysisReview(who, s, decision)
      PROVE  StatementsHold'
  <2> DEFINE n == submissions[s].item
             status == IF decision = "ACCEPT" THEN "REVIEWED" ELSE "UNDER_REWORK"
  <2>1. submissions[s].kind = "ANALYTICAL_REVIEW" /\ AnalysisBecomes(n, [analyses[n] EXCEPT !.status = status])
    BY <1>3 DEF AnalysisReview
  <2>2. n \in DOMAIN analyses
    BY <2>1 DEF StatementInv, AnalysesStand, OfAnalysis
  <2>3. status \in AnalysisStatuses
    BY DEF AnalysisStatuses, Drafts
  <2> HIDE DEF n, status
  <2> QED  BY <1>1, <2>1, <2>2, <2>3
<1> QED  BY <1>2, <1>3 DEF AnalysisReviewNext

LEMMA StatementsKept ==
  ASSUME EvidenceHeld, StatementsHold, StatementInv, FieldworkNext
  PROVE  StatementsHold'
<1>1. EvidenceGrows
  BY EvidenceKept
<1>2. CASE UNCHANGED statementVars
  BY <1>1, <1>2, StatementsOutlive DEF statementVars
<1>3. ASSUME NEW who \in Staff, NEW f \in Families, EvidenceCreate(who, f), UNCHANGED adjustments,
             UNCHANGED <<findings, differences, snapshots, analyses>>
      PROVE  StatementsHold'
  BY <1>1, <1>3, StatementsOutlive
<1>4. ASSUME NEW f \in Families, Rejudged(f), UNCHANGED <<findings, differences, snapshots, analyses>>
      PROVE  StatementsHold'
  <2>1. AdjustmentsHold' /\ Len(adjustments') = Len(adjustments)
    BY <1>1, <1>4, AdjustmentsRejudged DEF StatementsHold
  <2>2. Len(adjustments') = Len(adjustments) + 0 /\ 0 \in {0, 1}
    BY <2>1, ListLength DEF StatementsHold, AdjustmentsHold
  <2> QED  BY <1>1, <1>4, <2>1, <2>2, OnlyAdjustmentsMove
<1>5. CASE EvidenceNext
  <2>1. \/ /\ UNCHANGED <<findings, differences, snapshots, analyses>>
           /\ \E who \in Staff, f \in Families :
                (EvidenceCreate(who, f) /\ UNCHANGED adjustments) \/ Rejudged(f)
        \/ UNCHANGED statementVars
        \/ UNCHANGED evidence /\ StatementLinkNext
    BY <1>5 DEF EvidenceNext
  <2> QED  BY <1>2, <1>3, <1>4, <2>1, LinksMoveStatements
<1>6. CASE ProcedureNext \/ SampleNext \/ ReviewNext
  BY <1>2, <1>6 DEF ProcedureNext, SampleNext, ReviewNext
<1>7. CASE StatementNext
  BY <1>7, CommandsMoveStatements, ReviewsMoveStatements DEF StatementNext
<1>8. CASE HandoverNext
  <2>1. ASSUME NEW who \in Staff, HandoverToManager(who) \/ HandoverToPartner(who)
        PROVE  StatementsHold'
    BY <1>2, <2>1 DEF HandoverToManager, HandoverToPartner, fieldVars
  <2>2. ASSUME NEW who \in Staff, NEW s \in DOMAIN submissions, PartnerClearArea(who, s)
        PROVE  StatementsHold'
    BY <1>2, <2>2 DEF PartnerClearArea
  <2>3. ASSUME NEW who \in Staff, SrmCompile(who)
        PROVE  StatementsHold'
    BY <1>1, <2>3, StatementsOutlive DEF SrmCompile
  <2>4. ASSUME NEW who \in Staff, SrmClear(who)
        PROVE  StatementsHold'
    BY <1>2, <2>4 DEF SrmClear
  <2> QED  BY <1>8, <2>1, <2>2, <2>3, <2>4 DEF HandoverNext
<1> QED  BY <1>5, <1>6, <1>7, <1>8 DEF FieldworkNext

----
(* The rows of procedures.                                                  *)
RowStatuses == Editable \cup {"SUBMITTED", "REVIEWED"}

LEMMA ProceduresNow ==
  ASSUME \A q \in DOMAIN procedures' : ProcedureStands(evidence', procedures'[q])
  PROVE  ProceduresHold'
BY DEF ProceduresHold, ProcedureStands, RowForm, LinksStand, Editable

LEMMA ProceduresOutlive ==
  ASSUME ProceduresHold, EvidenceGrows, UNCHANGED procedures
  PROVE  ProceduresHold'
<1>1. \A links, version : LinksStand(evidence, links, version) => LinksStand(evidence', links, version)
  BY LinksOutlive DEF EvidenceGrows
<1>2. \A r : ProcedureStands(evidence, r) => ProcedureStands(evidence', r)
  BY <1>1 DEF ProcedureStands
<1> QED  BY <1>2, ProceduresNow DEF ProceduresHold

(* A row in its next version.                                               *)
LEMMA NextRowStands ==
  ASSUME NEW r, ProcedureStands(evidence, r), r.version < MaxVersion, NEW n, RowForm(n),
         n.version = r.version + 1, n.status \in RowStatuses, LinksStand(evidence, n.links, r.version + 1)
  PROVE  ProcedureStands(evidence, n)
<1>1. r.version \in 1..MaxVersion
  BY DEF ProcedureStands
<1>2. n.version \in 1..MaxVersion
  BY <1>1, FieldworkBounds
<1>3. LinksStand(evidence, n.links, n.version)
  OBVIOUS
<1> QED  BY <1>2, <1>3 DEF ProcedureStands, RowStatuses

LEMMA SameLinksStand ==
  ASSUME NEW r, ProcedureStands(evidence, r), NEW links \in SUBSET r.links
  PROVE  LinksStand(evidence, links, r.version + 1)
<1>1. r.version \in Nat /\ r.version + 1 \in Nat /\ r.version <= r.version + 1
  BY FieldworkBounds DEF ProcedureStands
<1>2. LinksStand(evidence, r.links, r.version)
  BY DEF ProcedureStands
<1> QED  BY <1>1, <1>2, FewerLinksStand

LEMMA ProcedureRevised ==
  ASSUME ProceduresHold, RowsForm(procedures), NEW p \in DOMAIN procedures, NEW row, RowForm(row),
         row.version = procedures[p].version, row.status \in RowStatuses,
         LinksStand(evidence, row.links, row.version + 1), Revised(p, row), UNCHANGED evidence
  PROVE  ProceduresHold' /\ DOMAIN procedures' = DOMAIN procedures
<1> DEFINE r == procedures[p]
           now == procedures'[p]
<1>1. /\ RowsForm(procedures') /\ DOMAIN procedures' = DOMAIN procedures
      /\ \A q \in DOMAIN procedures : q # p => procedures'[q] = procedures[q]
      /\ now.version = r.version + 1 /\ now.status = row.status /\ now.links = row.links
  BY RowRevised
<1>2. RowForm(now) /\ r.version < MaxVersion /\ ProcedureStands(evidence, r)
  BY <1>1 DEF RowsForm, Revised, ProceduresHold
<1>3. ProcedureStands(evidence, now)
  <2>1. LinksStand(evidence, now.links, r.version + 1) /\ now.status \in RowStatuses
    BY <1>1
  <2> HIDE DEF now, r
  <2> QED  BY <1>1, <1>2, <2>1, NextRowStands
<1>4. \A q \in DOMAIN procedures' : ProcedureStands(evidence', procedures'[q])
  BY <1>1, <1>3 DEF ProceduresHold
<1> QED  BY <1>1, <1>4, ProceduresNow

(* What a command may do to the row of a procedure.                         *)
RowMoves(p) ==
  \/ \E f \in Families : EvidenceLink(f, p)
  \/ \E link \in procedures[p].links : EvidenceUnlink(p, link)
  \/ \E who \in Staff :
       ProcedureUpdate(who, p) \/ ProcedureNotApplicable(who, p) \/ ProcedureSubmit(who, p)
  \/ \E status \in RowStatuses : Revised(p, [procedures[p] EXCEPT !.status = status])

LEMMA RowHasMoved ==
  ASSUME EvidenceHeld, ProceduresHold, RowsForm(procedures), NEW p \in DOMAIN procedures, RowMoves(p),
         UNCHANGED evidence
  PROVE  ProceduresHold' /\ DOMAIN procedures' = DOMAIN procedures
<1> DEFINE r == procedures[p]
<1>1. ProcedureStands(evidence, r)
  BY DEF ProceduresHold
<1>2. /\ RowForm(r) /\ r.version \in Nat /\ r.version + 1 \in Nat /\ r.status \in RowStatuses
      /\ LinksStand(evidence, r.links, r.version)
  BY <1>1, FieldworkBounds DEF ProcedureStands, RowForm, RowStatuses
<1>3. \A links \in SUBSET r.links : LinksStand(evidence, links, r.version + 1)
  <2> HIDE DEF r
  <2> QED  BY <1>1, SameLinksStand
<1>4. ASSUME NEW row, RowForm(row), row.version = r.version, row.status \in RowStatuses,
             LinksStand(evidence, row.links, r.version + 1), Revised(p, row)
      PROVE  ProceduresHold' /\ DOMAIN procedures' = DOMAIN procedures
  BY <1>4, ProcedureRevised
<1>5. ASSUME NEW status \in RowStatuses, Revised(p, [r EXCEPT !.status = status])
      PROVE  ProceduresHold' /\ DOMAIN procedures' = DOMAIN procedures
  <2> DEFINE row == [r EXCEPT !.status = status]
  <2>1. RowForm(row) /\ row.version = r.version /\ row.status = status /\ row.links = r.links
    <3> HIDE DEF r
    <3> QED  BY <1>2, RowTo
  <2>2. Revised(p, row)
    BY <1>5
  <2> HIDE DEF row
  <2> QED  BY <1>3, <1>4, <2>1, <2>2
<1>6. ASSUME NEW f \in Families, EvidenceLink(f, p)
      PROVE  ProceduresHold' /\ DOMAIN procedures' = DOMAIN procedures
  <2> DEFINE next == Relinked(f, r.links, r.version + 1)
             pins == Pins(next)
             row == Linked(r, next, pins)
  <2>1. Revised(p, row) /\ evidence[f] # <<>>
    BY <1>6 DEF EvidenceLink, Linked, Linkable
  <2>2. LinksStand(evidence, next, r.version + 1)
    <3> HIDE DEF r
    <3> QED  BY <1>2, <2>1, RelinkedStand
  <2> HIDE DEF next, pins
  <2>3. RowForm(row) /\ row.version = r.version /\ row.status = r.status /\ row.links = next
    <3> HIDE DEF r
    <3> QED  BY <1>2, RowLinked
  <2> HIDE DEF row
  <2> QED  BY <1>2, <1>4, <2>1, <2>2, <2>3
<1>7. ASSUME NEW link, EvidenceUnlink(p, link)
      PROVE  ProceduresHold' /\ DOMAIN procedures' = DOMAIN procedures
  <2> DEFINE rest == r.links \ {link}
             pins == Pins({l \in rest : IsLatest(l)})
             row == Unlinked(r, rest, pins)
  <2>1. Revised(p, row)
    BY <1>7 DEF EvidenceUnlink, Unlinked
  <2>2. LinksStand(evidence, rest, r.version + 1)
    BY <1>3
  <2> HIDE DEF rest, pins
  <2>3. RowForm(row) /\ row.version = r.version /\ row.status = "UNDER_REWORK" /\ row.links = rest
    <3> HIDE DEF r
    <3> QED  BY <1>2, RowUnlinked
  <2> HIDE DEF row
  <2>4. row.status \in RowStatuses
    BY <2>3 DEF RowStatuses, Editable
  <2> QED  BY <1>4, <2>1, <2>2, <2>3, <2>4
<1>8. ASSUME NEW who, ProcedureUpdate(who, p)
      PROVE  ProceduresHold' /\ DOMAIN procedures' = DOMAIN procedures
  <2> DEFINE people == r.editors \cup {who}
             pins == Pins(r.links)
             row == Written(r, who, people, pins)
  <2>1. Revised(p, row)
    BY <1>8 DEF ProcedureUpdate, Written
  <2> HIDE DEF people, pins
  <2>2. RowForm(row) /\ row.version = r.version /\ row.status = "IN_PROGRESS" /\ row.links = r.links
    <3> HIDE DEF r
    <3> QED  BY <1>2, RowWritten
  <2> HIDE DEF row
  <2>3. row.status \in RowStatuses
    BY <2>2 DEF RowStatuses, Editable
  <2> QED  BY <1>3, <1>4, <2>1, <2>2, <2>3
<1>9. ASSUME NEW who, ProcedureNotApplicable(who, p)
      PROVE  ProceduresHold' /\ DOMAIN procedures' = DOMAIN procedures
  <2> DEFINE people == IF r.editors = {} THEN {who} ELSE r.editors
             pins == Pins(r.links)
             no == FALSE
             row == Declined(r, no, people, pins)
  <2>1. Revised(p, row)
    BY <1>9 DEF ProcedureNotApplicable, Declined
  <2> HIDE DEF people, pins, no
  <2>2. RowForm(row) /\ row.version = r.version /\ row.status = "SUBMITTED" /\ row.links = r.links
    <3> HIDE DEF r
    <3> QED  BY <1>2, RowDeclined
  <2> HIDE DEF row
  <2>3. row.status \in RowStatuses
    BY <2>2 DEF RowStatuses
  <2> QED  BY <1>3, <1>4, <2>1, <2>2, <2>3
<1>10. ASSUME NEW who, ProcedureSubmit(who, p)
       PROVE  ProceduresHold' /\ DOMAIN procedures' = DOMAIN procedures
  BY <1>5, <1>10 DEF ProcedureSubmit, RowStatuses
<1> QED  BY <1>5, <1>6, <1>7, <1>8, <1>9, <1>10 DEF RowMoves

(* A workprogram that is returned opens procedures again.                   *)
LEMMA RowsReopened ==
  ASSUME ProceduresHold, NEW who, NEW s, NEW chosen, WorkprogramReturn(who, s, chosen), UNCHANGED evidence
  PROVE  ProceduresHold' /\ DOMAIN procedures' = DOMAIN procedures
<1>1. /\ \A q \in chosen : procedures[q].version < MaxVersion
      /\ procedures' = [q \in DOMAIN procedures |-> IF q \in chosen THEN Reopened(procedures[q]) ELSE procedures[q]]
  BY DEF WorkprogramReturn, Reopened
<1>2. ASSUME NEW q \in DOMAIN procedures
      PROVE  ProcedureStands(evidence, procedures'[q])
  <2> DEFINE r == procedures[q]  n == Reopened(r)
  <2>1. ProcedureStands(evidence, r)
    BY DEF ProceduresHold
  <2>2. CASE q \in chosen
    <3>1. procedures'[q] = n /\ r.version < MaxVersion
      BY <1>1, <2>2
    <3> HIDE DEF r
    <3>2. RowForm(r)
      BY <2>1 DEF ProcedureStands
    <3>3. RowForm(n) /\ n.version = r.version + 1 /\ n.status = "UNDER_REWORK" /\ n.links = r.links
      BY <3>2, RowReopened
    <3>4. LinksStand(evidence, r.links, r.version + 1)
      BY <2>1, SameLinksStand
    <3> HIDE DEF n
    <3>5. n.status \in RowStatuses
      BY <3>3 DEF RowStatuses, Editable
    <3>6. ProcedureStands(evidence, n)
      BY <2>1, <3>1, <3>3, <3>4, <3>5, NextRowStands
    <3> QED  BY <3>1, <3>6
  <2>3. CASE q \notin chosen
    BY <1>1, <2>1, <2>3
  <2> QED  BY <2>2, <2>3
<1>3. DOMAIN procedures' = DOMAIN procedures
  BY <1>1
<1>4. \A q \in DOMAIN procedures' : ProcedureStands(evidence', procedures'[q])
  BY <1>2, <1>3
<1> QED  BY <1>3, <1>4, ProceduresNow

LEMMA NewRowStands == ProcedureStands(evidence, Fresh0)
<1> DEFINE yes == TRUE  one == 1  none == {}
           r == [version |-> one, status |-> "NOT_STARTED", applicable |-> yes, executed |-> Nobody,
                 editors |-> none, links |-> none, pins |-> none]
<1>1. Fresh0 = r
  BY DEF Fresh0
<1>2. one \in 1..MaxVersion /\ one \in Nat /\ LinksStand(evidence, none, one)
  BY NoLinksStand, FieldworkBounds
<1> HIDE DEF yes, one, none
<1>3. r.version = one /\ r.status = "NOT_STARTED" /\ r.links = none
  OBVIOUS
<1>4. RowForm(r)
  BY <1>2 DEF RowForm
<1> HIDE DEF r
<1>5. ProcedureStands(evidence, r)
  BY <1>2, <1>3, <1>4 DEF ProcedureStands, Editable
<1> QED  BY <1>1, <1>5

LEMMA RowsMovedDown ==
  ASSUME ProceduresHold, NEW p, NEW place, ProcedureInsert(p, place), UNCHANGED evidence
  PROVE  ProceduresHold' /\ DOMAIN procedures' = DOMAIN procedures \cup {p}
<1> DEFINE moved == {program.steps[i] : i \in place..Len(program.steps)}
<1>1. /\ \A q \in moved : procedures[q].version < MaxVersion
      /\ procedures' = [q \in DOMAIN procedures \cup {p} |->
           IF q = p THEN Fresh0
           ELSE IF q \in moved THEN Repinned(procedures[q], Pins(procedures[q].links)) ELSE procedures[q]]
  BY DEF ProcedureInsert, Repinned
<1> HIDE DEF moved
<1>2. ASSUME NEW q \in DOMAIN procedures, q # p
      PROVE  ProcedureStands(evidence, procedures'[q])
  <2> DEFINE r == procedures[q]  pins == Pins(r.links)  n == Repinned(r, pins)
  <2>1. ProcedureStands(evidence, r)
    BY DEF ProceduresHold
  <2>2. CASE q \in moved
    <3>1. procedures'[q] = n /\ r.version < MaxVersion
      BY <1>1, <1>2, <2>2
    <3> HIDE DEF r, pins
    <3>2. RowForm(r) /\ r.status \in RowStatuses
      BY <2>1 DEF ProcedureStands, RowStatuses
    <3>3. RowForm(n) /\ n.version = r.version + 1 /\ n.status = r.status /\ n.links = r.links
      BY <3>2, RowPinned
    <3>4. LinksStand(evidence, r.links, r.version + 1)
      BY <2>1, SameLinksStand
    <3> HIDE DEF n
    <3>5. ProcedureStands(evidence, n)
      BY <2>1, <3>1, <3>2, <3>3, <3>4, NextRowStands
    <3> QED  BY <3>1, <3>5
  <2>3. CASE q \notin moved
    BY <1>1, <1>2, <2>1, <2>3
  <2> QED  BY <2>2, <2>3
<1>3. DOMAIN procedures' = DOMAIN procedures \cup {p} /\ procedures'[p] = Fresh0
  BY <1>1
<1>4. \A q \in DOMAIN procedures' : ProcedureStands(evidence', procedures'[q])
  BY <1>2, <1>3, NewRowStands
<1> QED  BY <1>3, <1>4, ProceduresNow

----
(* The steps of the workprogram.                                            *)
LEMMA InsertedAt ==
  ASSUME NEW S, NEW s \in Seq(S), NEW e \in S, NEW i \in 1..(Len(s) + 1)
  PROVE  /\ InsertAt(s, i, e) \in Seq(S) /\ Len(InsertAt(s, i, e)) = Len(s) + 1
         /\ \A k \in 1..(Len(s) + 1) :
              InsertAt(s, i, e)[k] = IF k < i THEN s[k] ELSE IF k = i THEN e ELSE s[k - 1]
<1> DEFINE n == Len(s)
           a == SubSeq(s, 1, i - 1)
           b == <<e>>
           c == SubSeq(s, i, n)
<1>1. n \in Nat /\ i \in Int /\ i - 1 \in Int /\ n \in Int /\ 1 <= i /\ i <= n + 1
  BY LenProperties
<1>2. \A k \in 1..n : s[k] \in S
  BY ElementOfSeq
<1>3. /\ a \in Seq(S) /\ Len(a) = i - 1
      /\ \A k \in 1..(i - 1) : a[k] = s[k]
  <2>1. \A k \in 1..(i - 1) : s[k] \in S
    BY <1>1, <1>2
  <2>2. /\ a \in Seq(S) /\ Len(a) = (IF 1 <= i - 1 THEN i - 1 - 1 + 1 ELSE 0)
        /\ \A k \in 1..(i - 1 - 1 + 1) : a[k] = s[1 + k - 1]
    BY <1>1, <2>1, SubSeqProperties
  <2> HIDE DEF a
  <2> QED  BY <1>1, <2>2
<1>4. /\ c \in Seq(S) /\ Len(c) = n - i + 1
      /\ \A k \in 1..(n - i + 1) : c[k] = s[i + k - 1]
  <2>1. \A k \in i..n : s[k] \in S
    BY <1>1, <1>2
  <2>2. /\ c \in Seq(S) /\ Len(c) = (IF i <= n THEN n - i + 1 ELSE 0)
        /\ \A k \in 1..(n - i + 1) : c[k] = s[i + k - 1]
    BY <1>1, <2>1, SubSeqProperties
  <2> HIDE DEF c
  <2> QED  BY <1>1, <2>2
<1>5. b \in Seq(S) /\ Len(b) = 1 /\ b[1] = e
  OBVIOUS
<1> DEFINE ab == a \o b
<1>6. InsertAt(s, i, e) = ab \o c
  BY DEF InsertAt
<1> HIDE DEF n, a, b, c
<1>7. /\ ab \in Seq(S) /\ Len(ab) = i
      /\ \A k \in 1..i : ab[k] = IF k <= i - 1 THEN a[k] ELSE b[k - (i - 1)]
  <2>1. /\ ab \in Seq(S) /\ Len(ab) = Len(a) + Len(b)
        /\ \A k \in 1..(Len(a) + Len(b)) : ab[k] = IF k <= Len(a) THEN a[k] ELSE b[k - Len(a)]
    BY <1>3, <1>5, ConcatProperties
  <2> HIDE DEF ab
  <2>2. Len(a) + Len(b) = i
    BY <1>1, <1>3, <1>5
  <2> QED  BY <1>3, <2>1, <2>2
<1> HIDE DEF ab
<1>8. \A k \in 1..i : ab[k] = IF k < i THEN s[k] ELSE e
  <2>1. ASSUME NEW k \in 1..i, k < i PROVE ab[k] = s[k]
    BY <1>1, <1>3, <1>7, <2>1
  <2>2. ab[i] = e
    <3>1. i \in 1..i /\ ~(i <= i - 1) /\ i - (i - 1) = 1
      BY <1>1
    <3> QED  BY <1>5, <1>7, <3>1
  <2>3. \A k \in 1..i : k < i \/ k = i
    BY <1>1
  <2> QED  BY <1>1, <2>1, <2>2, <2>3
<1>9. /\ ab \o c \in Seq(S) /\ Len(ab \o c) = n + 1
      /\ \A k \in 1..(n + 1) : (ab \o c)[k] = IF k <= i THEN ab[k] ELSE c[k - i]
  <2> DEFINE t == ab \o c
  <2>1. /\ t \in Seq(S) /\ Len(t) = Len(ab) + Len(c)
        /\ \A k \in 1..(Len(ab) + Len(c)) : t[k] = IF k <= Len(ab) THEN ab[k] ELSE c[k - Len(ab)]
    BY <1>4, <1>7, ConcatProperties
  <2> HIDE DEF t
  <2>2. Len(ab) + Len(c) = n + 1
    BY <1>1, <1>4, <1>7
  <2>3. /\ t \in Seq(S) /\ Len(t) = n + 1
        /\ \A k \in 1..(n + 1) : t[k] = IF k <= i THEN ab[k] ELSE c[k - i]
    BY <1>7, <2>1, <2>2
  <2> QED  BY <2>3 DEF t
<1>10. ASSUME NEW k \in 1..(n + 1)
       PROVE  InsertAt(s, i, e)[k] = IF k < i THEN s[k] ELSE IF k = i THEN e ELSE s[k - 1]
  <2>1. CASE k <= i
    <3>1. k \in 1..i /\ (k < i \/ k = i) /\ ~(i < i)
      BY <1>1, <2>1
    <3>2. InsertAt(s, i, e)[k] = IF k < i THEN s[k] ELSE e
      BY <1>6, <1>8, <1>9, <2>1, <3>1
    <3> QED  BY <3>1, <3>2
  <2>2. CASE ~(k <= i)
    <3>1. k - i \in 1..(n - i + 1) /\ i + (k - i) - 1 = k - 1 /\ ~(k < i) /\ k # i
      BY <1>1, <2>2
    <3>2. InsertAt(s, i, e)[k] = c[k - i]
      BY <1>6, <1>9, <2>2
    <3>3. c[k - i] = s[i + (k - i) - 1]
      BY <1>4, <3>1
    <3> QED  BY <3>1, <3>2, <3>3
  <2> QED  BY <2>1, <2>2
<1> QED  BY <1>6, <1>9, <1>10 DEF n

(* Every procedure is one step, and every step another procedure.           *)
StepsOf(steps, rows) ==
  /\ steps \in Seq(rows) /\ ToSet(steps) = rows
  /\ \A i, j \in 1..Len(steps) : steps[i] = steps[j] => i = j

LEMMA StepInserted ==
  ASSUME NEW rows, NEW steps, StepsOf(steps, rows), NEW p, p \notin rows, NEW place \in 1..(Len(steps) + 1)
  PROVE  StepsOf(InsertAt(steps, place, p), rows \cup {p})
<1> DEFINE all == rows \cup {p}
           t == InsertAt(steps, place, p)
           n == Len(steps)
<1>1. /\ steps \in Seq(rows) /\ ToSet(steps) = rows
      /\ \A i, j \in 1..n : steps[i] = steps[j] => i = j
  BY DEF StepsOf
<1>2. n \in Nat /\ DOMAIN steps = 1..n /\ \A k \in 1..n : steps[k] \in rows
  BY <1>1, LenProperties, ElementOfSeq
<1>3. steps \in Seq(all)
  <2>1. rows \subseteq all
    OBVIOUS
  <2> HIDE DEF all
  <2> QED  BY <1>1, <2>1, SeqMonotonic
<1>4. /\ t \in Seq(all) /\ Len(t) = n + 1
      /\ \A k \in 1..(n + 1) : t[k] = IF k < place THEN steps[k] ELSE IF k = place THEN p ELSE steps[k - 1]
  <2>1. p \in all
    OBVIOUS
  <2> HIDE DEF all, t
  <2> QED  BY <1>3, <2>1, InsertedAt DEF t
<1> HIDE DEF t, n
<1>5. place \in 1..(n + 1) /\ place \in Nat
  BY <1>2 DEF n
<1> DEFINE from == [k \in 1..(n + 1) |-> IF k < place THEN k ELSE k - 1]
<1>6. \A k \in 1..(n + 1) : k # place => from[k] \in 1..n /\ t[k] = steps[from[k]]
  BY <1>2, <1>4, <1>5
<1>7. \A k, l \in 1..(n + 1) : k # place /\ l # place /\ from[k] = from[l] => k = l
  BY <1>2, <1>5
<1>8. \A k \in 1..n : \E l \in 1..(n + 1) : l # place /\ from[l] = k
  <2>1. ASSUME NEW k \in 1..n, k < place PROVE k \in 1..(n + 1) /\ k # place /\ from[k] = k
    BY <1>2, <1>5, <2>1
  <2>2. ASSUME NEW k \in 1..n, ~(k < place) PROVE k + 1 \in 1..(n + 1) /\ k + 1 # place /\ from[k + 1] = k
    BY <1>2, <1>5, <2>2
  <2> QED  BY <2>1, <2>2
<1> HIDE DEF from
<1>9. t[place] = p
  BY <1>4, <1>5
<1>10. DOMAIN t = 1..(n + 1)
  BY <1>4, LenProperties
<1>11. ToSet(t) = all
  <2>1. ASSUME NEW x \in ToSet(t) PROVE x \in all
    <3>1. PICK k \in 1..(n + 1) : x = t[k]
      BY <1>10 DEF ToSet
    <3> QED  BY <1>2, <1>6, <1>9, <3>1
  <2>2. ASSUME NEW x \in rows PROVE x \in ToSet(t)
    <3>1. PICK k \in 1..n : x = steps[k]
      BY <1>1, <1>2 DEF ToSet
    <3>2. PICK l \in 1..(n + 1) : l # place /\ from[l] = k
      BY <1>8
    <3>3. t[l] = x
      BY <1>6, <3>1, <3>2
    <3> QED  BY <1>10, <3>3 DEF ToSet
  <2>3. p \in ToSet(t)
    BY <1>5, <1>9, <1>10 DEF ToSet
  <2> QED  BY <2>1, <2>2, <2>3
<1>12. ASSUME NEW i \in 1..(n + 1), NEW j \in 1..(n + 1), t[i] = t[j]
       PROVE  i = j
  <2>1. CASE i = place /\ j # place
    BY <1>2, <1>6, <1>9, <1>12, <2>1
  <2>2. CASE i # place /\ j = place
    BY <1>2, <1>6, <1>9, <1>12, <2>2
  <2>3. CASE i # place /\ j # place
    <3>1. from[i] \in 1..n /\ from[j] \in 1..n /\ steps[from[i]] = steps[from[j]]
      BY <1>6, <1>12, <2>3
    <3>2. from[i] = from[j]
      BY <1>1, <3>1
    <3> QED  BY <1>7, <2>3, <3>2
  <2> QED  BY <2>1, <2>2, <2>3
<1>13. StepsOf(t, all)
  BY <1>4, <1>11, <1>12 DEF StepsOf
<1> QED  BY <1>13 DEF t

LEMMA StepsCounted ==
  ASSUME NEW rows, NEW steps, StepsOf(steps, rows)
  PROVE  IsFiniteSet(rows) /\ Len(steps) = Cardinality(rows)
<1> DEFINE n == Len(steps)
           D == 1..n
<1>1. /\ n \in Nat /\ DOMAIN steps = D /\ steps \in [D -> rows]
      /\ ToSet(steps) = rows
      /\ \A i, j \in D : steps[i] = steps[j] => i = j
  BY LenProperties DEF StepsOf
<1>2. IsFiniteSet(D) /\ Cardinality(D) = n
  <2>1. /\ IsFiniteSet(1..n)
        /\ Cardinality(1..n) = IF 1 > n THEN 0 ELSE n - 1 + 1
    BY <1>1, FS_Interval
  <2> QED  BY <1>1, <2>1
<1> HIDE DEF n, D
<1>3. \A x \in rows : \E i \in D : steps[i] = x
  BY <1>1 DEF ToSet
<1>4. steps \in Bijection(D, rows)
  BY <1>1, <1>3 DEF Bijection, Injection, Surjection, IsInjective
<1>5. ExistsBijection(D, rows)
  BY <1>4 DEF ExistsBijection
<1> QED  BY <1>2, <1>5, FS_Bijection DEF n

ProgramStatuses == Editable \cup {"ABSENT", "SUBMITTED", "REVIEWED", "PARTNER_CLEARED"}

ProgramHolds(area) ==
  /\ area.status \in ProgramStatuses
  /\ area.band \in Bands \cup {"GREEN"} /\ area.version \in Nat
  /\ area.assigned \in Staff \cup {Nobody}
  /\ area.status = "ABSENT" => area = Absent

LEMMA StepsAre == StepsHold <=> ProgramHolds(program) /\ StepsOf(program.steps, DOMAIN procedures)
BY DEF StepsHold, ProgramHolds, StepsOf, ProgramStatuses

LEMMA StepsNow ==
  ASSUME ProgramHolds(program'), StepsOf(program'.steps, DOMAIN procedures')
  PROVE  StepsHold'
BY DEF StepsHold, ProgramHolds, StepsOf, ProgramStatuses, Editable, Absent, Staff

LEMMA StepsUntouched ==
  ASSUME StepsHold, UNCHANGED program, DOMAIN procedures' = DOMAIN procedures
  PROVE  StepsHold'
<1>1. ProgramHolds(program') /\ StepsOf(program'.steps, DOMAIN procedures')
  BY StepsAre
<1> QED  BY <1>1, StepsNow

LEMMA ProgramHasMoved ==
  ASSUME StepsHold, ProgramForm, NEW status \in ProgramStatuses \ {"ABSENT"}, ProgramTo(status),
         DOMAIN procedures' = DOMAIN procedures
  PROVE  StepsHold'
<1> DEFINE r == program
           version == r.version + 1
           n1 == [r EXCEPT !.status = status]
           n2 == [n1 EXCEPT !.version = version]
<1>1. program' = n2
  BY DEF ProgramTo
<1>2. r = [status |-> r.status, version |-> r.version, band |-> r.band, assigned |-> r.assigned, steps |-> r.steps]
  BY DEF ProgramForm
<1>3. ProgramHolds(r) /\ StepsOf(r.steps, DOMAIN procedures)
  BY StepsAre
<1>4. version \in Nat
  BY <1>3 DEF ProgramHolds
<1> HIDE DEF version
<1>5. n1 = [status |-> status, version |-> r.version, band |-> r.band, assigned |-> r.assigned, steps |-> r.steps]
  <2> HIDE DEF r
  <2> QED  BY <1>2
<1>6. n2 = [status |-> status, version |-> version, band |-> r.band, assigned |-> r.assigned, steps |-> r.steps]
  <2> HIDE DEF r, n1
  <2> QED  BY <1>5
<1> HIDE DEF n1, n2
<1>7. /\ n2.status = status /\ n2.version = version /\ n2.band = r.band /\ n2.assigned = r.assigned
      /\ n2.steps = r.steps
  BY <1>6
<1>8. ProgramHolds(n2)
  BY <1>3, <1>4, <1>7 DEF ProgramHolds
<1>9. ProgramHolds(program') /\ StepsOf(program'.steps, DOMAIN procedures')
  BY <1>1, <1>3, <1>7, <1>8
<1> QED  BY <1>9, StepsNow

LEMMA StepsProvided ==
  ASSUME NEW who \in Staff, NEW band \in Bands, WorkprogramProvision(who, band), UNCHANGED evidence
  PROVE  StepsHold' /\ ProceduresHold'
<1> DEFINE one == 1
           area == [status |-> "IN_PROGRESS", version |-> one, band |-> band, assigned |-> who, steps |-> Template]
<1>1. program' = area /\ procedures' = [p \in ToSet(Template) |-> Fresh0]
  BY DEF WorkprogramProvision
<1>2. StepsOf(Template, ToSet(Template))
  <2>1. Template \in Seq(Procedures) /\ \A i, j \in DOMAIN Template : Template[i] = Template[j] => i = j
    BY FieldworkConstants
  <2>2. IsList(Template)
    BY <2>1, SequencesAreLists
  <2>3. DOMAIN Template = 1..Len(Template)
    BY <2>2, ListLength
  <2>4. ToSet(Template) = Range(Template)
    BY DEF ToSet, Range
  <2> QED  BY <2>1, <2>2, <2>3, <2>4 DEF StepsOf, IsList
<1>3. one \in Nat
  OBVIOUS
<1> HIDE DEF one
<1>4. ProgramHolds(area) /\ area.steps = Template
  BY <1>3 DEF ProgramHolds, ProgramStatuses, Editable
<1> HIDE DEF area
<1>5. StepsHold'
  BY <1>1, <1>2, <1>4, StepsNow
<1>6. ProceduresHold'
  <2>1. \A q \in DOMAIN procedures' : ProcedureStands(evidence', procedures'[q])
    BY <1>1, NewRowStands
  <2> QED  BY <2>1, ProceduresNow
<1> QED  BY <1>5, <1>6

LEMMA StepsInserted ==
  ASSUME StepsHold, ProceduresHold, ProgramForm, NEW p, NEW place \in 1..(Len(program.steps) + 1),
         ProcedureInsert(p, place), UNCHANGED evidence
  PROVE  StepsHold' /\ ProceduresHold' /\ DOMAIN procedures \subseteq DOMAIN procedures'
<1> DEFINE r == program
           steps == InsertAt(r.steps, place, p)
           n == [r EXCEPT !.steps = steps]
<1>1. program' = n /\ p \notin DOMAIN procedures
  BY DEF ProcedureInsert
<1>2. ProceduresHold' /\ DOMAIN procedures' = DOMAIN procedures \cup {p}
  BY RowsMovedDown
<1>3. ProgramHolds(r) /\ StepsOf(r.steps, DOMAIN procedures)
  BY StepsAre
<1>4. r.status # "ABSENT"
  BY DEF ProcedureInsert
<1>5. StepsOf(steps, DOMAIN procedures')
  <2>1. place \in 1..(Len(r.steps) + 1)
    OBVIOUS
  <2> HIDE DEF r
  <2> QED  BY <1>1, <1>2, <1>3, <2>1, StepInserted
<1>6. r = [status |-> r.status, version |-> r.version, band |-> r.band, assigned |-> r.assigned, steps |-> r.steps]
  BY DEF ProgramForm
<1> HIDE DEF steps
<1>7. n = [status |-> r.status, version |-> r.version, band |-> r.band, assigned |-> r.assigned, steps |-> steps]
  <2> HIDE DEF r
  <2> QED  BY <1>6
<1> HIDE DEF n
<1>8. /\ n.status = r.status /\ n.version = r.version /\ n.band = r.band /\ n.assigned = r.assigned
      /\ n.steps = steps
  BY <1>7
<1>9. ProgramHolds(n)
  BY <1>3, <1>4, <1>8 DEF ProgramHolds
<1>10. ProgramHolds(program') /\ StepsOf(program'.steps, DOMAIN procedures')
  BY <1>1, <1>5, <1>8, <1>9
<1>11. StepsHold'
  BY <1>10, StepsNow
<1> QED  BY <1>2, <1>11


AreaHolds == ProceduresHold /\ StepsHold

LEMMA AreaOutlives ==
  ASSUME AreaHolds, EvidenceGrows, UNCHANGED <<program, procedures>>
  PROVE  AreaHolds' /\ DOMAIN procedures \subseteq DOMAIN procedures'
BY ProceduresOutlive, StepsUntouched DEF AreaHolds

LEMMA AreaMovesOn ==
  ASSUME AreaHolds, EvidenceGrows, WorkInv, UNCHANGED procedures,
         NEW status \in ProgramStatuses \ {"ABSENT"}, ProgramTo(status)
  PROVE  AreaHolds' /\ DOMAIN procedures \subseteq DOMAIN procedures'
<1>1. ProgramForm
  BY DEF WorkInv
<1>2. StepsHold'
  BY <1>1, ProgramHasMoved DEF AreaHolds
<1> QED  BY <1>2, ProceduresOutlive DEF AreaHolds

LEMMA AreaRowMoves ==
  ASSUME EvidenceHeld, AreaHolds, WorkInv, UNCHANGED <<evidence, program>>, NEW p \in DOMAIN procedures, RowMoves(p)
  PROVE  AreaHolds' /\ DOMAIN procedures \subseteq DOMAIN procedures'
<1>1. ProceduresHold' /\ DOMAIN procedures' = DOMAIN procedures
  BY WorkParts, RowHasMoved DEF AreaHolds
<1>2. StepsHold'
  BY <1>1, StepsUntouched DEF AreaHolds
<1> QED  BY <1>1, <1>2 DEF AreaHolds

LEMMA ProceduresMoveTheArea ==
  ASSUME EvidenceHeld, AreaHolds, WorkInv, ProcedureNext
  PROVE  AreaHolds' /\ DOMAIN procedures \subseteq DOMAIN procedures'
<1>0. UNCHANGED evidence
  BY DEF ProcedureNext
<1>1. ASSUME NEW who \in Staff, NEW band \in Bands, WorkprogramProvision(who, band)
      PROVE  AreaHolds' /\ DOMAIN procedures \subseteq DOMAIN procedures'
  <2>1. program.status = "ABSENT"
    BY <1>1 DEF WorkprogramProvision, Absent
  <2>2. DOMAIN procedures = {}
    BY <2>1 DEF WorkInv, ProgramForm
  <2> QED  BY <1>0, <1>1, <2>2, StepsProvided DEF AreaHolds
<1>2. ASSUME NEW p \in Procedures, NEW place \in 1..(Len(program.steps) + 1), ProcedureInsert(p, place)
      PROVE  AreaHolds' /\ DOMAIN procedures \subseteq DOMAIN procedures'
  <2>1. ProgramForm
    BY DEF WorkInv
  <2> QED  BY <1>0, <1>2, <2>1, StepsInserted DEF AreaHolds
<1>3. ASSUME NEW who \in Staff, NEW p \in DOMAIN procedures,
             ProcedureUpdate(who, p) \/ ProcedureNotApplicable(who, p) \/ ProcedureSubmit(who, p)
      PROVE  AreaHolds' /\ DOMAIN procedures \subseteq DOMAIN procedures'
  <2>1. UNCHANGED program
    BY <1>3 DEF ProcedureUpdate, ProcedureNotApplicable, ProcedureSubmit
  <2>2. RowMoves(p)
    BY <1>3 DEF RowMoves
  <2> QED  BY <1>0, <2>1, <2>2, AreaRowMoves
<1> QED  BY <1>1, <1>2, <1>3 DEF ProcedureNext

LEMMA ReviewsMoveTheArea ==
  ASSUME EvidenceHeld, AreaHolds, WorkInv, ReviewNext
  PROVE  AreaHolds' /\ DOMAIN procedures \subseteq DOMAIN procedures'
<1>0. UNCHANGED evidence /\ EvidenceGrows
  BY DEF ReviewNext, EvidenceGrows
<1>1. ASSUME NEW who \in Staff, NEW s \in DOMAIN submissions, NEW decision \in {"ACCEPT", "RETURN"},
             ProcedureReview(who, s, decision)
      PROVE  AreaHolds' /\ DOMAIN procedures \subseteq DOMAIN procedures'
  <2> DEFINE p == submissions[s].item
  <2>1. submissions[s].kind = "PROCEDURE" /\ UNCHANGED program
    BY <1>1 DEF ProcedureReview
  <2>2. p \in DOMAIN procedures
    BY <2>1 DEF WorkInv, WorkStands, OfRow
  <2>3. RowMoves(p)
    <3>1. \/ Revised(p, [procedures[p] EXCEPT !.status = "REVIEWED"])
          \/ Revised(p, [procedures[p] EXCEPT !.status = "UNDER_REWORK"])
      BY <1>1 DEF ProcedureReview
    <3> HIDE DEF p
    <3> QED  BY <3>1 DEF RowMoves, RowStatuses, Editable
  <2> HIDE DEF p
  <2> QED  BY <1>0, <2>1, <2>2, <2>3, AreaRowMoves
<1>2. ASSUME NEW who \in Staff, WorkprogramSubmit(who)
      PROVE  AreaHolds' /\ DOMAIN procedures \subseteq DOMAIN procedures'
  BY <1>0, <1>2, AreaMovesOn DEF WorkprogramSubmit, ProgramStatuses
<1>3. ASSUME NEW who \in Staff, NEW s \in DOMAIN submissions, WorkprogramAccept(who, s)
      PROVE  AreaHolds' /\ DOMAIN procedures \subseteq DOMAIN procedures'
  BY <1>0, <1>3, AreaMovesOn DEF WorkprogramAccept, ProgramStatuses
<1>4. ASSUME NEW who \in Staff, NEW s \in DOMAIN submissions, NEW chosen \in SUBSET DOMAIN procedures,
             WorkprogramReturn(who, s, chosen)
      PROVE  AreaHolds' /\ DOMAIN procedures \subseteq DOMAIN procedures'
  <2>1. ProceduresHold' /\ DOMAIN procedures' = DOMAIN procedures
    BY <1>0, <1>4, RowsReopened DEF AreaHolds
  <2>2. ProgramTo("UNDER_REWORK") /\ "UNDER_REWORK" \in ProgramStatuses \ {"ABSENT"}
    BY <1>4 DEF WorkprogramReturn, ProgramStatuses, Editable
  <2>3. StepsHold'
    BY <2>1, <2>2, ProgramHasMoved DEF AreaHolds, WorkInv
  <2> QED  BY <2>1, <2>3 DEF AreaHolds
<1>5. ASSUME UNCHANGED <<program, procedures>>
      PROVE  AreaHolds' /\ DOMAIN procedures \subseteq DOMAIN procedures'
  BY <1>0, <1>5, AreaOutlives
<1>6. ASSUME NEW who \in Staff,
             \/ GoingConcernSave(who)
             \/ \E g \in DOMAIN assessments : GoingConcernSubmit(who, g)
             \/ \E r \in DOMAIN srms : SrmSubmit(who, r)
             \/ \E s \in DOMAIN submissions, decision \in {"ACCEPT", "RETURN"} : GoingConcernReview(who, s, decision)
      PROVE  AreaHolds' /\ DOMAIN procedures \subseteq DOMAIN procedures'
  BY <1>5, <1>6 DEF GoingConcernSave, GoingConcernSubmit, SrmSubmit, GoingConcernReview
<1>7. CASE UNCHANGED areaVars
  BY <1>5, <1>7 DEF areaVars
<1> QED  BY <1>1, <1>2, <1>3, <1>4, <1>6, <1>7 DEF ReviewNext

LEMMA AreaKept ==
  ASSUME EvidenceHeld, AreaHolds, WorkInv, FieldworkNext
  PROVE  AreaHolds' /\ DOMAIN procedures \subseteq DOMAIN procedures'
<1>1. EvidenceGrows
  BY EvidenceKept
<1>2. ASSUME UNCHANGED <<program, procedures>>
      PROVE  AreaHolds' /\ DOMAIN procedures \subseteq DOMAIN procedures'
  BY <1>1, <1>2, AreaOutlives
<1>3. ASSUME UNCHANGED evidence, NEW p \in DOMAIN procedures,
             \/ \E f \in Families : EvidenceLink(f, p)
             \/ \E link \in procedures[p].links : EvidenceUnlink(p, link)
      PROVE  AreaHolds' /\ DOMAIN procedures \subseteq DOMAIN procedures'
  <2>1. UNCHANGED program
    BY <1>3 DEF EvidenceLink, EvidenceUnlink
  <2>2. RowMoves(p)
    BY <1>3 DEF RowMoves
  <2> QED  BY <1>3, <2>1, <2>2, AreaRowMoves
<1>4. CASE EvidenceNext
  <2>1. \/ UNCHANGED areaVars
        \/ /\ UNCHANGED evidence
           /\ \E p \in DOMAIN procedures :
                \/ \E f \in Families : EvidenceLink(f, p)
                \/ \E link \in procedures[p].links : EvidenceUnlink(p, link)
    BY <1>4 DEF EvidenceNext
  <2> QED  BY <1>2, <1>3, <2>1 DEF areaVars
<1>5. CASE SampleNext \/ StatementNext
  BY <1>2, <1>5 DEF SampleNext, StatementNext, areaVars
<1>6. CASE HandoverNext
  <2>1. ASSUME NEW who \in Staff, NEW s \in DOMAIN submissions, PartnerClearArea(who, s)
        PROVE  AreaHolds' /\ DOMAIN procedures \subseteq DOMAIN procedures'
    BY <1>1, <2>1, AreaMovesOn DEF PartnerClearArea, ProgramStatuses
  <2>2. ASSUME NEW who \in Staff,
               HandoverToManager(who) \/ HandoverToPartner(who) \/ SrmCompile(who) \/ SrmClear(who)
        PROVE  AreaHolds' /\ DOMAIN procedures \subseteq DOMAIN procedures'
    BY <1>2, <2>2 DEF HandoverToManager, HandoverToPartner, SrmCompile, SrmClear, fieldVars, areaVars
  <2> QED  BY <1>6, <2>1, <2>2 DEF HandoverNext
<1> QED  BY <1>4, <1>5, <1>6, ProceduresMoveTheArea, ReviewsMoveTheArea DEF FieldworkNext

----
(* Samples are of procedures of the workprogram, or of none.                *)
LEMMA PlanStaysOf ==
  ASSUME SamplesHold, NEW n \in DOMAIN plans, NEW e, e.procedure = plans[n].procedure,
         plans' = [plans EXCEPT ![n] = e]
  PROVE  DOMAIN plans' = DOMAIN plans /\ \A k \in DOMAIN plans : plans'[k].procedure = plans[k].procedure
<1>1. IsList(plans)
  BY DEF SamplesHold
<1>2. /\ DOMAIN plans' = DOMAIN plans /\ plans'[n] = e
      /\ \A k \in DOMAIN plans : k # n => plans'[k] = plans[k]
  BY <1>1, ListWritten
<1> QED  BY <1>2

LEMMA PlansStayOf ==
  ASSUME SamplesHold, NEW n \in DOMAIN plans,
         \/ \E r, test : TestBecomes(n, r, test)
         \/ \E outcome, open : SampleEvaluate(n, outcome, open)
  PROVE  DOMAIN plans' = DOMAIN plans /\ \A k \in DOMAIN plans : plans'[k].procedure = plans[k].procedure
<1> DEFINE old == plans[n]
<1>1. /\ plans = [k \in DOMAIN plans |-> plans[k]]
      /\ old = [procedure |-> old.procedure, rows |-> old.rows, tests |-> old.tests, evaluation |-> old.evaluation]
  BY ListLength DEF SamplesHold, PlanForm
<1>2. ASSUME NEW r, NEW test, TestBecomes(n, r, test)
      PROVE  DOMAIN plans' = DOMAIN plans /\ \A k \in DOMAIN plans : plans'[k].procedure = plans[k].procedure
  <2> DEFINE new == [test EXCEPT !.version = plans[n].tests[r].version + 1]
             tests == [old.tests EXCEPT ![r] = new]
             e == [old EXCEPT !.tests = tests]
  <2>1. plans' = [plans EXCEPT ![n].tests[r] = new]
    BY <1>2 DEF TestBecomes
  <2> HIDE DEF new
  <2>2. plans' = [plans EXCEPT ![n] = e]
    BY <1>1, <2>1
  <2> HIDE DEF tests
  <2>3. e.procedure = old.procedure
    <3> HIDE DEF old
    <3> QED  BY <1>1
  <2> HIDE DEF e
  <2> QED  BY <2>2, <2>3, PlanStaysOf
<1>3. ASSUME NEW outcome, NEW open, SampleEvaluate(n, outcome, open)
      PROVE  DOMAIN plans' = DOMAIN plans /\ \A k \in DOMAIN plans : plans'[k].procedure = plans[k].procedure
  <2> DEFINE judged == [tests |-> TestVersions(n), result |-> IF AllTested(n) THEN outcome ELSE "INCOMPLETE"]
             e == [old EXCEPT !.evaluation = judged]
  <2>1. plans' = [plans EXCEPT ![n].evaluation = judged]
    BY <1>3 DEF SampleEvaluate
  <2> HIDE DEF judged
  <2>2. plans' = [plans EXCEPT ![n] = e]
    BY <1>1, <2>1
  <2>3. e.procedure = old.procedure
    <3> HIDE DEF old
    <3> QED  BY <1>1
  <2> HIDE DEF e
  <2> QED  BY <2>2, <2>3, PlanStaysOf
<1> QED  BY <1>2, <1>3

LEMMA PlansKept ==
  ASSUME SamplesHold, PlansOfProcedures, FieldworkNext, DOMAIN procedures \subseteq DOMAIN procedures'
  PROVE  PlansOfProcedures'
<1>0. \A k \in DOMAIN plans : plans[k].procedure \in DOMAIN procedures' \cup {Nobody}
  BY DEF PlansOfProcedures
<1>1. CASE DOMAIN plans' = DOMAIN plans /\ \A k \in DOMAIN plans : plans'[k].procedure = plans[k].procedure
  BY <1>0, <1>1 DEF PlansOfProcedures
<1>2. CASE UNCHANGED samplingVars
  BY <1>1, <1>2 DEF samplingVars
<1>3. ASSUME NEW n \in DOMAIN plans, \E r, test : TestBecomes(n, r, test)
      PROVE  PlansOfProcedures'
  BY <1>1, <1>3, PlansStayOf
<1>4. CASE EvidenceNext
  <2>1. ASSUME NEW n \in DOMAIN plans, NEW r \in plans[n].rows,
               \/ \E f \in Families : SampleLink(n, r, f)
               \/ \E link \in plans[n].tests[r].links : SampleUnlink(n, r, link)
        PROVE  PlansOfProcedures'
    BY <1>3, <2>1 DEF SampleLink, SampleUnlink
  <2> QED  BY <1>2, <1>4, <2>1 DEF EvidenceNext
<1>5. CASE SampleNext
  <2>1. CASE SamplingPolicyNext
    <3>1. UNCHANGED plans
      BY <2>1 DEF SamplingPolicyNext, PolicyCreate, PolicyTakesEffect, PopulationCreate, PolicyRetire, PolicyApprove
    <3> QED  BY <1>1, <3>1
  <2>2. ASSUME NEW p \in DOMAIN procedures \cup {Nobody}, NEW drawn, SamplingPlan(p, drawn, Open(p))
        PROVE  PlansOfProcedures'
    <3> DEFINE e == [procedure |-> p, rows |-> drawn, tests |-> [r \in drawn |-> Untested],
                     evaluation |-> Unevaluated]
               n == Len(plans) + 1
    <3>1. plans' = Append(plans, e) /\ IsList(plans)
      BY <2>2 DEF SamplingPlan, SamplesHold
    <3>2. e.procedure = p
      OBVIOUS
    <3> HIDE DEF e
    <3>3. /\ DOMAIN plans' = DOMAIN plans \cup {n} /\ plans'[n] = e
          /\ \A k \in DOMAIN plans : plans'[k] = plans[k]
      BY <3>1, Longer
    <3> HIDE DEF n
    <3> QED  BY <1>0, <3>2, <3>3 DEF PlansOfProcedures
  <2>3. ASSUME NEW n \in DOMAIN plans, NEW r, NEW open,
               (\E f \in Families : SampleTest(n, r, f, open)) \/ SampleUntest(n, r, open)
        PROVE  PlansOfProcedures'
    BY <1>3, <2>3 DEF SampleTest, SampleUntest
  <2>4. ASSUME NEW n \in DOMAIN plans, NEW outcome, NEW open, SampleEvaluate(n, outcome, open)
        PROVE  PlansOfProcedures'
    BY <1>1, <2>4, PlansStayOf
  <2> QED  BY <1>5, <2>1, <2>2, <2>3, <2>4 DEF SampleNext
<1>6. CASE ProcedureNext \/ StatementNext \/ ReviewNext
  BY <1>2, <1>6 DEF ProcedureNext, StatementNext, ReviewNext
<1>7. CASE HandoverNext
  BY <1>2, <1>7 DEF HandoverNext
<1> QED  BY <1>4, <1>5, <1>6, <1>7 DEF FieldworkNext

----
(* Findings and confirmations are added, never taken away.                  *)
LEMMA FindingsGrow ==
  ASSUME EvidenceHeld, FindingsHold, FieldworkNext
  PROVE  DOMAIN findings \subseteq DOMAIN findings'
<1>0. IsList(findings) /\ Len(findings) \in Nat /\ DOMAIN findings = 1..Len(findings)
  BY ListLength DEF FindingsHold
<1>1. ASSUME NEW f \in DOMAIN findings, FindingMoves(f), UNCHANGED evidence
      PROVE  DOMAIN findings \subseteq DOMAIN findings'
  <2>1. IsList(findings') /\ Len(findings') = Len(findings)
    BY <1>1, FindingMoved DEF FindingsHold
  <2>2. DOMAIN findings' = 1..Len(findings')
    BY <2>1, ListLength
  <2> QED  BY <1>0, <2>1, <2>2
<1>2. ASSUME NEW who \in Staff, FindingCreate(who)
      PROVE  DOMAIN findings \subseteq DOMAIN findings'
  BY <1>0, <1>2, Longer DEF FindingCreate
<1>3. CASE EvidenceNext
  <2>1. UNCHANGED findings \/ (StatementLinkNext /\ UNCHANGED evidence)
    BY <1>3 DEF EvidenceNext, statementVars
  <2>2. ASSUME NEW n \in DOMAIN analyses,
               \/ \E family \in Families : AnalysisLink(n, family)
               \/ \E link \in analyses[n].links : AnalysisUnlink(n, link)
        PROVE  UNCHANGED findings
    BY <2>2 DEF AnalysisLink, AnalysisUnlink, AnalysisBecomes
  <2> QED  BY <1>1, <2>1, <2>2 DEF StatementLinkNext, FindingMoves
<1>4. CASE ProcedureNext \/ SampleNext \/ ReviewNext
  BY <1>4 DEF ProcedureNext, SampleNext, ReviewNext, statementVars
<1>5. CASE StatementNext
  <2>1. UNCHANGED evidence
    BY <1>5 DEF StatementNext
  <2>2. CASE FindingNext
    BY <1>1, <1>2, <2>1, <2>2 DEF FindingNext, FindingMoves
  <2>3. CASE AdjustmentNext
    <3>1. UNCHANGED findings
      BY <2>3 DEF AdjustmentNext, AdjustmentCreate, AdjustmentApprove, AdjustmentBecomes, AnalysisDraft,
                  AnalysisRevise, AnalysisBecomes, DifferenceCreate, AdjustmentPropose, AdjustmentRespond,
                  StatementSnapshot
    <3> QED  BY <3>1
  <2>4. CASE AnalysisReviewNext
    <3>1. UNCHANGED findings
      BY <2>4 DEF AnalysisReviewNext, AnalysisSubmit, AnalysisReview, AnalysisBecomes
    <3> QED  BY <3>1
  <2> QED  BY <1>5, <2>2, <2>3, <2>4 DEF StatementNext
<1>6. CASE HandoverNext
  <2>1. UNCHANGED findings
    BY <1>6 DEF HandoverNext, HandoverToManager, HandoverToPartner, PartnerClearArea, SrmCompile, SrmClear,
                fieldVars, statementVars
  <2> QED  BY <2>1
<1> QED  BY <1>3, <1>4, <1>5, <1>6 DEF FieldworkNext

(* A holding letter names confirmations of the time it was queued at.       *)
LEMMA ConfirmationsGrow ==
  ASSUME ConfirmInv, ConfirmationsNext
  PROVE  1..Len(confirmations) \subseteq 1..Len(confirmations')
<1>1. IsList(confirmations) /\ Len(confirmations) \in Nat /\ DOMAIN confirmations = 1..Len(confirmations)
  BY SequencesAreLists, LenProperties DEF ConfirmInv
<1>2. ASSUME NEW c \in DOMAIN confirmations, NEW e, confirmations' = [confirmations EXCEPT ![c] = e]
      PROVE  1..Len(confirmations) \subseteq 1..Len(confirmations')
  <2> DEFINE t == [confirmations EXCEPT ![c] = e]
  <2>1. IsList(t) /\ DOMAIN t = DOMAIN confirmations
    BY <1>1, ListWritten
  <2> HIDE DEF t
  <2>2. DOMAIN t = 1..Len(t)
    BY <2>1, ListLength
  <2>3. confirmations' = t
    BY <1>2 DEF t
  <2> QED  BY <1>1, <2>1, <2>2, <2>3
<1>3. ASSUME NEW who \in Staff, NEW critical \in BOOLEAN, ConfirmationCreate(who, critical)
      PROVE  1..Len(confirmations) \subseteq 1..Len(confirmations')
  <2>1. Len(confirmations') = Len(confirmations) + 1
    BY <1>1, <1>3, Longer DEF ConfirmationCreate
  <2> QED  BY <1>1, <2>1
<1>4. CASE HoldingLetter
  BY <1>4 DEF HoldingLetter
<1>5. ASSUME NEW c \in DOMAIN confirmations, NEW from, NEW to, Step(c, from, to)
      PROVE  1..Len(confirmations) \subseteq 1..Len(confirmations')
  BY <1>2, <1>5 DEF Step
<1>6. ASSUME NEW c \in DOMAIN confirmations, ConfirmationDispatch(c) \/ ConfirmationCancel(c)
      PROVE  1..Len(confirmations) \subseteq 1..Len(confirmations')
  BY <1>5, <1>6 DEF ConfirmationDispatch, ConfirmationCancel
<1>7. ASSUME NEW c \in DOMAIN confirmations, NEW who \in Staff, ConfirmationRecord(who, c) \/ ConfirmationVerify(who, c)
      PROVE  1..Len(confirmations) \subseteq 1..Len(confirmations')
  BY <1>5, <1>7 DEF ConfirmationRecord, ConfirmationVerify
<1>8. ASSUME NEW c \in DOMAIN confirmations, NEW request, confirmations' = [confirmations EXCEPT ![c].request = request]
      PROVE  1..Len(confirmations) \subseteq 1..Len(confirmations')
  <2> DEFINE e == [confirmations[c] EXCEPT !.request = request]
  <2>1. confirmations' = [confirmations EXCEPT ![c] = e]
    BY <1>8
  <2> HIDE DEF e
  <2> QED  BY <1>2, <2>1
<1>9. ASSUME NEW c \in DOMAIN confirmations,
             RequestRender(c) \/ RequestMail(c) \/ RequestAccepted(c) \/ RequestFails(c)
      PROVE  1..Len(confirmations) \subseteq 1..Len(confirmations')
  <2>1. CASE RequestAccepted(c)
    BY <1>2, <2>1 DEF RequestAccepted
  <2>2. CASE RequestRender(c) \/ RequestMail(c) \/ RequestFails(c)
    BY <1>8, <2>2 DEF RequestRender, RequestMail, RequestFails, Job
  <2> QED  BY <1>9, <2>1, <2>2
<1>10. ASSUME NEW c \in DOMAIN confirmations, NEW who \in Staff, NEW replacement,
              ConfirmationReassess(who, c, replacement),
              replacement = <<>> \/ \E critical \in BOOLEAN : replacement = <<Draft(who, critical)>>
       PROVE  1..Len(confirmations) \subseteq 1..Len(confirmations')
  <2> DEFINE t == [confirmations EXCEPT ![c] = Cancelled(confirmations[c])]
             R == Range(t)
  <2>1. confirmations' = t \o replacement
    BY <1>10 DEF ConfirmationReassess, Cancelled
  <2>2. IsList(t) /\ DOMAIN t = DOMAIN confirmations
    BY <1>1, ListWritten
  <2> HIDE DEF t
  <2>3. DOMAIN t = 1..Len(t) /\ Len(t) \in Nat
    BY <2>2, ListLength
  <2>4. t \in Seq(R)
    BY <2>2 DEF IsList
  <2>5. CASE replacement = <<>>
    <3> HIDE DEF R
    <3>1. confirmations' = t
      BY <2>1, <2>4, <2>5, ConcatEmptySeq
    <3> QED  BY <1>1, <2>2, <2>3, <3>1
  <2>6. ASSUME NEW critical \in BOOLEAN, replacement = <<Draft(who, critical)>>
        PROVE  1..Len(confirmations) \subseteq 1..Len(confirmations')
    <3> DEFINE e == Draft(who, critical)  S == R \cup {e}
    <3>1. e \in S /\ R \subseteq S
      OBVIOUS
    <3>2. replacement = <<e>>
      BY <2>6
    <3> HIDE DEF S, e, R
    <3>3. t \in Seq(S)
      BY <2>4, <3>1, SeqMonotonic
    <3>4. confirmations' = Append(t, e)
      BY <2>1, <3>1, <3>2, <3>3, AppendIsConcat
    <3>5. Len(confirmations') = Len(t) + 1
      BY <2>2, <3>4, Longer
    <3> QED  BY <1>1, <2>2, <2>3, <3>5
  <2> QED  BY <1>10, <2>5, <2>6
<1> QED  BY <1>3, <1>4, <1>6, <1>7, <1>9, <1>10 DEF ConfirmationsNext

LEMMA HoldingLettersKept ==
  ASSUME ConfirmInv, HoldingLettersHold, ConfirmationsNext
  PROVE  HoldingLettersHold'
<1> DEFINE rows == 1..Len(confirmations)
           later == 1..Len(confirmations')
<1>1. rows \subseteq later
  BY ConfirmationsGrow
<1>2. \A outstanding \in holdingLetters : outstanding \subseteq rows \X Nat
  BY DEF HoldingLettersHold
<1>3. CASE HoldingLetter
  <2> DEFINE letter == {<<c, confirmations[c].version>> : c \in Blockers}
  <2>1. holdingLetters' = holdingLetters \cup {letter}
    BY <1>3 DEF HoldingLetter
  <2>2. \A c \in Blockers : c \in rows /\ confirmations[c].version \in Nat
    <3>1. confirmations \in Seq(Confirmation) /\ DOMAIN confirmations = rows
      BY LenProperties DEF ConfirmInv
    <3>2. \A c \in rows : confirmations[c] \in Confirmation
      BY <3>1, ElementOfSeq
    <3> HIDE DEF rows
    <3> QED  BY <3>1, <3>2 DEF Blockers, Confirmation
  <2>3. letter \subseteq rows \X Nat
    <3> HIDE DEF rows
    <3> QED  BY <2>2
  <2> HIDE DEF letter, rows, later
  <2>4. \A outstanding \in holdingLetters' : outstanding \subseteq later \X Nat
    <3>1. \A outstanding : outstanding \subseteq rows \X Nat => outstanding \subseteq later \X Nat
      BY <1>1
    <3> QED  BY <1>2, <2>1, <2>3, <3>1
  <2> QED  BY <2>4 DEF HoldingLettersHold, later
<1>4. CASE UNCHANGED holdingLetters
  <2> HIDE DEF rows, later
  <2>1. \A outstanding : outstanding \subseteq rows \X Nat => outstanding \subseteq later \X Nat
    BY <1>1
  <2>2. \A outstanding \in holdingLetters' : outstanding \subseteq later \X Nat
    BY <1>2, <1>4, <2>1
  <2> QED  BY <2>2 DEF HoldingLettersHold, later
<1>5. HoldingLetter \/ UNCHANGED holdingLetters
  BY DEF ConfirmationsNext, ConfirmationCreate, ConfirmationDispatch, ConfirmationCancel, RequestRender,
         RequestMail, RequestAccepted, RequestFails, ConfirmationRecord, ConfirmationVerify,
         ConfirmationReassess, Step, Job
<1> QED  BY <1>3, <1>4, <1>5

----
(* The papers of a release.                                                 *)
LEMMA PapersHoldNow ==
  ASSUME today' \in 1..MaxDay, opinions' \in 0..MaxOpinions, route' \in 1..MaxRoutes,
         draft'.status \in {"NONE", "DRAFT", "APPROVED"},
         reports' \in Seq(ReportOf(opinions', today')),
         letters' \in Seq(LetterOf(DOMAIN findings')),
         requests' \in Seq(RequestOf(today')),
         bundles' \in Seq(BundleOf(DOMAIN reports', DOMAIN letters', DOMAIN requests', route')),
         ReleaseStands(stage', bundles'), MailsHold'
  PROVE  PapersHold'
BY DEF PapersHold, ReportOf, LetterOf, RequestOf, BundleOf, ReleaseStands, JobStatuses, RequestStatuses

(* What was made of fewer things is made of more.                           *)
LEMMA MadeOfMore ==
  /\ \A m, n, d, e : 1..m \subseteq 1..n /\ 1..d \subseteq 1..e => ReportOf(m, d) \subseteq ReportOf(n, e)
  /\ \A f, g : f \subseteq g => LetterOf(f) \subseteq LetterOf(g)
  /\ \A d, e : 1..d \subseteq 1..e => RequestOf(d) \subseteq RequestOf(e)
  /\ \A a, b, c, d, e, f, m, n : a \subseteq b /\ c \subseteq d /\ e \subseteq f /\ 1..m \subseteq 1..n =>
       BundleOf(a, c, e, m) \subseteq BundleOf(b, d, f, n)
<1>1. ASSUME NEW m, NEW n, NEW d, NEW e, 1..m \subseteq 1..n, 1..d \subseteq 1..e
      PROVE  ReportOf(m, d) \subseteq ReportOf(n, e)
  BY <1>1 DEF ReportOf
<1>2. ASSUME NEW f, NEW g, f \subseteq g
      PROVE  LetterOf(f) \subseteq LetterOf(g)
  BY <1>2 DEF LetterOf
<1>3. ASSUME NEW d, NEW e, 1..d \subseteq 1..e
      PROVE  RequestOf(d) \subseteq RequestOf(e)
  BY <1>3 DEF RequestOf
<1>4. ASSUME NEW a, NEW b, NEW c, NEW d, NEW e, NEW f, NEW m, NEW n,
             a \subseteq b, c \subseteq d, e \subseteq f, 1..m \subseteq 1..n
      PROVE  BundleOf(a, c, e, m) \subseteq BundleOf(b, d, f, n)
  BY <1>4 DEF BundleOf
<1> QED  BY <1>1, <1>2, <1>3, <1>4

(* Around the papers everything may grow.                                   *)
LEMMA PapersOutlive ==
  ASSUME PapersHold, UNCHANGED <<draft, reports, letters, requests, bundles>>,
         today' \in 1..MaxDay, opinions' \in 0..MaxOpinions, route' \in 1..MaxRoutes,
         1..today \subseteq 1..today', 1..opinions \subseteq 1..opinions', 1..route \subseteq 1..route',
         DOMAIN findings \subseteq DOMAIN findings', ReleaseStands(stage', bundles), MailsHold'
  PROVE  PapersHold'
<1>1. reports' \in Seq(ReportOf(opinions', today'))
  <2>1. reports \in Seq(ReportOf(opinions, today)) /\ ReportOf(opinions, today) \subseteq ReportOf(opinions', today')
    BY MadeOfMore DEF PapersHold
  <2> QED  BY <2>1, SeqMonotonic
<1>2. letters' \in Seq(LetterOf(DOMAIN findings'))
  <2>1. letters \in Seq(LetterOf(DOMAIN findings)) /\ LetterOf(DOMAIN findings) \subseteq LetterOf(DOMAIN findings')
    BY MadeOfMore DEF PapersHold
  <2> QED  BY <2>1, SeqMonotonic
<1>3. requests' \in Seq(RequestOf(today'))
  <2>1. requests \in Seq(RequestOf(today)) /\ RequestOf(today) \subseteq RequestOf(today')
    BY MadeOfMore DEF PapersHold
  <2> QED  BY <2>1, SeqMonotonic
<1>4. bundles' \in Seq(BundleOf(DOMAIN reports', DOMAIN letters', DOMAIN requests', route'))
  <2> DEFINE A == BundleOf(DOMAIN reports, DOMAIN letters, DOMAIN requests, route)
             B == BundleOf(DOMAIN reports, DOMAIN letters, DOMAIN requests, route')
  <2>1. bundles \in Seq(A)
    BY DEF PapersHold
  <2>2. A \subseteq B
    BY MadeOfMore
  <2>3. bundles \in Seq(B)
    <3> HIDE DEF A, B
    <3> QED  BY <2>1, <2>2, SeqMonotonic
  <2> QED  BY <2>3
<1>5. draft'.status \in {"NONE", "DRAFT", "APPROVED"}
  BY DEF PapersHold
<1> QED  BY <1>1, <1>2, <1>3, <1>4, <1>5, PapersHoldNow

LEMMA MailsUntouched ==
  ASSUME MailsHold, UNCHANGED mailVars
  PROVE  MailsHold'
BY DEF MailsHold, mailVars, DeliveryMethods

(* One of the lists of papers is written, the others stay.                  *)
LEMMA PapersWritten ==
  ASSUME PapersHold, UNCHANGED <<stage, today, route, findings>>, UNCHANGED mailVars,
         opinions' = opinions, draft'.status \in {"NONE", "DRAFT", "APPROVED"},
         reports' \in Seq(ReportOf(opinions, today)), letters' \in Seq(LetterOf(DOMAIN findings)),
         requests' \in Seq(RequestOf(today)),
         DOMAIN reports \subseteq DOMAIN reports', DOMAIN letters \subseteq DOMAIN letters',
         DOMAIN requests \subseteq DOMAIN requests', UNCHANGED bundles
  PROVE  PapersHold'
<1> DEFINE A == BundleOf(DOMAIN reports, DOMAIN letters, DOMAIN requests, route)
           B == BundleOf(DOMAIN reports', DOMAIN letters', DOMAIN requests', route)
<1>1. bundles \in Seq(A)
  BY DEF PapersHold
<1>2. A \subseteq B
  BY MadeOfMore
<1>3. bundles \in Seq(B)
  <2> HIDE DEF A, B
  <2> QED  BY <1>1, <1>2, SeqMonotonic
<1>4. MailsHold'
  BY MailsUntouched DEF PapersHold
<1>5. /\ today' \in 1..MaxDay /\ opinions' \in 0..MaxOpinions /\ route' \in 1..MaxRoutes
      /\ ReleaseStands(stage', bundles')
  BY DEF PapersHold
<1>6. bundles' \in Seq(BundleOf(DOMAIN reports', DOMAIN letters', DOMAIN requests', route'))
  BY <1>3
<1> QED  BY <1>4, <1>5, <1>6, PapersHoldNow

LEMMA BundlesWritten ==
  ASSUME PapersHold, UNCHANGED <<today, route, findings, opinions, draft, reports, letters, requests>>, MailsHold',
         bundles' \in Seq(BundleOf(DOMAIN reports, DOMAIN letters, DOMAIN requests, route)),
         ReleaseStands(stage', bundles')
  PROVE  PapersHold'
<1>1. bundles' \in Seq(BundleOf(DOMAIN reports', DOMAIN letters', DOMAIN requests', route'))
  OBVIOUS
<1>2. /\ today' \in 1..MaxDay /\ opinions' \in 0..MaxOpinions /\ route' \in 1..MaxRoutes
      /\ draft'.status \in {"NONE", "DRAFT", "APPROVED"}
      /\ reports' \in Seq(ReportOf(opinions', today'))
      /\ letters' \in Seq(LetterOf(DOMAIN findings'))
      /\ requests' \in Seq(RequestOf(today'))
  BY DEF PapersHold
<1> QED  BY <1>1, <1>2, PapersHoldNow

(* An entry of a sequence is written, or one is added.                      *)
LEMMA EntryWritten ==
  ASSUME NEW S, NEW s \in Seq(S), NEW i \in DOMAIN s, NEW e \in S, NEW t, t = [s EXCEPT ![i] = e]
  PROVE  /\ t \in Seq(S) /\ DOMAIN t = DOMAIN s /\ t[i] = e
         /\ \A k \in DOMAIN s : k # i => t[k] = s[k]
<1>1. DOMAIN s = 1..Len(s)
  BY LenProperties
<1>2. t \in Seq(S)
  BY <1>1, ExceptSeq
<1> QED  BY <1>2

LEMMA EntryAdded ==
  ASSUME NEW S, NEW s \in Seq(S), NEW e \in S, NEW t, t = Append(s, e)
  PROVE  /\ t \in Seq(S) /\ DOMAIN s \subseteq DOMAIN t
         /\ DOMAIN t = DOMAIN s \cup {Len(s) + 1} /\ t[Len(s) + 1] = e
         /\ \A k \in DOMAIN s : t[k] = s[k]
<1>1. IsList(s)
  BY SequencesAreLists
<1>2. t \in Seq(S)
  BY AppendProperties
<1> QED  BY <1>1, <1>2, Longer

LEMMA EntryOf ==
  ASSUME NEW S, NEW s \in Seq(S), NEW i \in DOMAIN s
  PROVE  s[i] \in S
<1>1. i \in 1..Len(s)
  BY LenProperties
<1> QED  BY <1>1, ElementOfSeq

(* Records whose status, or whose consent, is written.                      *)
LEMMA ReportMarked ==
  ASSUME NEW m, NEW d, NEW e \in ReportOf(m, d)
  PROVE  /\ \A status \in JobStatuses : [e EXCEPT !.status = status] \in ReportOf(m, d)
         /\ \A agreed \in BOOLEAN : [e EXCEPT !.consent = agreed] \in ReportOf(m, d)
<1>1. \A status \in JobStatuses : [e EXCEPT !.status = status] \in ReportOf(m, d)
  <2> HIDE DEF JobStatuses
  <2> QED  BY DEF ReportOf
<1>2. \A agreed \in BOOLEAN : [e EXCEPT !.consent = agreed] \in ReportOf(m, d)
  BY DEF ReportOf
<1> QED  BY <1>1, <1>2

LEMMA LetterMarked ==
  ASSUME NEW f, NEW e \in LetterOf(f), NEW status \in JobStatuses
  PROVE  [e EXCEPT !.status = status] \in LetterOf(f)
BY DEF LetterOf

LEMMA RequestMarked ==
  ASSUME NEW d, NEW e \in RequestOf(d), NEW status \in RequestStatuses
  PROVE  [e EXCEPT !.status = status] \in RequestOf(d)
BY DEF RequestOf

LEMMA BundleMarked ==
  ASSUME NEW a, NEW b, NEW c, NEW d, NEW e \in BundleOf(a, b, c, d), NEW status \in JobStatuses \cup {"RELEASED"}
  PROVE  LET n == [e EXCEPT !.status = status] IN n \in BundleOf(a, b, c, d) /\ n.status = status
BY DEF BundleOf

LEMMA OpinionKeepsPapers ==
  ASSUME PapersHold, UNCHANGED <<stage, today, route, findings>>, UNCHANGED mailVars,
         \E who \in Staff : OpinionSelect(who)
  PROVE  PapersHold'
<1>1. /\ opinions < MaxOpinions /\ opinions' = opinions + 1
      /\ UNCHANGED <<draft, reports, letters, requests, bundles>>
  BY DEF OpinionSelect
<1>2. /\ MaxOpinions \in Nat /\ opinions \in 0..MaxOpinions /\ today \in 1..MaxDay /\ route \in 1..MaxRoutes
      /\ ReleaseStands(stage, bundles) /\ MailsHold
  BY ReleaseBounds DEF PapersHold
<1>3. opinions' \in 0..MaxOpinions /\ 1..opinions \subseteq 1..opinions'
  BY <1>1, <1>2
<1>4. MailsHold'
  BY <1>2, MailsUntouched
<1> QED  BY <1>1, <1>2, <1>3, <1>4, PapersOutlive

LEMMA DraftKeepsPapers ==
  ASSUME PapersHold, PaperInv, UNCHANGED <<stage, today, route, findings>>, UNCHANGED mailVars,
         NEW who, StatementApprove(who) \/ \E complete : StatementDraftSave(who, complete)
  PROVE  PapersHold'
<1>1. UNCHANGED <<opinions, reports, letters, requests, bundles>>
  BY DEF StatementApprove, StatementDraftSave
<1>2. draft'.status \in {"NONE", "DRAFT", "APPROVED"}
  <2>1. CASE StatementApprove(who)
    <3>1. draft' = [draft EXCEPT !.status = "APPROVED", !.approver = who]
      BY <2>1 DEF StatementApprove
    <3>2. draft = [status |-> draft.status, version |-> draft.version, complete |-> draft.complete, by |-> draft.by,
                   approver |-> draft.approver]
      BY DEF PaperInv, DraftForm
    <3> QED  BY <3>1, <3>2
  <2>2. ASSUME NEW complete, StatementDraftSave(who, complete)
        PROVE  draft'.status \in {"NONE", "DRAFT", "APPROVED"}
    <3> DEFINE version == draft.version + 1
               by == IF draft.version = 0 THEN who ELSE draft.by
    <3>1. draft' = [status |-> "DRAFT", version |-> version, complete |-> complete, by |-> by, approver |-> Nobody]
      BY <2>2 DEF StatementDraftSave
    <3> HIDE DEF version, by
    <3> QED  BY <3>1
  <2> QED  BY <2>1, <2>2
<1>3. /\ reports' \in Seq(ReportOf(opinions, today)) /\ letters' \in Seq(LetterOf(DOMAIN findings))
      /\ requests' \in Seq(RequestOf(today))
  BY <1>1 DEF PapersHold
<1> QED  BY <1>1, <1>2, <1>3, PapersWritten

LEMMA ReportsKeepPapers ==
  ASSUME PapersHold, UNCHANGED <<stage, today, route, findings>>, UNCHANGED mailVars,
         UNCHANGED <<opinions, draft, letters, requests, bundles>>,
         reports' \in Seq(ReportOf(opinions, today)), DOMAIN reports \subseteq DOMAIN reports'
  PROVE  PapersHold'
<1>1. /\ draft'.status \in {"NONE", "DRAFT", "APPROVED"} /\ letters' \in Seq(LetterOf(DOMAIN findings))
      /\ requests' \in Seq(RequestOf(today))
  BY DEF PapersHold
<1> QED  BY <1>1, PapersWritten

LEMMA ReportPrepared ==
  ASSUME PapersHold, UNCHANGED <<stage, today, route, findings>>, UNCHANGED mailVars,
         NEW who, NEW o \in 1..opinions, ReportPrepare(who, o)
  PROVE  PapersHold'
<1> DEFINE no == FALSE
           e == [opinion |-> o, date |-> today, owner |-> who, status |-> "PREPARING", consent |-> no]
           S == ReportOf(opinions, today)
<1>1. /\ reports' = Append(reports, e) /\ who \in Partners
      /\ UNCHANGED <<opinions, draft, letters, requests, bundles>>
  BY DEF ReportPrepare
<1>2. reports \in Seq(S) /\ today \in 1..today
  BY ReleaseBounds DEF PapersHold
<1>3. no \in BOOLEAN
  OBVIOUS
<1> HIDE DEF no
<1>4. e \in S
  BY <1>1, <1>2, <1>3 DEF ReportOf, JobStatuses
<1> HIDE DEF e, S
<1>5. reports' \in Seq(S) /\ DOMAIN reports \subseteq DOMAIN reports'
  BY <1>1, <1>2, <1>4, EntryAdded
<1> QED  BY <1>1, <1>5, ReportsKeepPapers DEF S

LEMMA ReportMoved ==
  ASSUME PapersHold, UNCHANGED <<stage, today, route, findings>>, UNCHANGED mailVars,
         NEW r \in DOMAIN reports,
         \/ \E status \in {"READY", "FAILED"} : ReportRendered(r, status)
         \/ \E who : ReportConsent(who, r)
  PROVE  PapersHold'
<1> DEFINE S == ReportOf(opinions, today)
           old == reports[r]
           rendered(status) == [old EXCEPT !.status = status]
           consented == [old EXCEPT !.consent = TRUE]
<1>1. UNCHANGED <<opinions, draft, letters, requests, bundles>>
  BY DEF ReportRendered, ReportConsent
<1>2. reports \in Seq(S) /\ old \in S
  BY EntryOf DEF PapersHold
<1>3. \E e \in S : reports' = [reports EXCEPT ![r] = e]
  <2>1. ASSUME NEW status \in {"READY", "FAILED"}, ReportRendered(r, status)
        PROVE  \E e \in S : reports' = [reports EXCEPT ![r] = e]
    <3>1. status \in JobStatuses /\ reports' = [reports EXCEPT ![r] = rendered(status)]
      BY <2>1 DEF ReportRendered, JobStatuses
    <3>2. rendered(status) \in S
      <4> HIDE DEF old
      <4> QED  BY <1>2, <3>1, ReportMarked
    <3> QED  BY <3>1, <3>2
  <2>2. ASSUME NEW who, ReportConsent(who, r)
        PROVE  \E e \in S : reports' = [reports EXCEPT ![r] = e]
    <3>1. reports' = [reports EXCEPT ![r] = consented]
      BY <2>2 DEF ReportConsent
    <3>2. consented \in S
      <4> HIDE DEF old
      <4> QED  BY <1>2, ReportMarked
    <3> QED  BY <3>1, <3>2
  <2> QED  BY <2>1, <2>2
<1> HIDE DEF S
<1>4. reports' \in Seq(S) /\ DOMAIN reports' = DOMAIN reports
  BY <1>2, <1>3, EntryWritten
<1> QED  BY <1>1, <1>4, ReportsKeepPapers DEF S

LEMMA LettersKeepPapers ==
  ASSUME PapersHold, UNCHANGED <<stage, today, route, findings>>, UNCHANGED mailVars,
         UNCHANGED <<opinions, draft, reports, requests, bundles>>,
         letters' \in Seq(LetterOf(DOMAIN findings)), DOMAIN letters \subseteq DOMAIN letters'
  PROVE  PapersHold'
<1>1. /\ draft'.status \in {"NONE", "DRAFT", "APPROVED"} /\ reports' \in Seq(ReportOf(opinions, today))
      /\ requests' \in Seq(RequestOf(today))
  BY DEF PapersHold
<1> QED  BY <1>1, PapersWritten

LEMMA LetterPrepared ==
  ASSUME PapersHold, FindingsHold, UNCHANGED <<stage, today, route, findings>>, UNCHANGED mailVars,
         NEW who, NEW chosen \in SUBSET DOMAIN findings, ManagementPrepare(who, chosen)
  PROVE  PapersHold'
<1> DEFINE items == {<<f, findings[f].version>> : f \in chosen}
           e == [items |-> items, status |-> "PREPARING"]
           S == LetterOf(DOMAIN findings)
<1>1. letters' = Append(letters, e) /\ UNCHANGED <<opinions, draft, reports, requests, bundles>>
  BY DEF ManagementPrepare
<1>2. letters \in Seq(S)
  BY DEF PapersHold
<1>3. \A f \in chosen : f \in DOMAIN findings /\ findings[f].version \in Nat
  BY StatementBounds DEF FindingsHold, FindingForm
<1>4. items \subseteq (DOMAIN findings) \X Nat
  BY <1>3
<1> HIDE DEF items
<1>5. e \in S
  BY <1>4 DEF LetterOf, JobStatuses
<1> HIDE DEF e, S
<1>6. letters' \in Seq(S) /\ DOMAIN letters \subseteq DOMAIN letters'
  BY <1>1, <1>2, <1>5, EntryAdded
<1> QED  BY <1>1, <1>6, LettersKeepPapers DEF S

LEMMA LetterMoved ==
  ASSUME PapersHold, UNCHANGED <<stage, today, route, findings>>, UNCHANGED mailVars,
         NEW l \in DOMAIN letters, NEW status \in {"READY", "FAILED"}, ManagementRendered(l, status)
  PROVE  PapersHold'
<1> DEFINE S == LetterOf(DOMAIN findings)
           old == letters[l]
           e == [old EXCEPT !.status = status]
<1>1. letters' = [letters EXCEPT ![l] = e] /\ UNCHANGED <<opinions, draft, reports, requests, bundles>>
  BY DEF ManagementRendered
<1>2. letters \in Seq(S) /\ old \in S
  BY EntryOf DEF PapersHold
<1>3. e \in S
  <2>1. status \in JobStatuses
    BY DEF JobStatuses
  <2> HIDE DEF old
  <2> QED  BY <1>2, <2>1, LetterMarked
<1> HIDE DEF e, S
<1>4. letters' \in Seq(S) /\ DOMAIN letters' = DOMAIN letters
  BY <1>1, <1>2, <1>3, EntryWritten
<1> QED  BY <1>1, <1>4, LettersKeepPapers DEF S

LEMMA RequestsKeepPapers ==
  ASSUME PapersHold, UNCHANGED <<stage, today, route, findings>>, UNCHANGED mailVars,
         UNCHANGED <<opinions, draft, reports, letters, bundles>>,
         requests' \in Seq(RequestOf(today)), DOMAIN requests \subseteq DOMAIN requests'
  PROVE  PapersHold'
<1>1. /\ draft'.status \in {"NONE", "DRAFT", "APPROVED"} /\ reports' \in Seq(ReportOf(opinions, today))
      /\ letters' \in Seq(LetterOf(DOMAIN findings))
  BY DEF PapersHold
<1> QED  BY <1>1, PapersWritten

LEMMA RequestPrepared ==
  ASSUME PapersHold, UNCHANGED <<stage, today, route, findings>>, UNCHANGED mailVars,
         NEW who, RepresentationPrepare(who)
  PROVE  PapersHold'
<1> DEFINE e == [date |-> today, status |-> "PREPARING"]
           S == RequestOf(today)
<1>1. requests' = Append(requests, e) /\ UNCHANGED <<opinions, draft, reports, letters, bundles>>
  BY DEF RepresentationPrepare
<1>2. requests \in Seq(S) /\ today \in 1..today
  BY ReleaseBounds DEF PapersHold
<1>3. e \in S
  BY <1>2 DEF RequestOf, RequestStatuses
<1> HIDE DEF e, S
<1>4. requests' \in Seq(S) /\ DOMAIN requests \subseteq DOMAIN requests'
  BY <1>1, <1>2, <1>3, EntryAdded
<1> QED  BY <1>1, <1>4, RequestsKeepPapers DEF S

LEMMA RequestMoved ==
  ASSUME PapersHold, UNCHANGED <<stage, today, route, findings>>, UNCHANGED mailVars,
         NEW q \in DOMAIN requests, NEW from, NEW to \in RequestStatuses, RequestMoves(q, from, to)
  PROVE  PapersHold'
<1> DEFINE S == RequestOf(today)
           old == requests[q]
           e == [old EXCEPT !.status = to]
<1>1. requests' = [requests EXCEPT ![q] = e] /\ UNCHANGED <<opinions, draft, reports, letters, bundles>>
  BY DEF RequestMoves
<1>2. requests \in Seq(S) /\ old \in S
  BY EntryOf DEF PapersHold
<1>3. e \in S
  <2> HIDE DEF old
  <2> QED  BY <1>2, RequestMarked
<1> HIDE DEF e, S
<1>4. requests' \in Seq(S) /\ DOMAIN requests' = DOMAIN requests
  BY <1>1, <1>2, <1>3, EntryWritten
<1> QED  BY <1>1, <1>4, RequestsKeepPapers DEF S

LEMMA RequestsMove ==
  ASSUME PapersHold, UNCHANGED <<stage, today, route, findings>>, UNCHANGED mailVars,
         NEW q \in DOMAIN requests,
         \/ TemplateRendered(q) \/ TemplateFails(q) \/ RepresentationSend(q) \/ RepresentationReceive(q)
         \/ \E decision \in {"ACCEPTED", "REJECTED"} : RepresentationReview(q, decision)
  PROVE  PapersHold'
<1>1. \E from, to : RequestMoves(q, from, to) /\ to \in RequestStatuses
  BY DEF TemplateRendered, TemplateFails, RepresentationSend, RepresentationReceive, RepresentationReview,
         RequestStatuses
<1> QED  BY <1>1, RequestMoved

----
(* The bundles, of which the countdown starts with one that is released.    *)
LEMMA BundlePrepared ==
  ASSUME PapersHold, UNCHANGED <<stage, today, route, findings>>, UNCHANGED mailVars,
         NEW r \in DOMAIN reports, NEW l \in DOMAIN letters, NEW q \in DOMAIN requests, BundlePrepare(r, l, q)
  PROVE  PapersHold'
<1> DEFINE S == BundleOf(DOMAIN reports, DOMAIN letters, DOMAIN requests, route)
           e == [report |-> r, letter |-> l, request |-> q, route |-> route, status |-> "PREPARING"]
<1>1. /\ bundles' = Append(bundles, e) /\ stage = "PARTNER_APPROVAL"
      /\ UNCHANGED <<opinions, draft, reports, letters, requests>>
  BY DEF BundlePrepare, Approving
<1>2. bundles \in Seq(S) /\ route \in 1..route /\ ReleaseStands(stage, bundles)
  BY ReleaseBounds DEF PapersHold
<1>3. e \in S /\ e.status = "PREPARING"
  BY <1>2 DEF BundleOf, JobStatuses
<1> HIDE DEF e, S
<1>4. /\ bundles' \in Seq(S) /\ DOMAIN bundles' = DOMAIN bundles \cup {Len(bundles) + 1}
      /\ bundles'[Len(bundles) + 1] = e
      /\ \A k \in DOMAIN bundles : bundles'[k] = bundles[k]
  BY <1>1, <1>2, <1>3, EntryAdded
<1>5. ReleaseStands(stage', bundles')
  BY <1>1, <1>2, <1>3, <1>4 DEF ReleaseStands
<1>6. MailsHold'
  BY MailsUntouched DEF PapersHold
<1> QED  BY <1>1, <1>4, <1>5, <1>6, BundlesWritten DEF S

LEMMA BundleTo ==
  ASSUME PapersHold, NEW b \in DOMAIN bundles, NEW status \in JobStatuses \cup {"RELEASED"},
         bundles' = [bundles EXCEPT ![b].status = status]
  PROVE  /\ bundles' \in Seq(BundleOf(DOMAIN reports, DOMAIN letters, DOMAIN requests, route))
         /\ DOMAIN bundles' = DOMAIN bundles /\ bundles'[b].status = status
         /\ \A k \in DOMAIN bundles : k # b => bundles'[k] = bundles[k]
<1> DEFINE S == BundleOf(DOMAIN reports, DOMAIN letters, DOMAIN requests, route)
           old == bundles[b]
           e == [old EXCEPT !.status = status]
<1>1. bundles' = [bundles EXCEPT ![b] = e]
  OBVIOUS
<1>2. bundles \in Seq(S) /\ old \in S
  BY EntryOf DEF PapersHold
<1>3. e \in S /\ e.status = status
  <2> HIDE DEF old
  <2>1. old \in BundleOf(DOMAIN reports, DOMAIN letters, DOMAIN requests, route)
    BY <1>2
  <2> QED  BY <2>1, BundleMarked
<1> HIDE DEF e, S
<1>4. /\ bundles' \in Seq(S) /\ DOMAIN bundles' = DOMAIN bundles /\ bundles'[b] = e
      /\ \A k \in DOMAIN bundles : k # b => bundles'[k] = bundles[k]
  BY <1>1, <1>2, <1>3, EntryWritten
<1> QED  BY <1>3, <1>4 DEF S

LEMMA BundleMoved ==
  ASSUME PapersHold, UNCHANGED <<stage, today, route, findings>>, UNCHANGED mailVars,
         NEW b \in DOMAIN bundles, NEW status \in {"READY", "FAILED"}, BundleRendered(b, status)
  PROVE  PapersHold'
<1>1. /\ bundles' = [bundles EXCEPT ![b].status = status] /\ bundles[b].status = "PREPARING"
      /\ status \in JobStatuses \cup {"RELEASED"} /\ status # "RELEASED"
      /\ UNCHANGED <<opinions, draft, reports, letters, requests>>
  BY DEF BundleRendered, JobStatuses
<1>2. /\ bundles' \in Seq(BundleOf(DOMAIN reports, DOMAIN letters, DOMAIN requests, route))
      /\ DOMAIN bundles' = DOMAIN bundles /\ bundles'[b].status = status
      /\ \A k \in DOMAIN bundles : k # b => bundles'[k] = bundles[k]
  BY <1>1, BundleTo
<1>3. ReleaseStands(stage, bundles)
  BY DEF PapersHold
<1>4. \A k \in DOMAIN bundles : bundles'[k].status = "RELEASED" <=> bundles[k].status = "RELEASED"
  BY <1>1, <1>2
<1>5. ReleaseStands(stage', bundles')
  BY ONLY <1>2, <1>3, <1>4, UNCHANGED <<stage, today, route, findings>> DEF ReleaseStands
<1>6. MailsHold'
  BY MailsUntouched DEF PapersHold
<1> QED  BY <1>1, <1>2, <1>5, <1>6, BundlesWritten

LEMMA BundleReleased ==
  ASSUME PapersHold, UNCHANGED findings, NEW who, NEW b \in DOMAIN bundles, ReportRelease(who, b)
  PROVE  PapersHold'
<1>1. /\ bundles' = [bundles EXCEPT ![b].status = "RELEASED"]
      /\ stage = "PARTNER_APPROVAL" /\ stage' = "COMPLIANCE_COUNTDOWN"
      /\ "RELEASED" \in JobStatuses \cup {"RELEASED"} /\ dispatches' = <<"QUEUED">>
      /\ UNCHANGED <<opinions, draft, reports, letters, requests, deliveries, today, route>>
  BY DEF ReportRelease, Approving
<1>2. /\ bundles' \in Seq(BundleOf(DOMAIN reports, DOMAIN letters, DOMAIN requests, route))
      /\ DOMAIN bundles' = DOMAIN bundles /\ bundles'[b].status = "RELEASED"
      /\ \A k \in DOMAIN bundles : k # b => bundles'[k] = bundles[k]
  BY <1>1, BundleTo
<1>3. \A k \in DOMAIN bundles : bundles[k].status # "RELEASED"
  BY <1>1 DEF PapersHold, ReleaseStands
<1>4. \A k \in DOMAIN bundles' : bundles'[k].status = "RELEASED" <=> k = b
  BY <1>2, <1>3
<1>5. ReleaseStands(stage', bundles')
  BY <1>1, <1>2, <1>4 DEF ReleaseStands
<1>6. MailsHold'
  <2>1. <<"QUEUED">> \in Seq({"QUEUED", "ACCEPTED", "FAILED"})
    OBVIOUS
  <2> QED  BY <1>1, <2>1 DEF PapersHold, MailsHold, DeliveryMethods
<1> QED  BY <1>1, <1>2, <1>5, <1>6, BundlesWritten

----
LEMMA PapersMove ==
  ASSUME PapersHold, PaperInv, FindingsHold, UNCHANGED findings, PaperNext
  PROVE  PapersHold'
<1>0. UNCHANGED <<stage, today, route, findings>> /\ UNCHANGED mailVars
  BY DEF PaperNext
<1>1. ASSUME NEW who \in Staff,
             \/ OpinionSelect(who) \/ StatementApprove(who) \/ RepresentationPrepare(who)
             \/ \E complete \in BOOLEAN : StatementDraftSave(who, complete)
             \/ \E o \in 1..opinions : ReportPrepare(who, o)
             \/ \E r \in DOMAIN reports : ReportConsent(who, r)
             \/ \E chosen \in SUBSET DOMAIN findings : ManagementPrepare(who, chosen)
      PROVE  PapersHold'
  BY <1>0, <1>1, OpinionKeepsPapers, DraftKeepsPapers, RequestPrepared, ReportPrepared, ReportMoved, LetterPrepared
<1>2. ASSUME NEW status \in {"READY", "FAILED"},
             \/ \E r \in DOMAIN reports : ReportRendered(r, status)
             \/ \E l \in DOMAIN letters : ManagementRendered(l, status)
             \/ \E b \in DOMAIN bundles : BundleRendered(b, status)
      PROVE  PapersHold'
  BY <1>0, <1>2, ReportMoved, LetterMoved, BundleMoved
<1>3. ASSUME NEW q \in DOMAIN requests,
             \/ TemplateRendered(q) \/ TemplateFails(q) \/ RepresentationSend(q) \/ RepresentationReceive(q)
             \/ \E decision \in {"ACCEPTED", "REJECTED"} : RepresentationReview(q, decision)
      PROVE  PapersHold'
  BY <1>0, <1>3, RequestsMove
<1>4. ASSUME NEW r \in DOMAIN reports, NEW l \in DOMAIN letters, NEW q \in DOMAIN requests, BundlePrepare(r, l, q)
      PROVE  PapersHold'
  BY <1>0, <1>4, BundlePrepared
<1> QED  BY <1>1, <1>2, <1>3, <1>4 DEF PaperNext

LEMMA MailsMove ==
  ASSUME MailsHold, DeliveryNext
  PROVE  MailsHold'
<1> DEFINE S == {"QUEUED", "ACCEPTED", "FAILED"}
<1>1. dispatches \in Seq(S) /\ deliveries \subseteq DeliveryMethods
  BY DEF MailsHold
<1>2. ASSUME NEW d \in DOMAIN dispatches, NEW status \in {"ACCEPTED", "FAILED"}, BundleMailed(d, status)
      PROVE  MailsHold'
  <2>1. dispatches' = [dispatches EXCEPT ![d] = status] /\ status \in S /\ UNCHANGED deliveries
    BY <1>2 DEF BundleMailed
  <2> HIDE DEF S
  <2>2. dispatches' \in Seq(S)
    BY <1>1, <2>1, EntryWritten
  <2> QED  BY <1>1, <2>1, <2>2 DEF MailsHold, S, DeliveryMethods
<1>3. ASSUME NEW who, NEW d, BundleDeliveryRetry(who, d)
      PROVE  MailsHold'
  <2>1. dispatches' = Append(dispatches, "QUEUED") /\ "QUEUED" \in S /\ UNCHANGED deliveries
    BY <1>3 DEF BundleDeliveryRetry
  <2> HIDE DEF S
  <2>2. dispatches' \in Seq(S)
    BY <1>1, <2>1, AppendProperties
  <2> QED  BY <1>1, <2>1, <2>2 DEF MailsHold, S, DeliveryMethods
<1>4. ASSUME NEW method \in DeliveryMethods, BundleRecordDelivery(method)
      PROVE  MailsHold'
  BY <1>1, <1>4 DEF BundleRecordDelivery, MailsHold, DeliveryMethods
<1> QED  BY <1>2, <1>3, <1>4 DEF DeliveryNext

LEMMA ReleaseMovesPapers ==
  ASSUME PapersHold, PaperInv, FindingsHold, UNCHANGED findings, ReleaseNext
  PROVE  PapersHold'
<1>1. /\ today \in 1..MaxDay /\ opinions \in 0..MaxOpinions /\ route \in 1..MaxRoutes
      /\ MaxDay \in Nat /\ MaxOpinions \in Nat /\ MaxRoutes \in Nat
      /\ ReleaseStands(stage, bundles) /\ MailsHold
  BY ReleaseBounds DEF PapersHold
<1>2. CASE DeliveryNext
  <2>1. UNCHANGED <<stage, today, route, opinions, draft, reports, letters, requests, bundles>>
    BY <1>2 DEF DeliveryNext, paperVars
  <2>2. MailsHold'
    BY <1>1, <1>2, MailsMove
  <2> QED  BY <1>1, <2>1, <2>2, PapersOutlive
<1>3. CASE (DayPasses \/ RouteChanges) /\ UNCHANGED stage
  <2>1. /\ UNCHANGED <<stage, opinions, draft, reports, letters, requests, bundles>>
        /\ UNCHANGED mailVars
    BY <1>3 DEF DayPasses, RouteChanges, paperVars
  <2>2. MailsHold'
    BY <1>1, <2>1, MailsUntouched
  <2>3. /\ today' \in 1..MaxDay /\ route' \in 1..MaxRoutes
        /\ 1..today \subseteq 1..today' /\ 1..route \subseteq 1..route'
    BY <1>1, <1>3 DEF DayPasses, RouteChanges
  <2> QED  BY <1>1, <2>1, <2>2, <2>3, PapersOutlive
<1>4. ASSUME NEW who \in Staff, NEW b \in DOMAIN bundles, ReportRelease(who, b)
      PROVE  PapersHold'
  BY <1>4, BundleReleased
<1> QED  BY <1>2, <1>3, <1>4, PapersMove DEF ReleaseNext

(* The stage moves on by a handover or by a release only.                   *)
LEMMA FieldworkMovesTheStage ==
  ASSUME FieldworkNext
  PROVE  \/ UNCHANGED stage
         \/ /\ stage \in {"FIELDWORK_EXECUTION", "MANAGERIAL_REVIEW"}
            /\ stage' \in {"MANAGERIAL_REVIEW", "PARTNER_APPROVAL"}
<1>1. CASE EvidenceNext \/ ProcedureNext \/ SampleNext \/ StatementNext \/ ReviewNext
  BY <1>1 DEF EvidenceNext, ProcedureNext, SampleNext, StatementNext, ReviewNext
<1>2. CASE HandoverNext
  BY <1>2 DEF HandoverNext, PartnerClearArea, HandoverToManager, HandoverToPartner
<1> QED  BY <1>1, <1>2 DEF FieldworkNext

LEMMA ReleaseMovesTheStage ==
  ASSUME ReleaseNext
  PROVE  UNCHANGED stage \/ stage' = "COMPLIANCE_COUNTDOWN"
BY DEF ReleaseNext, PaperNext, DeliveryNext, ReportRelease

(* Nothing that happens around the papers disturbs them.                    *)
LEMMA PapersStay ==
  ASSUME PapersHold, UNCHANGED releaseVars, DOMAIN findings \subseteq DOMAIN findings',
         ReleaseStands(stage', bundles)
  PROVE  PapersHold'
<1>1. UNCHANGED <<today, route, opinions, draft, reports, letters, requests, bundles>> /\ UNCHANGED mailVars
  BY DEF releaseVars, paperVars
<1>2. MailsHold'
  BY <1>1, MailsUntouched DEF PapersHold
<1>3. today' \in 1..MaxDay /\ opinions' \in 0..MaxOpinions /\ route' \in 1..MaxRoutes
  BY <1>1 DEF PapersHold
<1> QED  BY <1>1, <1>2, <1>3, PapersOutlive

----
(* The types of an engagement from its fieldwork to its release.            *)
FieldTypes ==
  /\ EvidenceHeld /\ ReviewsHold /\ SamplesHold /\ StatementsHold
  /\ AreaHolds /\ PlansOfProcedures

AuditTypes ==
  /\ stage \in Stages /\ FieldTypes
  /\ HoldingLettersHold /\ PapersHold

LEMMA FieldTypesKept ==
  ASSUME FieldTypes, WorkInv, StatementInv, FieldworkNext
  PROVE  FieldTypes'
<1>1. EvidenceHeld /\ ReviewsHold /\ SamplesHold /\ StatementsHold /\ AreaHolds /\ PlansOfProcedures
  BY DEF FieldTypes
<1>2. IsFiniteSet(DOMAIN procedures)
  <2>1. StepsOf(program.steps, DOMAIN procedures)
    BY <1>1 DEF AreaHolds, StepsHold, StepsOf
  <2> QED  BY <2>1, StepsCounted
<1>3. AreaHolds' /\ DOMAIN procedures \subseteq DOMAIN procedures'
  BY <1>1, AreaKept
<1>4. EvidenceHeld' /\ ReviewsHold' /\ SamplesHold' /\ StatementsHold'
  BY <1>1, <1>2, EvidenceKept, ReviewsKept, SamplesKept, StatementsKept
<1>5. PlansOfProcedures'
  BY <1>1, <1>3, PlansKept
<1> QED  BY <1>3, <1>4, <1>5 DEF FieldTypes

LEMMA FieldTypesUntouched ==
  ASSUME FieldTypes, UNCHANGED fieldVars
  PROVE  FieldTypes'
<1>1. /\ UNCHANGED <<evidence, submissions, notes, program, procedures>>
      /\ UNCHANGED <<policy, population, plans>>
      /\ UNCHANGED <<findings, adjustments, differences, analyses, snapshots>>
  BY DEF fieldVars, reviewVars, areaVars, samplingVars, statementVars
<1>2. EvidenceHeld /\ ReviewsHold /\ SamplesHold /\ StatementsHold /\ AreaHolds /\ PlansOfProcedures
  BY DEF FieldTypes
<1>3. EvidenceGrows
  BY <1>1 DEF EvidenceGrows
<1>4. EvidenceHeld'
  BY <1>1, <1>2 DEF EvidenceHeld, Adequacies, Staff
<1>5. ReviewsHold'
  BY <1>1, <1>2 DEF ReviewsHold, IsList, NoteForm, DecidedBy
<1>6. SamplesHold'
  BY <1>1, <1>2 DEF SamplesHold, IsList, PlanForm, TestForm, LinksStand, EvidenceLinks, PolicyStates, Outcomes
<1>7. StatementsHold'
  BY <1>1, <1>2, <1>3, StatementsOutlive
<1>8. AreaHolds'
  BY <1>1, <1>2 DEF AreaHolds, ProceduresHold, ProcedureStands, RowForm, LinksStand, EvidenceLinks, StepsHold,
                    Editable, Absent, Staff
<1>9. PlansOfProcedures'
  BY <1>1, <1>2 DEF PlansOfProcedures
<1> QED  BY <1>4, <1>5, <1>6, <1>7, <1>8, <1>9 DEF FieldTypes

LEMMA HoldingLettersUntouched ==
  ASSUME HoldingLettersHold, UNCHANGED confirmationVars
  PROVE  HoldingLettersHold'
BY DEF HoldingLettersHold, confirmationVars

LEMMA AuditTypesKept ==
  ASSUME AuditTypes, AuditInv, [AuditNext]_auditVars
  PROVE  AuditTypes'
<1>0. /\ stage \in Stages /\ FieldTypes /\ HoldingLettersHold /\ PapersHold
      /\ WorkInv /\ ConfirmInv /\ StatementInv /\ PaperInv
      /\ EvidenceHeld /\ FindingsHold
  BY DEF AuditTypes, AuditInv, FieldTypes, StatementsHold
<1>1. CASE FieldworkNext /\ UNCHANGED releaseVars
  <2>1. UNCHANGED confirmationVars
    BY <1>1 DEF FieldworkNext, EvidenceNext, ProcedureNext, SampleNext, StatementNext, ReviewNext, HandoverNext
  <2>2. FieldTypes' /\ HoldingLettersHold'
    BY <1>0, <1>1, <2>1, FieldTypesKept, HoldingLettersUntouched
  <2>3. ReleaseStands(stage', bundles) /\ stage' \in Stages
    <3>1. ReleaseStands(stage, bundles)
      BY <1>0 DEF PapersHold
    <3> QED  BY <1>0, <1>1, <3>1, FieldworkMovesTheStage DEF ReleaseStands, Stages
  <2>4. PapersHold'
    BY <1>0, <1>1, <2>3, FindingsGrow, PapersStay
  <2> QED  BY <2>2, <2>3, <2>4 DEF AuditTypes, Stages
<1>2. CASE ConfirmationsNext /\ UNCHANGED <<fieldVars, releaseVars>>
  <2>1. UNCHANGED stage /\ UNCHANGED findings
    BY <1>2 DEF ConfirmationsNext, fieldVars, statementVars
  <2>2. FieldTypes' /\ HoldingLettersHold'
    BY <1>0, <1>2, FieldTypesUntouched, HoldingLettersKept
  <2>3. PapersHold'
    <3>1. ReleaseStands(stage', bundles)
      BY <1>0, <2>1 DEF PapersHold
    <3> QED  BY <1>0, <1>2, <2>1, <3>1, PapersStay
  <2> QED  BY <1>0, <2>1, <2>2, <2>3 DEF AuditTypes, Stages
<1>3. CASE ReleaseNext /\ UNCHANGED <<fieldVars, confirmationVars>>
  <2>1. UNCHANGED findings
    BY <1>3 DEF fieldVars, statementVars
  <2>2. FieldTypes' /\ HoldingLettersHold'
    BY <1>0, <1>3, FieldTypesUntouched, HoldingLettersUntouched
  <2>3. PapersHold'
    BY <1>0, <1>3, <2>1, ReleaseMovesPapers
  <2>4. stage' \in Stages
    BY <1>0, <1>3, ReleaseMovesTheStage DEF Stages
  <2> QED  BY <2>2, <2>3, <2>4 DEF AuditTypes, Stages
<1>4. CASE UNCHANGED auditVars
  <2>1. UNCHANGED stage /\ UNCHANGED confirmationVars /\ UNCHANGED fieldVars /\ UNCHANGED releaseVars
    BY <1>4 DEF auditVars
  <2>2. FieldTypes' /\ HoldingLettersHold' /\ UNCHANGED findings
    BY <1>0, <2>1, FieldTypesUntouched, HoldingLettersUntouched DEF fieldVars, statementVars
  <2>3. PapersHold'
    <3>1. ReleaseStands(stage', bundles)
      BY <1>0, <2>1 DEF PapersHold
    <3> QED  BY <1>0, <2>1, <2>2, <3>1, PapersStay
  <2> QED  BY <1>0, <2>1, <2>2, <2>3 DEF AuditTypes, Stages
<1> QED  BY <1>1, <1>2, <1>3, <1>4 DEF AuditNext

LEMMA AuditTypesBegin ==
  ASSUME AuditInit
  PROVE  AuditTypes
<1>0. IsList(<<>>) /\ DOMAIN <<>> = {} /\ Len(<<>>) = 0
  BY NothingIsAList
<1>1. /\ stage = "FIELDWORK_EXECUTION" /\ evidence = [f \in Families |-> <<>>]
      /\ submissions = <<>> /\ notes = <<>> /\ policy = "NONE" /\ population = FALSE /\ plans = <<>>
      /\ findings = <<>> /\ adjustments = <<>> /\ differences = <<>> /\ snapshots = {} /\ analyses = <<>>
      /\ program = Absent /\ procedures = <<>> /\ confirmations = <<>> /\ holdingLetters = {}
  BY DEF AuditInit, ConfirmationsInit, FieldworkInit, EvidenceInit, SamplingInit, StatementsInit
<1>2. /\ today = 1 /\ opinions = 0 /\ route = 1
      /\ draft = [status |-> "NONE", version |-> 0, complete |-> FALSE, by |-> Nobody, approver |-> Nobody]
      /\ reports = <<>> /\ letters = <<>> /\ requests = <<>> /\ bundles = <<>>
      /\ dispatches = <<>> /\ deliveries = {}
  BY DEF AuditInit, ReleaseInit
<1>3. EvidenceHeld
  BY <1>1 DEF EvidenceHeld
<1>4. ReviewsHold
  BY <1>0, <1>1 DEF ReviewsHold
<1>5. SamplesHold
  BY <1>0, <1>1 DEF SamplesHold, PolicyStates
<1>6. StatementsHold
  BY <1>0, <1>1 DEF StatementsHold, FindingsHold, AdjustmentsHold, DifferencesHold, AnalysesHold
<1>7. AreaHolds
  <2>1. /\ program.status = "ABSENT" /\ program.band = "GREEN" /\ program.version = 0
        /\ program.assigned = Nobody /\ program.steps = <<>>
    BY <1>1 DEF Absent
  <2>2. ToSet(<<>>) = {} /\ <<>> \in Seq({})
    BY <1>0 DEF ToSet
  <2>3. StepsHold
    BY <1>0, <1>1, <2>1, <2>2 DEF StepsHold
  <2> QED  BY <1>0, <1>1, <2>3 DEF AreaHolds, ProceduresHold
<1>8. PlansOfProcedures
  BY <1>0, <1>1 DEF PlansOfProcedures
<1>9. HoldingLettersHold
  BY <1>1 DEF HoldingLettersHold
<1>10. PapersHold
  <2>1. draft.status = "NONE"
    BY <1>2
  <2>2. \A S : <<>> \in Seq(S)
    OBVIOUS
  <2>3. 1 \in 1..MaxDay /\ 0 \in 0..MaxOpinions /\ 1 \in 1..MaxRoutes
    BY ReleaseBounds
  <2>4. MailsHold
    BY <1>2, <2>2 DEF MailsHold
  <2>5. ReleaseStands(stage, bundles)
    BY <1>0, <1>1, <1>2 DEF ReleaseStands
  <2> QED  BY <1>2, <2>1, <2>2, <2>3, <2>4, <2>5 DEF PapersHold
<1> QED  BY <1>1, <1>3, <1>4, <1>5, <1>6, <1>7, <1>8, <1>9, <1>10 DEF AuditTypes, FieldTypes, Stages

----
(* What the invariant says of the types.                                    *)
LEMMA OneOfEachFamily ==
  ASSUME EvidenceHeld, NEW links,
         (\E version : LinksStand(evidence, links, version)) \/ PinsStand(evidence, links)
  PROVE  OnePerFamily(links)
BY DEF OnePerFamily, LinksStand, PinsStand, EvidenceLinks, EvidencePins

LEMMA OneIsReleased ==
  ASSUME ReleaseStands(stage, bundles)
  PROVE  Cardinality({b \in DOMAIN bundles : bundles[b].status = "RELEASED"})
           = IF stage = "COMPLIANCE_COUNTDOWN" THEN 1 ELSE 0
<1> DEFINE released == {b \in DOMAIN bundles : bundles[b].status = "RELEASED"}
<1>1. CASE stage = "COMPLIANCE_COUNTDOWN"
  <2>1. PICK b \in DOMAIN bundles : \A k \in DOMAIN bundles : bundles[k].status = "RELEASED" <=> k = b
    BY <1>1 DEF ReleaseStands
  <2>2. released = {b}
    BY <2>1
  <2>3. Cardinality(released) = 1
    <3> HIDE DEF released
    <3> QED  BY <2>2, FS_Singleton
  <2> QED  BY <1>1, <2>3
<1>2. CASE stage # "COMPLIANCE_COUNTDOWN"
  <2>1. released = {}
    BY <1>2 DEF ReleaseStands
  <2>2. Cardinality(released) = 0
    <3> HIDE DEF released
    <3> QED  BY <2>1, FS_EmptySet
  <2> QED  BY <1>2, <2>2
<1> QED  BY <1>1, <1>2

LEMMA TypesAreHeld ==
  ASSUME AuditTypes, ConfirmInv
  PROVE  ReleaseTypeOK
<1>0. /\ stage \in Stages /\ EvidenceHeld /\ ReviewsHold /\ SamplesHold /\ AreaHolds /\ PlansOfProcedures
      /\ FindingsHold /\ AdjustmentsHold /\ DifferencesHold /\ AnalysesHold /\ HoldingLettersHold /\ PapersHold
  BY DEF AuditTypes, FieldTypes, StatementsHold
<1>1. EvidenceTypeOK
  <2>1. ConfirmationsTypeOK
    BY <1>0 DEF ConfirmationsTypeOK, ConfirmInv, Confirmation, HoldingLettersHold
  <2> QED  BY <1>0, <2>1 DEF EvidenceTypeOK, EvidenceHeld, ReviewsHold, NoteForm, DecidedBy
<1>2. SamplingTypeOK
  <2>1. ASSUME NEW n \in DOMAIN plans
        PROVE  /\ plans[n].rows \subseteq Rows /\ plans[n].rows # {}
               /\ plans[n].evaluation.result \in Outcomes \cup {"NONE", "INCOMPLETE"}
               /\ \A r \in plans[n].rows :
                    LET test == plans[n].tests[r]
                    IN /\ test.version \in 0..MaxTests /\ OnePerFamily(test.links)
                       /\ test.tested <=> test.evidence # Nothing
                       /\ \A l \in test.links : l.target <= test.version
    <3>1. PlanForm(evidence, plans[n])
      BY <1>0 DEF SamplesHold
    <3>2. ASSUME NEW r \in plans[n].rows
          PROVE  LET test == plans[n].tests[r]
                 IN /\ test.version \in 0..MaxTests /\ OnePerFamily(test.links)
                    /\ test.tested <=> test.evidence # Nothing
                    /\ \A l \in test.links : l.target <= test.version
      <4> DEFINE test == plans[n].tests[r]
      <4>1. TestForm(evidence, test)
        BY <3>1 DEF PlanForm
      <4> HIDE DEF test
      <4>2. LinksStand(evidence, test.links, test.version)
        BY <4>1 DEF TestForm
      <4>3. OnePerFamily(test.links) /\ \A l \in test.links : l.target <= test.version
        BY <1>0, <4>2, OneOfEachFamily DEF LinksStand
      <4>4. test.version \in 0..MaxTests /\ (test.tested <=> test.evidence # Nothing)
        BY <4>1 DEF TestForm
      <4> QED  BY <4>3, <4>4 DEF test
    <3>3. /\ plans[n].rows \subseteq Rows /\ plans[n].rows # {}
          /\ plans[n].evaluation.result \in Outcomes \cup {"NONE", "INCOMPLETE"}
      BY <3>1 DEF PlanForm
    <3> QED  BY <3>2, <3>3
  <2>2. /\ policy \in PolicyStates /\ population \in BOOLEAN
        /\ plans # <<>> => population /\ policy \in {"ACTIVE", "RETIRED"}
    BY <1>0 DEF SamplesHold
  <2> QED  BY <2>1, <2>2 DEF SamplingTypeOK
<1>3. StatementsTypeOK
  <2>1. ASSUME NEW f \in DOMAIN findings
        PROVE  /\ findings[f].version \in 1..MaxRevision
               /\ findings[f].status \in {"OPEN", "RESPONDED", "RESOLVED"}
               /\ findings[f].by \in Staff /\ OnePerFamily(findings[f].links)
    BY <1>0, OneOfEachFamily DEF FindingsHold, FindingForm
  <2>2. ASSUME NEW a \in DOMAIN adjustments
        PROVE  /\ adjustments[a].status \in AdjustmentStatuses
               /\ adjustments[a].finding \in 0..Len(findings)
               /\ OnePerFamily(adjustments[a].pins)
               /\ adjustments[a].status = "REVIEW_APPROVED" <=> adjustments[a].approver # Nobody
    BY <1>0, OneOfEachFamily DEF AdjustmentsHold, AdjustmentStands
  <2>3. ASSUME NEW n \in DOMAIN analyses
        PROVE  /\ analyses[n].version \in 1..MaxRevision
               /\ analyses[n].status \in Drafts \cup {"SUBMITTED", "REVIEWED"}
               /\ analyses[n].by \in analyses[n].writers /\ analyses[n].writers \subseteq Staff
               /\ analyses[n].snapshot \in snapshots /\ OnePerFamily(analyses[n].links)
    BY <1>0, OneOfEachFamily DEF AnalysesHold, AnalysisStands
  <2>4. \A d \in DOMAIN differences :
          /\ differences[d].finding \in DOMAIN findings
          /\ differences[d].disposition \in Dispositions
          /\ differences[d].adjustment \in 0..Len(adjustments)
    BY <1>0 DEF DifferencesHold
  <2> QED  BY <2>1, <2>2, <2>3, <2>4 DEF StatementsTypeOK
<1>4. FieldworkTypeOK
  <2>1. /\ program.status \in Editable \cup {"ABSENT", "SUBMITTED", "REVIEWED", "PARTNER_CLEARED"}
        /\ program.band \in Bands \cup {"GREEN"} /\ program.version \in Nat
        /\ program.assigned \in Staff \cup {Nobody}
        /\ StepsOf(program.steps, DOMAIN procedures)
    BY <1>0 DEF AreaHolds, StepsHold, StepsOf
  <2>2. ToSet(program.steps) = DOMAIN procedures /\ Len(program.steps) = Cardinality(DOMAIN procedures)
    BY <2>1, StepsCounted DEF StepsOf
  <2>3. ASSUME NEW q \in DOMAIN procedures
        PROVE  /\ procedures[q].version \in 1..MaxVersion
               /\ procedures[q].status \in Editable \cup {"SUBMITTED", "REVIEWED"}
               /\ OnePerFamily(procedures[q].links)
               /\ \A l \in procedures[q].links : l.target <= procedures[q].version
    <3>1. ProcedureStands(evidence, procedures[q])
      BY <1>0 DEF AreaHolds, ProceduresHold
    <3>2. LinksStand(evidence, procedures[q].links, procedures[q].version)
      BY <3>1 DEF ProcedureStands
    <3> QED  BY <1>0, <3>1, <3>2, OneOfEachFamily DEF ProcedureStands, LinksStand
  <2> QED  BY <1>0, <1>1, <1>2, <1>3, <2>1, <2>2, <2>3 DEF FieldworkTypeOK, PlansOfProcedures
<1>5. Cardinality({b \in DOMAIN bundles : bundles[b].status = "RELEASED"})
        = IF stage = "COMPLIANCE_COUNTDOWN" THEN 1 ELSE 0
  BY <1>0, OneIsReleased DEF PapersHold
<1> QED  BY <1>0, <1>4, <1>5 DEF ReleaseTypeOK, PapersHold, MailsHold, ReportOf, LetterOf, RequestOf, BundleOf

(* Theorem: an engagement keeps its types from its fieldwork to its release *)
(* whatever the staff, the clients and the jobs do, one step of any of them *)
(* after another: links and pins name versions of evidence there are, the   *)
(* steps of a workprogram are its procedures, each of them once, an         *)
(* adjustment is approved exactly when somebody approved it, an analysis is *)
(* of statements there were, and one bundle is released when the countdown  *)
(* begins, and none before.                                                 *)
THEOREM AuditTypesHold == AuditSpec => []ReleaseTypeOK
<1>1. AuditInit => AuditTypes
  BY AuditTypesBegin
<1>2. AuditTypes /\ AuditInv /\ [AuditNext]_auditVars => AuditTypes'
  BY AuditTypesKept
<1>3. AuditTypes /\ AuditInv => ReleaseTypeOK
  BY TypesAreHeld DEF AuditInv
<1> QED  BY <1>1, <1>2, <1>3, AuditInvHolds, PTL DEF AuditSpec
================================================================================
