----------------------------- MODULE Fieldwork -----------------------------
(***************************************************************************)
(* The fieldwork of one area of an engagement (worker/businessFieldwork.ts)*)
(* Staff write up the procedures of a workprogram on the latest version of *)
(* their evidence, somebody who wrote none of it reviews each, a Manager   *)
(* takes over the reviewed workprogram, a Partner clears it, and the       *)
(* summary review memorandum (SRM) made of all of it opens the approval.   *)
(*                                                                         *)
(* Every row has a version that every write raises, and every approval     *)
(* names the versions it is an approval of.  A person may act in any       *)
(* persona, so independence is of persons.  The text of a procedure is     *)
(* left out: its version stands for it, as it does for the source hashes.  *)
(* Its samples are in Sampling, the adjusted statements in Statements.     *)
(***************************************************************************)
EXTENDS Sampling, Statements

CONSTANTS
  Procedures,      \* procedures a workprogram may have
  Template,        \* the procedures of the approved template, in order
  Optional,        \* those of them that are not mandatory
  Bands,           \* risk bands the area may have been given
  MaxVersion,      \* bound on the versions of a procedure
  MaxAssessments,  \* bound on going-concern assessments
  MaxSrms          \* bound on the compiled SRMs

ASSUME FieldworkConstants ==
  /\ Template \in Seq(Procedures) /\ Template # <<>>
  /\ \A i, j \in DOMAIN Template : Template[i] = Template[j] => i = j
  /\ Optional \subseteq ToSet(Template) /\ Bands \subseteq {"GREEN", "RED"}
ASSUME FieldworkBounds ==
  /\ MaxVersion \in Nat \ {0} /\ MaxAssessments \in Nat /\ MaxSrms \in Nat

VARIABLES
  program,      \* the workprogram; its steps are the procedures in order
  procedures,   \* the procedures of the workprogram
  assessments,  \* going_concern_assessments, oldest first
  clearances,   \* the procedure versions a Partner cleared the area for
  srms          \* srm_versions, oldest first

areaVars == <<program, procedures, assessments, clearances, srms>>
fieldVars == <<evidence, reviewVars, areaVars, samplingVars, statementVars>>

Editable == {"NOT_STARTED", "IN_PROGRESS", "UNDER_REWORK"}
Absent == [status |-> "ABSENT", version |-> 0, band |-> "GREEN",
           assigned |-> Nobody, steps |-> <<>>]

Versions == [p \in DOMAIN procedures |-> procedures[p].version]

(* evidenceSet refuses a replaced version, assertProcedureEvidenceCurrent
   also pins that are not the recorded ones. *)
Fresh(p) == AllLatest(procedures[p].links)
EvidenceCurrent(p) == Fresh(p) /\ Pins(procedures[p].links) = procedures[p].pins

Supported(p) ==
  /\ AllAdequate(procedures[p].links)
  /\ p \notin Optional => procedures[p].links # {}

AimedAt(p, version) == \A l \in procedures[p].links : l.target = version

(* High-risk work is executed by the Manager the workprogram names. *)
WellExecuted(p) ==
  program.band = "RED" => procedures[p].executed = program.assigned

FieldworkTypeOK ==
  /\ EvidenceTypeOK /\ SamplingTypeOK /\ StatementsTypeOK
  /\ program.status \in Editable \cup {"ABSENT", "SUBMITTED", "REVIEWED",
                                       "PARTNER_CLEARED"}
  /\ program.band \in Bands \cup {"GREEN"} /\ program.version \in Nat
  /\ program.assigned \in Staff \cup {Nobody}
  /\ ToSet(program.steps) = DOMAIN procedures
  /\ Len(program.steps) = Cardinality(DOMAIN procedures)
  /\ \A p \in DOMAIN procedures :
       /\ procedures[p].version \in 1..MaxVersion
       /\ procedures[p].status \in Editable \cup {"SUBMITTED", "REVIEWED"}
       /\ OnePerFamily(procedures[p].links)
       /\ \A l \in procedures[p].links : l.target <= procedures[p].version
  /\ \A n \in DOMAIN plans : plans[n].procedure \in DOMAIN procedures \cup {Nobody}

FieldworkInit ==
  /\ EvidenceInit /\ SamplingInit /\ StatementsInit
  /\ program = Absent /\ procedures = <<>> /\ assessments = <<>>
  /\ clearances = {} /\ srms = <<>>

(***************************************************************************)
(* Evidence of procedures.                                                 *)
(***************************************************************************)
Revised(p, row) ==
  /\ procedures[p].version < MaxVersion
  /\ procedures' = [procedures EXCEPT ![p] = [row EXCEPT !.version = @ + 1]]

EvidenceLink(f, p) ==
  LET row  == procedures[p]
      next == Relinked(f, row.links, row.version + 1)
  IN /\ Executable /\ row.status \in Editable /\ Linkable(f, row.links)
     /\ Revised(p, [row EXCEPT !.links = next, !.pins = Pins(next)])
     /\ UNCHANGED <<program, assessments, clearances, srms>>

(* Unlinking asks nothing of the status of the procedure and leaves it under
   rework; the links that stay keep the version they were made for. *)
EvidenceUnlink(p, link) ==
  LET rest == procedures[p].links \ {link}
  IN /\ Executable
     /\ Revised(p, [procedures[p] EXCEPT !.links = rest, !.status = "UNDER_REWORK",
                      !.pins = Pins({l \in rest : IsLatest(l)})])
     /\ UNCHANGED <<program, assessments, clearances, srms>>

(***************************************************************************)
(* The workprogram and its procedures.                                     *)
(***************************************************************************)
Fresh0 == [version |-> 1, status |-> "NOT_STARTED", applicable |-> TRUE,
           executed |-> Nobody, editors |-> {}, links |-> {}, pins |-> {}]

WorkprogramProvision(who, band) ==
  /\ Executable /\ program = Absent
  /\ band = "RED" => who \in Managers \cup Partners
  /\ program' = [status |-> "IN_PROGRESS", version |-> 1, band |-> band,
                 assigned |-> who, steps |-> Template]
  /\ procedures' = [p \in ToSet(Template) |-> Fresh0]
  /\ UNCHANGED <<assessments, reviewVars, clearances, srms>>

(* An ad-hoc procedure goes to the end, or after a step: the steps it moves
   down are written, so they must be open. *)
ProcedureInsert(p, place) ==
  LET moved == {program.steps[i] : i \in place..Len(program.steps)}
  IN /\ p \notin DOMAIN procedures
     /\ program.status \in {"IN_PROGRESS", "UNDER_REWORK"}
     /\ \A q \in moved : /\ procedures[q].status \in Editable /\ Fresh(q)
                         /\ procedures[q].version < MaxVersion
     /\ program' = [program EXCEPT !.steps = InsertAt(@, place, p)]
     /\ procedures' = [q \in DOMAIN procedures \cup {p} |->
          IF q = p THEN Fresh0
          ELSE IF q \in moved
          THEN [procedures[q] EXCEPT !.version = @ + 1, !.pins = Pins(procedures[q].links)]
          ELSE procedures[q]]
     /\ UNCHANGED <<assessments, reviewVars, clearances, srms>>

ProcedureUpdate(who, p) ==
  LET row == procedures[p]
  IN /\ row.status \in Editable /\ Fresh(p)
     /\ program.band = "RED" => who = program.assigned
     /\ Revised(p, [row EXCEPT !.status = "IN_PROGRESS", !.executed = who,
                      !.editors = @ \cup {who}, !.pins = Pins(row.links)])
     /\ UNCHANGED <<program, assessments, reviewVars, clearances, srms>>

ProcedureSubmission(who, p) ==
  Submit([Submission("PROCEDURE", p, procedures[p].version + 1, who,
                     procedures[p].editors)
            EXCEPT !.pins = Pins(procedures[p].links), !.samples = SamplePins(p)])

(* A procedure that does not apply is submitted at once; who says so is its
   preparer unless it has one, and it never applies again. *)
ProcedureNotApplicable(who, p) ==
  LET row == procedures[p]
  IN /\ row.status \in Editable /\ Fresh(p) /\ SamplesComplete(p)
     /\ Revised(p, [row EXCEPT !.status = "SUBMITTED", !.applicable = FALSE,
                      !.editors = IF row.editors = {} THEN {who} ELSE row.editors,
                      !.pins = Pins(row.links)])
     /\ ProcedureSubmission(who, p)
     /\ UNCHANGED <<program, assessments, notes, clearances, srms>>

ProcedureSubmit(who, p) ==
  LET row == procedures[p]
  IN /\ row.status \in Editable
     /\ row.applicable => row.executed # Nobody /\ Supported(p)
     /\ WellExecuted(p) /\ SamplesComplete(p)
     /\ AimedAt(p, row.version) /\ EvidenceCurrent(p)
     /\ Revised(p, [row EXCEPT !.status = "SUBMITTED"])
     /\ ProcedureSubmission(who, p)
     /\ UNCHANGED <<program, assessments, notes, clearances, srms>>

(***************************************************************************)
(* Reviews.                                                                *)
(***************************************************************************)
ProcedureReview(who, s, decision) ==
  LET item == submissions[s].item
      row == procedures[item]
  IN /\ submissions[s].kind = "PROCEDURE"
     /\ row.status = "SUBMITTED" /\ row.version = submissions[s].target
     /\ Decided(s, decision, who)
     /\ IF decision = "ACCEPT"
        THEN /\ Fresh(item) /\ AimedAt(item, submissions[s].content)
             /\ Pins(row.links) = submissions[s].pins
             /\ row.applicable => AllAdequate(row.links)
             /\ WellExecuted(item)
             /\ SamplesComplete(item) /\ SamplePins(item) = submissions[s].samples
             /\ Revised(item, [row EXCEPT !.status = "REVIEWED"])
             /\ UNCHANGED notes
        ELSE /\ Revised(item, [row EXCEPT !.status = "UNDER_REWORK"])
             /\ notes' = Append(notes, Note(s, item))
     /\ UNCHANGED <<program, assessments, clearances, srms>>

AllReviewed == \A p \in DOMAIN procedures : procedures[p].status = "REVIEWED"
AllCurrent  == \A p \in DOMAIN procedures : EvidenceCurrent(p) /\ SamplesComplete(p)
AllWellExecuted == \A p \in DOMAIN procedures : WellExecuted(p)
OfArea(n) == submissions[notes[n].submission].kind \in {"PROCEDURE", "WORKPROGRAM"}

(* The row of a workprogram or of an assessment a submission is about moves
   on with it. *)
ProgramTo(status) ==
  program' = [program EXCEPT !.status = status, !.version = @ + 1]

WorkprogramSubmit(who) ==
  /\ Executable /\ program.status \in Editable
  /\ AllWellExecuted /\ AllCurrent /\ AllReviewed
  /\ \A n \in DOMAIN notes : OfArea(n) => notes[n].status # "OPEN"
  /\ ProgramTo("SUBMITTED")
  /\ Submit([Submission("WORKPROGRAM", 1, program.version + 1, who,
                        UNION {procedures[p].editors : p \in DOMAIN procedures})
               EXCEPT !.versions = Versions])
  /\ UNCHANGED <<procedures, assessments, notes, clearances, srms>>

WorkprogramAccept(who, s) ==
  /\ submissions[s].kind = "WORKPROGRAM"
  /\ program.status = "SUBMITTED" /\ program.version = submissions[s].target
  /\ Decided(s, "ACCEPT", who)
  /\ AllCurrent /\ AllReviewed /\ Versions = submissions[s].versions
  /\ ProgramTo("REVIEWED")
  /\ UNCHANGED <<procedures, assessments, notes, clearances, srms>>

(* A returned workprogram opens the chosen procedures, whatever their
   status, with a note for each. *)
WorkprogramReturn(who, s, chosen) ==
  /\ submissions[s].kind = "WORKPROGRAM"
  /\ program.status = "SUBMITTED" /\ program.version = submissions[s].target
  /\ Decided(s, "RETURN", who)
  /\ chosen # {} /\ \A p \in chosen : procedures[p].version < MaxVersion
  /\ ProgramTo("UNDER_REWORK")
  /\ procedures' = [p \in DOMAIN procedures |->
       IF p \in chosen
       THEN [procedures[p] EXCEPT !.status = "UNDER_REWORK", !.version = @ + 1]
       ELSE procedures[p]]
  /\ notes' = notes \o SetToSeq({Note(s, p) : p \in chosen})
  /\ UNCHANGED <<assessments, clearances, srms>>

GoingConcernSave(who) ==
  /\ Executable /\ Len(assessments) < MaxAssessments
  /\ assessments' = Append(assessments, [version |-> 1, status |-> "DRAFT", by |-> who])
  /\ UNCHANGED <<program, procedures, reviewVars, clearances, srms>>

(* Any assessment is submitted, the latest or not, and a returned one
   without a change. *)
GoingConcernSubmit(who, g) ==
  /\ Executable /\ assessments[g].status \in {"DRAFT", "UNDER_REWORK"}
  /\ assessments' = [assessments EXCEPT ![g] =
       [@ EXCEPT !.status = "SUBMITTED", !.version = @ + 1]]
  /\ Submit(Submission("GOING_CONCERN", g, assessments[g].version + 1, who,
                       {assessments[g].by}))
  /\ UNCHANGED <<program, procedures, notes, clearances, srms>>

GoingConcernReview(who, s, decision) ==
  LET g == submissions[s].item
  IN /\ submissions[s].kind = "GOING_CONCERN"
     /\ assessments[g].status = "SUBMITTED"
     /\ assessments[g].version = submissions[s].target
     /\ Decided(s, decision, who)
     /\ assessments' = [assessments EXCEPT ![g] =
          [@ EXCEPT !.version = @ + 1,
                    !.status = IF decision = "ACCEPT" THEN "REVIEWED" ELSE "UNDER_REWORK"]]
     /\ NoteUnlessAccepted(s, decision)
     /\ UNCHANGED <<program, procedures, clearances, srms>>

(* An SRM may be submitted for review as well, which no decision answers. *)
SrmSubmit(who, r) ==
  /\ Executable
  /\ Submit(Submission("SRM", r, r, who, {}))
  /\ UNCHANGED <<program, procedures, assessments, notes, clearances, srms>>

(***************************************************************************)
(* From fieldwork to the Manager, to the Partner, to the approval.         *)
(***************************************************************************)
HandoverToManager(who) ==
  /\ stage = "FIELDWORK_EXECUTION" /\ who \in Managers /\ Blockers = {}
  /\ program.status = "REVIEWED" /\ AcceptedAt("WORKPROGRAM", 1, program.version - 1)
  /\ AllCurrent /\ AllReviewed /\ AllWellExecuted
  /\ \A p \in DOMAIN procedures : AcceptedAt("PROCEDURE", p, procedures[p].version - 1)
  /\ \A s \in DOMAIN submissions :
       submissions[s].kind \in {"ANALYTICAL_REVIEW", "GOING_CONCERN"} =>
         submissions[s].decision # "NONE"
  /\ NotesClosed
  /\ stage' = "MANAGERIAL_REVIEW"
  /\ UNCHANGED fieldVars

PartnerClearArea(who, s) ==
  /\ stage = "MANAGERIAL_REVIEW" /\ who \in Partners
  /\ program.status = "REVIEWED"
  /\ submissions[s].kind = "WORKPROGRAM" /\ submissions[s].decision = "ACCEPT"
  /\ submissions[s].target + 1 = program.version
  /\ AllReviewed /\ AllCurrent /\ AllWellExecuted
  /\ \A n \in DOMAIN notes : OfArea(n) => notes[n].status = "CLOSED"
  /\ submissions[s].versions = Versions
  /\ ProgramTo("PARTNER_CLEARED")
  /\ clearances' = clearances \cup {Versions}
  /\ UNCHANGED <<stage, procedures, assessments, reviewVars, srms, statementVars>>

(* What an SRM is made of, and what must hold of it (collectSrmInputs).  A
   decided submission, a closed note, an approved adjustment and a difference
   do not change any more, so their numbers stand for all of them. *)
SrmInputs == [program |-> program.version, versions |-> Versions,
              going |-> Len(assessments), submitted |-> Len(submissions),
              noted |-> Len(notes), adjusted |-> Len(adjustments),
              differing |-> Len(differences),
              found |-> [f \in DOMAIN findings |-> findings[f].version],
              analysed |-> [n \in DOMAIN analyses |-> analyses[n].version]]

SrmReady ==
  /\ stage \in {"MANAGERIAL_REVIEW", "PARTNER_APPROVAL"}
  /\ assessments # <<>> /\ Last(assessments).status = "REVIEWED"
  /\ AllCurrent /\ AllReviewed
  /\ program.status = "PARTNER_CLEARED"
  /\ AcceptedAt("WORKPROGRAM", 1, program.version - 2)
  /\ \A s \in DOMAIN submissions : submissions[s].decision # "NONE"
  /\ NotesClosed /\ Versions \in clearances
  /\ StatementsReady

SrmCurrent == srms # <<>> /\ SrmReady /\ Last(srms).inputs = SrmInputs

SrmCompile(who) ==
  /\ who \in Managers /\ stage = "MANAGERIAL_REVIEW" /\ SrmReady
  /\ Len(srms) < MaxSrms
  /\ srms' = Append(srms, [by |-> who, inputs |-> SrmInputs, clearedBy |-> Nobody])
  /\ snapshots' = snapshots \cup {Included}
  /\ UNCHANGED <<program, procedures, assessments, reviewVars, clearances,
                 findings, adjustments, differences, analyses>>

HandoverToPartner(who) ==
  /\ stage = "MANAGERIAL_REVIEW" /\ who \in Partners
  /\ program.status = "PARTNER_CLEARED" /\ AllReviewed /\ AllCurrent
  /\ Versions \in clearances /\ NotesClosed /\ SrmCurrent
  /\ stage' = "PARTNER_APPROVAL"
  /\ UNCHANGED fieldVars

SrmClear(who) ==
  /\ stage = "PARTNER_APPROVAL" /\ who \in Partners /\ SrmCurrent
  /\ who # Last(srms).by /\ Last(srms).clearedBy = Nobody
  /\ srms' = [srms EXCEPT ![Len(srms)].clearedBy = who]
  /\ UNCHANGED <<program, procedures, assessments, reviewVars, clearances, statementVars>>

(***************************************************************************)
(* The commands of this module, by what they are about.                    *)
(***************************************************************************)
EvidenceNext ==
  /\ UNCHANGED <<stage, confirmationVars, reviewVars>>
  /\ \/ /\ UNCHANGED <<areaVars, samplingVars, findings, differences, snapshots, analyses>>
        /\ \E who \in Staff, f \in Families :
             \/ EvidenceCreate(who, f) /\ UNCHANGED adjustments
             \/ /\ \E adequacy \in Adequacies \ {"PENDING"} : EvidenceReview(who, f, adequacy)
                /\ Rejudged(f)
     \/ /\ UNCHANGED <<evidence, samplingVars, statementVars>>
        /\ \E p \in DOMAIN procedures :
             \/ \E f \in Families : EvidenceLink(f, p)
             \/ \E link \in procedures[p].links : EvidenceUnlink(p, link)
     \/ /\ UNCHANGED <<evidence, areaVars, statementVars>>
        /\ \E n \in DOMAIN plans : \E r \in plans[n].rows :
             \/ \E f \in Families : SampleLink(n, r, f)
             \/ \E link \in plans[n].tests[r].links : SampleUnlink(n, r, link)
     \/ UNCHANGED <<evidence, areaVars, samplingVars>> /\ StatementLinkNext

ProcedureNext ==
  /\ Executable
  /\ UNCHANGED <<stage, confirmationVars, evidence, samplingVars, statementVars>>
  /\ \/ \E who \in Staff, band \in Bands : WorkprogramProvision(who, band)
     \/ \E p \in Procedures, place \in 1..(Len(program.steps) + 1) :
          ProcedureInsert(p, place)
     \/ \E who \in Staff, p \in DOMAIN procedures :
          \/ ProcedureUpdate(who, p) \/ ProcedureNotApplicable(who, p)
          \/ ProcedureSubmit(who, p)

(* A plan of a procedure is worked on only while the procedure is; one of no
   procedure at any time. *)
Open(p) == p \in DOMAIN procedures => procedures[p].status \in Editable

SampleNext ==
  /\ UNCHANGED <<stage, confirmationVars, evidence, reviewVars, areaVars, statementVars>>
  /\ \/ SamplingPolicyNext
     \/ \E p \in DOMAIN procedures \cup {Nobody}, drawn \in SUBSET Rows :
          SamplingPlan(p, drawn, Open(p))
     \/ \E n \in DOMAIN plans :
          LET open == Open(plans[n].procedure)
          IN \/ \E r \in plans[n].rows :
                  \/ \E f \in Families : SampleTest(n, r, f, open)
                  \/ SampleUntest(n, r, open)
             \/ \E outcome \in Outcomes : SampleEvaluate(n, outcome, open)

StatementNext ==
  /\ UNCHANGED <<stage, confirmationVars, evidence, areaVars, samplingVars>>
  /\ \/ (FindingNext \/ AdjustmentNext) /\ UNCHANGED reviewVars
     \/ AnalysisReviewNext

ReviewNext ==
  /\ Executable
  /\ UNCHANGED <<stage, confirmationVars, evidence, samplingVars, statementVars>>
  /\ \/ \E who \in Staff :
          \/ WorkprogramSubmit(who) \/ GoingConcernSave(who)
          \/ \E g \in DOMAIN assessments : GoingConcernSubmit(who, g)
          \/ \E r \in DOMAIN srms : SrmSubmit(who, r)
     \/ \E who \in Staff, s \in DOMAIN submissions :
          \/ \E decision \in {"ACCEPT", "RETURN"} :
               ProcedureReview(who, s, decision) \/ GoingConcernReview(who, s, decision)
          \/ WorkprogramAccept(who, s)
          \/ \E chosen \in SUBSET DOMAIN procedures : WorkprogramReturn(who, s, chosen)
     \/ /\ UNCHANGED areaVars
        /\ \E n \in DOMAIN notes :
             \/ NoteRespond(n)
             \/ \E s \in DOMAIN submissions : NoteClose(n, s)

HandoverNext ==
  /\ UNCHANGED <<confirmationVars, evidence, samplingVars>>
  /\ \E who \in Staff :
       \/ HandoverToManager(who) \/ HandoverToPartner(who)
       \/ \E s \in DOMAIN submissions : PartnerClearArea(who, s)
       \/ (SrmCompile(who) \/ SrmClear(who)) /\ UNCHANGED stage

FieldworkNext == \/ EvidenceNext \/ ProcedureNext \/ SampleNext \/ StatementNext
                 \/ ReviewNext \/ HandoverNext

(***************************************************************************)
(* Properties.                                                             *)
(***************************************************************************)
(* A procedure is done when its present version is the one a review accepted,
   by a person who wrote none of it, and it rests on the latest evidence, all
   of it adequate if the procedure applies, and so does every row its samples
   drew. *)
Done(p) ==
  /\ procedures[p].status = "REVIEWED"
  /\ \A l \in procedures[p].links : IsLatest(l)
  /\ procedures[p].applicable =>
       /\ p \notin Optional => procedures[p].links # {}
       /\ \A l \in procedures[p].links : Adequacy(l) = "ADEQUATE"
  /\ \E s \in DOMAIN submissions :
       /\ submissions[s].kind = "PROCEDURE" /\ submissions[s].item = p
       /\ submissions[s].decision = "ACCEPT"
       /\ submissions[s].target + 1 = procedures[p].version
       /\ submissions[s].reviewer \notin procedures[p].editors
  /\ \A n \in DOMAIN plans : plans[n].procedure = p =>
       /\ plans[n].evaluation.result \in Outcomes
       /\ \A r \in plans[n].rows :
            LET test == plans[n].tests[r]
            IN /\ test.tested /\ test.version = plans[n].evaluation.tests[r]
               /\ IsLatest(test.evidence) /\ Adequacy(test.evidence) = "ADEQUATE"

Confirmed(c) ==
  confirmations[c].status = "CANCELLED"
  \/ /\ confirmations[c].status = "RETURNED_VERIFIED"
     /\ confirmations[c].verifier \notin
          {Nobody, confirmations[c].creator, confirmations[c].recorder}

(* Property: an engagement goes to its Manager only with every procedure done
   and every critical confirmation verified independently, and to its Partner
   only with every procedure done still, in the versions that both the
   accepted workprogram and the Partner's clearance of the area name, and no
   review note open; evidence that was replaced, judged again or unlinked in
   between must have stopped it (handoverWorkpapers, handoverPartner). *)
HandoverIsEarned ==
  [][/\ stage' = "MANAGERIAL_REVIEW" /\ stage # stage' =>
          /\ \A p \in DOMAIN procedures : Done(p)
          /\ \A c \in DOMAIN confirmations : confirmations[c].critical => Confirmed(c)
     /\ stage' = "PARTNER_APPROVAL" /\ stage # stage' =>
          /\ \A p \in DOMAIN procedures : Done(p)
          /\ \E s \in DOMAIN submissions :
               /\ submissions[s].kind = "WORKPROGRAM"
               /\ submissions[s].decision = "ACCEPT"
               /\ submissions[s].versions = Versions
               /\ \A p \in DOMAIN procedures :
                    submissions[s].reviewer \notin procedures[p].editors
          /\ Versions \in clearances
          /\ \A n \in DOMAIN notes : notes[n].status = "CLOSED"]_stage

(* Property: the SRM reaches the Partner, and is cleared, only on statements
   that are settled: each adjustment approved by another person than drafted
   it, on evidence whose decision of adequacy is the one it was drafted on;
   each difference called adjusted put right in the statements; and each
   analytical review accepted on current evidence against the statements as
   they stand, however they were adjusted while it was written and reviewed
   (collectSrmInputs). *)
StatementsAreSettled ==
  [][\/ stage' = "PARTNER_APPROVAL" /\ stage # stage'
     \/ srms' # srms /\ Last(srms').clearedBy # Nobody
     => Settled]_<<stage, srms>>
=============================================================================
