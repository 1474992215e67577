--------------------------- MODULE EngagementProofs ---------------------------
(***************************************************************************)
(* What holds of an engagement before its fieldwork: its two keys turn     *)
(* together, for any number of owners, proposals, changes of the           *)
(* assessment, dossiers, escalations and decisions; and its schedule and   *)
(* its planning keep, for any staff, days and milestones, any number of    *)
(* accounts, importers and versions, the statutory cutoff of the reports,  *)
(* the approved plan that fieldwork rests on, and that no command but the  *)
(* recording of leave overloads anybody.                                   *)
(***************************************************************************)
EXTENDS MCEngagement, Sums, FiniteSetTheorems, SequenceTheorems, WellFoundedInduction, TLAPS

----
(* The shapes of the records that steps change in part.                    *)
Shapes ==
  /\ revision \in 1..MaxProposals
  /\ acceptances \in [1..MaxProposals -> Nat]
  /\ assessment \in [track : {"NEW_CLIENT", "CONTINUANCE"}, version : Nat, draft : Nat,
                     delta : Nat, owed : BOOLEAN]
  /\ dossier = [number |-> dossier.number, source |-> dossier.source, draft |-> dossier.draft,
                owners |-> dossier.owners, issue |-> dossier.issue, escalations |-> dossier.escalations]
  /\ dossier.number \in Nat /\ dossier.source \in Nat
  /\ clearance.dossier \in Nat

(* A dossier whose assessment has not moved since it was submitted is of    *)
(* the draft as it is: a draft never changes alone.                         *)
DossierCurrent ==
  /\ dossier.source <= assessment.version
  /\ Submitted /\ dossier.source = assessment.version => dossier.draft = assessment.draft

(* The clearance of the current dossier was given on what the dossier says. *)
ClearedAsSubmitted ==
  /\ clearance.dossier <= dossier.number
  /\ clearance.decision = "CLEAR" /\ clearance.dossier = dossier.number =>
       /\ Submitted
       /\ clearance.facts = [draft |-> dossier.draft, owners |-> dossier.owners,
                             escalations |-> clearance.escalations]

KeysInv == Shapes /\ DossierCurrent /\ ClearedAsSubmitted

----
(* What the code compares, numbers of versions, tells what the Partner had  *)
(* before him: the clearance it takes for active is one of the facts now.   *)
LEMMA ClearedOnFacts ==
  ASSUME KeysInv, Cleared
  PROVE  clearance.decision = "CLEAR" /\ clearance.facts = Facts
BY DEF KeysInv, Shapes, DossierCurrent, ClearedAsSubmitted, Cleared, Fresh, Submitted, Facts

LEMMA KeysStart ==
  ASSUME AcceptanceInit
  PROVE  KeysInv
<1>1. /\ revision = 1
      /\ acceptances = [r \in 1..MaxProposals |-> 0]
      /\ assessment = [track |-> "NEW_CLIENT", version |-> 0, draft |-> 0, delta |-> 0, owed |-> FALSE]
  BY DEF AcceptanceInit
<1>2. /\ dossier = [number |-> 0, source |-> 0, draft |-> 0, owners |-> {}, issue |-> FALSE, escalations |-> <<>>]
      /\ clearance.decision = "NONE" /\ clearance.dossier = 0
  BY DEF AcceptanceInit
<1>3. revision \in 1..MaxProposals
  BY <1>1, AcceptanceAssumption
<1>4. acceptances \in [1..MaxProposals -> Nat]
  BY <1>1
<1>5. assessment \in [track : {"NEW_CLIENT", "CONTINUANCE"}, version : Nat, draft : Nat, delta : Nat, owed : BOOLEAN]
  BY <1>1
<1>6. Shapes
  BY <1>2, <1>3, <1>4, <1>5 DEF Shapes
<1>7. DossierCurrent /\ ClearedAsSubmitted
  BY <1>1, <1>2 DEF DossierCurrent, ClearedAsSubmitted, Submitted
<1> QED  BY <1>6, <1>7 DEF KeysInv

(* Steps that leave the dossier, the assessment and the clearance alone. *)
LEMMA KeysUntouched ==
  ASSUME KeysInv, UNCHANGED <<assessment, dossier, clearance>>,
         revision' \in 1..MaxProposals, acceptances' \in [1..MaxProposals -> Nat]
  PROVE  KeysInv'
BY DEF KeysInv, Shapes, DossierCurrent, ClearedAsSubmitted, Submitted

LEMMA KeysStay ==
  ASSUME KeysInv, UNCHANGED <<revision, acceptances, assessment, dossier, clearance>>
  PROVE  KeysInv'
BY KeysUntouched DEF KeysInv, Shapes

(* The assessment changes under a new version of its own, and the dossier   *)
(* that was submitted of it stays.                                          *)
LEMMA AssessmentMoves ==
  ASSUME KeysInv, UNCHANGED <<revision, acceptances, dossier, clearance>>,
         assessment' \in [track : {"NEW_CLIENT", "CONTINUANCE"}, version : Nat, draft : Nat,
                          delta : Nat, owed : BOOLEAN],
         assessment.version < assessment'.version
  PROVE  KeysInv'
BY DEF KeysInv, Shapes, DossierCurrent, ClearedAsSubmitted, Submitted

LEMMA Touched ==
  ASSUME KeysInv
  PROVE  /\ Touch(assessment) \in [track : {"NEW_CLIENT", "CONTINUANCE"}, version : Nat, draft : Nat,
                                    delta : Nat, owed : BOOLEAN]
         /\ Touch(assessment).version = assessment.version + 1
         /\ assessment.version \in Nat
BY DEF KeysInv, Shapes, Touch

LEMMA WithDelta ==
  ASSUME NEW a \in [track : {"NEW_CLIENT", "CONTINUANCE"}, version : Nat, draft : Nat, delta : Nat, owed : BOOLEAN]
  PROVE  /\ [a EXCEPT !.draft = @ + 1, !.delta = @ + 1] \in
               [track : {"NEW_CLIENT", "CONTINUANCE"}, version : Nat, draft : Nat, delta : Nat, owed : BOOLEAN]
         /\ [a EXCEPT !.draft = @ + 1, !.delta = @ + 1].version = a.version
<1> DEFINE b == [a EXCEPT !.draft = a.draft + 1]
           c == [b EXCEPT !.delta = a.delta + 1]
<1>1. [a EXCEPT !.draft = @ + 1, !.delta = @ + 1] = c
  OBVIOUS
<1>2. b \in [track : {"NEW_CLIENT", "CONTINUANCE"}, version : Nat, draft : Nat, delta : Nat, owed : BOOLEAN]
  OBVIOUS
<1>3. b.version = a.version
  OBVIOUS
<1>4. /\ c \in [track : {"NEW_CLIENT", "CONTINUANCE"}, version : Nat, draft : Nat, delta : Nat, owed : BOOLEAN]
      /\ c.version = b.version
  <2> HIDE DEF b
  <2> QED  BY <1>2
<1> HIDE DEF b, c
<1> QED  BY <1>1, <1>3, <1>4

LEMMA KeysStep ==
  ASSUME KeysInv, AcceptanceNext
  PROVE  KeysInv'
<1>0. revision \in 1..MaxProposals /\ acceptances \in [1..MaxProposals -> Nat]
  BY DEF KeysInv, Shapes
<1>1. CASE Dispatched \/ Revise \/ AdvanceSettled
  BY <1>0, <1>1, KeysUntouched, AcceptanceAssumption DEF Dispatched, Revise, AdvanceSettled, risk
<1>2. CASE RecordDelta
  <2> DEFINE a == Touch(assessment)
  <2>1. assessment' = [a EXCEPT !.draft = @ + 1, !.delta = @ + 1]
    BY <1>2 DEF RecordDelta
  <2>2. /\ [a EXCEPT !.draft = @ + 1, !.delta = @ + 1] \in [track : {"NEW_CLIENT", "CONTINUANCE"},
              version : Nat, draft : Nat, delta : Nat, owed : BOOLEAN]
        /\ [a EXCEPT !.draft = @ + 1, !.delta = @ + 1].version = a.version
    BY Touched, WithDelta
  <2> QED  BY <1>2, <2>1, <2>2, Touched, AssessmentMoves DEF RecordDelta
<1>3. CASE Submit
  BY <1>3 DEF Submit, KeysInv, Shapes, DossierCurrent, ClearedAsSubmitted, Submitted
<1>4. CASE Escalate \/ ResolveEscalation
  <2>1. \E e : dossier' = [dossier EXCEPT !.escalations = e]
    BY <1>4 DEF Escalate, ResolveEscalation
  <2>2. /\ dossier' = [number |-> dossier'.number, source |-> dossier'.source, draft |-> dossier'.draft,
                       owners |-> dossier'.owners, issue |-> dossier'.issue, escalations |-> dossier'.escalations]
        /\ dossier'.number = dossier.number /\ dossier'.source = dossier.source
        /\ dossier'.draft = dossier.draft /\ dossier'.owners = dossier.owners
    BY <2>1 DEF KeysInv, Shapes
  <2>3. UNCHANGED <<revision, acceptances, assessment, clearance>>
    BY <1>4 DEF Escalate, ResolveEscalation
  <2> QED  BY <2>2, <2>3 DEF KeysInv, Shapes, DossierCurrent, ClearedAsSubmitted, Submitted
<1>5. CASE AcceptanceRecord \/ AcceptanceRevoke
  <2>1. acceptances' \in [1..MaxProposals -> Nat]
    BY <1>0, <1>5 DEF AcceptanceRecord, AcceptanceRevoke
  <2> QED  BY <1>0, <1>5, <2>1, KeysUntouched DEF AcceptanceRecord, AcceptanceRevoke, risk
<1>6. CASE LetterGenerate
  BY <1>0, <1>6, KeysUntouched DEF LetterGenerate, risk
<1>7. ASSUME NEW issue \in BOOLEAN, SaveDraft(issue)
      PROVE  KeysInv'
  BY <1>7, Touched, AssessmentMoves DEF SaveDraft
<1>8. ASSUME NEW owed \in BOOLEAN, StartContinuance(owed)
      PROVE  KeysInv'
  BY <1>8, AssessmentMoves DEF StartContinuance, Started, KeysInv, Shapes
<1>9. ASSUME NEW o \in Owners, NEW act, NEW here, OwnerSave(o, act, here)
      PROVE  KeysInv'
  <2>1. CASE here /\ Started
    BY <1>9, <2>1, Touched, AssessmentMoves DEF OwnerSave
  <2>2. CASE ~(here /\ Started)
    BY <1>0, <1>9, <2>2, KeysUntouched DEF OwnerSave
  <2> QED  BY <2>1, <2>2
<1>10. ASSUME NEW decision, RiskDecision(decision)
       PROVE  KeysInv'
  <2>1. Submitted /\ Fresh
    BY <1>10 DEF RiskDecision, Decidable
  <2>2. dossier.number \in Nat /\ dossier.draft = assessment.draft /\ dossier.owners = ActiveOwners
    BY <2>1 DEF Fresh, KeysInv, Shapes, DossierCurrent
  <2>3. Facts = [draft |-> dossier.draft, owners |-> dossier.owners, escalations |-> dossier.escalations]
    BY <2>2 DEF Facts
  <2>4. /\ clearance'.dossier = dossier.number /\ clearance'.escalations = dossier.escalations
        /\ clearance'.facts = Facts
    BY <1>10 DEF RiskDecision
  <2>5. UNCHANGED <<revision, acceptances, assessment, dossier>>
    BY <1>10 DEF RiskDecision, risk
  <2>6. Shapes' /\ DossierCurrent'
    BY <2>2, <2>4, <2>5 DEF KeysInv, Shapes, DossierCurrent, Submitted
  <2>7. ClearedAsSubmitted'
    BY <2>1, <2>2, <2>3, <2>4, <2>5 DEF ClearedAsSubmitted, Submitted
  <2> QED  BY <2>6, <2>7 DEF KeysInv
<1>11. ASSUME NEW usable, AssetsChange(usable)
       PROVE  KeysInv'
  BY <1>0, <1>11, KeysUntouched DEF AssetsChange, risk
<1>12. ASSUME NEW n \in DOMAIN letterDrafts, LetterRendered(n) \/ LetterIssue(n)
       PROVE  KeysInv'
  BY <1>0, <1>12, KeysUntouched DEF LetterRendered, LetterIssue, risk
<1> QED
  BY <1>1, <1>2, <1>3, <1>4, <1>5, <1>6, <1>7, <1>8, <1>9, <1>10, <1>11, <1>12 DEF AcceptanceNext

----
(* What turns the engagement to billing and what issues a letter. *)
LEMMA KeysTurn ==
  ASSUME KeysInv, [AcceptanceNext]_acceptanceVars
  PROVE  /\ (stage # "ADVANCE_BILLING" /\ stage' = "ADVANCE_BILLING") => BothKeysHold'
         /\ letters' # letters => BothKeysHold
<1>1. ASSUME stage # "ADVANCE_BILLING", stage' = "ADVANCE_BILLING"
      PROVE  BothKeysHold'
  <2>1. AcceptanceRecord \/ \E decision : RiskDecision(decision)
    BY <1>1 DEF AcceptanceNext, acceptanceVars, risk, paper, Dispatched, Revise, AdvanceSettled, RecordDelta, Submit,
       Escalate, ResolveEscalation, AcceptanceRevoke, LetterGenerate, SaveDraft, StartContinuance,
       OwnerSave, AssetsChange, LetterRendered, LetterIssue
  <2>2. CASE AcceptanceRecord
    <3>1. Cleared /\ ~Accepted /\ acceptances' = [acceptances EXCEPT ![revision] = @ + 1]
      BY <1>1, <2>2 DEF AcceptanceRecord, AdvanceIf
    <3>2. UNCHANGED <<revision, register, assessment, dossier, clearance>>
      BY <2>2 DEF AcceptanceRecord, risk
    <3>3. acceptances[revision] \in Nat /\ acceptances'[revision] = acceptances[revision] + 1
      BY <3>1 DEF KeysInv, Shapes
    <3>4. Accepted'
      BY <3>1, <3>2, <3>3 DEF Accepted
    <3>5. (clearance.decision = "CLEAR" /\ clearance.facts = Facts)'
      BY <3>1, <3>2, ClearedOnFacts DEF Facts, ActiveOwners
    <3> QED  BY <3>4, <3>5 DEF BothKeysHold
  <2>3. ASSUME NEW decision, RiskDecision(decision)
        PROVE  BothKeysHold'
    <3>1. decision = "CLEAR" /\ Accepted
      BY <1>1, <2>3 DEF RiskDecision, AdvanceIf
    <3>2. clearance'.decision = decision /\ clearance'.facts = Facts
      BY <2>3 DEF RiskDecision
    <3>3. UNCHANGED <<revision, acceptances, register, assessment, dossier>>
      BY <2>3 DEF RiskDecision, risk
    <3> QED  BY <3>1, <3>2, <3>3 DEF BothKeysHold, Accepted, Facts, ActiveOwners
  <2> QED  BY <2>1, <2>2, <2>3
<1>2. ASSUME letters' # letters
      PROVE  BothKeysHold
  <2>1. Ready
    BY <1>2 DEF AcceptanceNext, acceptanceVars, risk, paper, Dispatched, Revise, AdvanceSettled, RecordDelta, Submit,
       Escalate, ResolveEscalation, AcceptanceRecord, AcceptanceRevoke, LetterGenerate, SaveDraft, StartContinuance,
       OwnerSave, RiskDecision, AssetsChange, LetterRendered, LetterIssue
  <2> QED  BY <2>1, ClearedOnFacts DEF Ready, BothKeysHold
<1> QED  BY <1>1, <1>2

(* The types of the two keys, with what makes them inductive: nothing was   *)
(* drafted before an assessment began, and of the escalations of a dossier  *)
(* only the last may be open.                                               *)
KeyTypes ==
  /\ stage \in Stages
  /\ assessment.version = 0 => assessment.draft = 0
  /\ dossier.draft \in Nat /\ dossier.draft <= assessment.draft
  /\ dossier.escalations \in Seq({"OPEN", "RESOLVED"})
  /\ \A i \in 1..Len(dossier.escalations) - 1 : dossier.escalations[i] = "RESOLVED"
  /\ clearance.number \in 0..MaxDecisions
  /\ acceptances \in [1..MaxProposals -> 0..MaxDecisions]

LEMMA KeyTypesStart ==
  ASSUME AcceptanceInit, stage \in Stages
  PROVE  KeyTypes
<1>1. /\ dossier.draft = 0 /\ dossier.escalations = <<>>
      /\ assessment.draft = 0 /\ clearance.number = 0
  BY DEF AcceptanceInit
<1>2. acceptances \in [1..MaxProposals -> 0..MaxDecisions]
  BY AcceptanceAssumption DEF AcceptanceInit
<1>3. dossier.escalations \in Seq({"OPEN", "RESOLVED"}) /\ Len(dossier.escalations) = 0
  BY <1>1, EmptySeq
<1> QED  BY <1>1, <1>2, <1>3, AcceptanceAssumption DEF KeyTypes

LEMMA KeyTypesGive ==
  ASSUME KeysInv, KeyTypes
  PROVE  AcceptanceTypeOK
BY DEF KeysInv, Shapes, DossierCurrent, ClearedAsSubmitted, KeyTypes, AcceptanceTypeOK

(* Steps that leave the dossier, its draft and the clearance alone.         *)
LEMMA KeyTypesUntouched ==
  ASSUME KeyTypes, UNCHANGED <<dossier, clearance>>,
         stage' \in Stages, acceptances' \in [1..MaxProposals -> 0..MaxDecisions],
         assessment.draft \in Nat, assessment'.draft \in Nat,
         assessment.draft <= assessment'.draft, assessment'.version # 0 \/ UNCHANGED assessment
  PROVE  KeyTypes'
BY DEF KeyTypes

(* Escalations are opened after the last was resolved.                      *)
LEMMA EscalationsGrow ==
  ASSUME NEW e \in Seq({"OPEN", "RESOLVED"}),
         \A i \in 1..Len(e) - 1 : e[i] = "RESOLVED"
  PROVE  /\ e = <<>> \/ Last(e) # "OPEN" =>
               /\ Append(e, "OPEN") \in Seq({"OPEN", "RESOLVED"})
               /\ \A i \in 1..Len(Append(e, "OPEN")) - 1 : Append(e, "OPEN")[i] = "RESOLVED"
         /\ e # <<>> =>
               /\ Append(Front(e), "RESOLVED") \in Seq({"OPEN", "RESOLVED"})
               /\ \A i \in 1..Len(Append(Front(e), "RESOLVED")) - 1 :
                     Append(Front(e), "RESOLVED")[i] = "RESOLVED"
<1>1. Len(e) \in Nat /\ DOMAIN e = 1..Len(e) /\ \A i \in 1..Len(e) : e[i] \in {"OPEN", "RESOLVED"}
  BY LenProperties, ElementOfSeq
<1>2. ASSUME e = <<>> \/ Last(e) # "OPEN"
      PROVE  /\ Append(e, "OPEN") \in Seq({"OPEN", "RESOLVED"})
             /\ \A i \in 1..Len(Append(e, "OPEN")) - 1 : Append(e, "OPEN")[i] = "RESOLVED"
  <2>1. /\ Append(e, "OPEN") \in Seq({"OPEN", "RESOLVED"})
        /\ Len(Append(e, "OPEN")) = Len(e) + 1
        /\ \A i \in 1..Len(e) : Append(e, "OPEN")[i] = e[i]
    BY AppendProperties
  <2>2. \A i \in 1..Len(e) : e[i] = "RESOLVED"
    <3>1. CASE e = <<>>
      BY <3>1
    <3>2. CASE e # <<>>
      <4>1. Len(e) # 0
        BY <3>2, EmptySeq
      <4>2. e[Len(e)] = "RESOLVED"
        BY <1>1, <1>2, <3>2, <4>1 DEF Last
      <4> QED  BY <1>1, <4>2
    <3> QED  BY <3>1, <3>2
  <2> QED  BY <1>1, <2>1, <2>2
<1>3. ASSUME e # <<>>
      PROVE  /\ Append(Front(e), "RESOLVED") \in Seq({"OPEN", "RESOLVED"})
             /\ \A i \in 1..Len(Append(Front(e), "RESOLVED")) - 1 :
                   Append(Front(e), "RESOLVED")[i] = "RESOLVED"
  <2>1. Len(e) \in Nat \ {0}
    BY <1>1, <1>3, EmptySeq
  <2>2. /\ Front(e) \in Seq({"OPEN", "RESOLVED"})
        /\ Len(Front(e)) = Len(e) - 1
        /\ \A i \in 1..Len(e) - 1 : Front(e)[i] = e[i]
    BY <1>1, <2>1 DEF Front
  <2>3. /\ Append(Front(e), "RESOLVED") \in Seq({"OPEN", "RESOLVED"})
        /\ Len(Append(Front(e), "RESOLVED")) = Len(Front(e)) + 1
        /\ \A i \in 1..Len(Front(e)) : Append(Front(e), "RESOLVED")[i] = Front(e)[i]
    BY <2>2, AppendProperties
  <2> QED  BY <2>1, <2>2, <2>3
<1> QED  BY <1>2, <1>3

LEMMA KeyTypesStep ==
  ASSUME KeysInv, KeyTypes, AcceptanceNext
  PROVE  KeyTypes'
<1>0. /\ stage \in Stages /\ acceptances \in [1..MaxProposals -> 0..MaxDecisions]
      /\ assessment.draft \in Nat /\ assessment.version \in Nat
      /\ dossier.draft \in Nat /\ MaxDecisions \in Nat
  BY AcceptanceAssumption DEF KeysInv, Shapes, KeyTypes
<1>1. CASE Dispatched \/ Revise \/ AdvanceSettled
  BY <1>0, <1>1, KeyTypesUntouched DEF Dispatched, Revise, AdvanceSettled, risk, Stages
<1>2. CASE RecordDelta
  <2> DEFINE a == Touch(assessment)
  <2>1. assessment' = [a EXCEPT !.draft = @ + 1, !.delta = @ + 1] /\ UNCHANGED <<stage, dossier, clearance, acceptances>>
    BY <1>2 DEF RecordDelta
  <2>2. a.version = assessment.version + 1 /\ a.draft = assessment.draft
        /\ a \in [track : {"NEW_CLIENT", "CONTINUANCE"}, version : Nat, draft : Nat, delta : Nat, owed : BOOLEAN]
    BY DEF KeysInv, Shapes, Touch
  <2> HIDE DEF a
  <2>3. assessment'.version = a.version /\ assessment'.draft = a.draft + 1
    BY <2>1, <2>2
  <2> QED  BY <1>0, <2>1, <2>2, <2>3, KeyTypesUntouched
<1>3. CASE Submit
  BY <1>0, <1>3, EmptySeq DEF Submit, KeyTypes
<1>4. CASE Escalate \/ ResolveEscalation
  <2> DEFINE e == dossier.escalations
  <2>1. e \in Seq({"OPEN", "RESOLVED"}) /\ \A i \in 1..Len(e) - 1 : e[i] = "RESOLVED"
    BY DEF KeyTypes
  <2>2. /\ UNCHANGED <<stage, assessment, clearance, acceptances>>
        /\ dossier'.draft = dossier.draft
    BY <1>4 DEF Escalate, ResolveEscalation, KeysInv, Shapes
  <2>3. \/ (e = <<>> \/ Last(e) # "OPEN") /\ dossier'.escalations = Append(e, "OPEN")
        \/ e # <<>> /\ dossier'.escalations = Append(Front(e), "RESOLVED")
    BY <1>4 DEF Escalate, ResolveEscalation, Escalated, KeysInv, Shapes
  <2>4. /\ dossier'.escalations \in Seq({"OPEN", "RESOLVED"})
        /\ \A i \in 1..Len(dossier'.escalations) - 1 : dossier'.escalations[i] = "RESOLVED"
    <3> HIDE DEF e
    <3> QED  BY <2>1, <2>3, EscalationsGrow
  <2> QED  BY <2>2, <2>4 DEF KeyTypes
<1>5. CASE AcceptanceRecord \/ AcceptanceRevoke
  <2>1. acceptances' \in [1..MaxProposals -> 0..MaxDecisions]
    BY <1>0, <1>5 DEF AcceptanceRecord, AcceptanceRevoke, KeysInv, Shapes
  <2>2. stage' \in Stages /\ UNCHANGED <<assessment, dossier, clearance>>
    BY <1>0, <1>5 DEF AcceptanceRecord, AcceptanceRevoke, AdvanceIf, Stages, risk
  <2> QED  BY <1>0, <2>1, <2>2, KeyTypesUntouched
<1>6. CASE LetterGenerate
  BY <1>0, <1>6, KeyTypesUntouched DEF LetterGenerate, risk
<1>7. ASSUME NEW issue \in BOOLEAN, SaveDraft(issue)
      PROVE  KeyTypes'
  <2>1. assessment'.draft = assessment.draft + 1 /\ assessment'.version = assessment.version + 1
    BY <1>7 DEF SaveDraft, Touch, KeysInv, Shapes
  <2> QED  BY <1>0, <1>7, <2>1, KeyTypesUntouched DEF SaveDraft
<1>8. ASSUME NEW owed \in BOOLEAN, StartContinuance(owed)
      PROVE  KeyTypes'
  <2>1. assessment.draft = 0
    BY <1>0, <1>8 DEF StartContinuance, Started, KeyTypes
  <2> QED  BY <1>0, <1>8, <2>1, KeyTypesUntouched DEF StartContinuance
<1>9. ASSUME NEW o \in Owners, NEW act, NEW here, OwnerSave(o, act, here)
      PROVE  KeyTypes'
  <2>1. \/ UNCHANGED assessment
        \/ assessment'.draft = assessment.draft /\ assessment'.version = assessment.version + 1
    BY <1>9 DEF OwnerSave, Touch, KeysInv, Shapes
  <2>2. UNCHANGED <<stage, dossier, clearance, acceptances>>
    BY <1>9 DEF OwnerSave
  <2> QED  BY <1>0, <2>1, <2>2, KeyTypesUntouched
<1>10. ASSUME NEW decision, RiskDecision(decision)
       PROVE  KeyTypes'
  <2>1. /\ clearance'.number = clearance.number + 1 /\ clearance.number < MaxDecisions
        /\ UNCHANGED <<assessment, dossier, acceptances>>
    BY <1>10 DEF RiskDecision, risk
  <2>2. stage' \in Stages
    BY <1>0, <1>10 DEF RiskDecision, AdvanceIf, Stages
  <2> QED  BY <1>0, <2>1, <2>2 DEF KeyTypes
<1>11. ASSUME NEW usable, AssetsChange(usable)
       PROVE  KeyTypes'
  BY <1>0, <1>11, KeyTypesUntouched DEF AssetsChange, risk
<1>12. ASSUME NEW n \in DOMAIN letterDrafts, LetterRendered(n) \/ LetterIssue(n)
       PROVE  KeyTypes'
  BY <1>0, <1>12, KeyTypesUntouched DEF LetterRendered, LetterIssue, risk
<1> QED
  BY <1>1, <1>2, <1>3, <1>4, <1>5, <1>6, <1>7, <1>8, <1>9, <1>10, <1>11, <1>12 DEF AcceptanceNext

(* Whatever changes between the two keys, both hold when the engagement     *)
(* turns to billing and when a letter is issued (businessRisk.ts,           *)
(* businessDelivery.ts).                                                    *)
THEOREM KeysAlwaysTurnTogether == AcceptanceSpec => KeysTurnTogether
<1>1. KeysInv /\ [AcceptanceNext]_acceptanceVars => KeysInv'
  BY KeysStep, KeysStay DEF acceptanceVars, risk
<1>2. KeysInv /\ [AcceptanceNext]_acceptanceVars =>
        [/\ (stage # "ADVANCE_BILLING" /\ stage' = "ADVANCE_BILLING") => BothKeysHold'
         /\ letters' # letters => BothKeysHold]_acceptanceVars
  BY KeysTurn
<1> QED  BY <1>1, <1>2, KeysStart, PTL DEF AcceptanceSpec, KeysTurnTogether

----
(* Largest numbers and histories. *)

(* The largest of some numbers that are bounded is one of them. *)
LEMMA MaxOf ==
  ASSUME NEW n \in Nat, NEW S \in SUBSET (0..n), S # {}
  PROVE  Max(S) \in S /\ \A k \in S : Max(S) >= k
<1> DEFINE T == {n - k : k \in S}
<1>0. ASSUME NEW k \in S PROVE k \in Nat /\ n - k \in Nat
  OBVIOUS
<1>1. T \in SUBSET Nat /\ T # {}
  BY <1>0
<1>2. PICK d \in T : \A e \in T : d <= e
  BY <1>1, LeastOf
<1>3. PICK m \in S : d = n - m
  BY <1>2
<1>4. ASSUME NEW k \in S PROVE m >= k
  <2>1. d <= n - k
    BY <1>2
  <2> QED  BY <1>3, <2>1
<1> QED  BY <1>4 DEF Max

(* An entry added to a history of any kind. *)
LEMMA Appended ==
  ASSUME NEW S, NEW s \in Seq(S), NEW x
  PROVE  LET t == Append(s, x) IN
         /\ t \in Seq(S \cup {x}) /\ (x \in S => t \in Seq(S))
         /\ Len(s) \in Nat /\ Len(t) = Len(s) + 1 /\ t[Len(s) + 1] = x
         /\ DOMAIN s = 1..Len(s) /\ DOMAIN t = 1..(Len(s) + 1)
         /\ \A k \in 1..Len(s) : t[k] = s[k]
<1>1. s \in Seq(S \cup {x}) /\ x \in S \cup {x}
  BY SeqMonotonic
<1>2. x \in S => Append(s, x) \in Seq(S)
  BY AppendProperties
<1> QED  BY <1>1, <1>2, AppendProperties, LenProperties

(* An entry of a history replaced by another. *)
LEMMA Replaced ==
  ASSUME NEW S, NEW s \in Seq(S), NEW k \in DOMAIN s, NEW x \in S
  PROVE  LET t == [s EXCEPT ![k] = x] IN
         /\ t \in Seq(S) /\ Len(t) = Len(s) /\ DOMAIN t = DOMAIN s
         /\ t[k] = x /\ \A j \in DOMAIN s : j # k => t[j] = s[j]
BY ExceptSeq, LenProperties

----
(* The schedule. *)

(* A report milestone is within the cutoff wherever it stands.  Milestones  *)
(* are set one by one, or from defaults, which leave the cutoff alone.      *)
LEMMA CodesApart ==
  /\ "STATUTORY_CUTOFF" \notin Suggested /\ "STATUTORY_CUTOFF" \in Codes
  /\ Reports \subseteq Suggested /\ Suggested \subseteq Codes
BY ScheduleBounds DEF Codes, Reports

LEMMA RowsDated ==
  ASSUME StaffingTypeOK, NEW c \in Codes, milestones[c].version < MaxVersion, NEW d \in 1..LastDate
  PROVE  /\ Dated(milestones[c], d) \in [version : 0..MaxVersion, date : 0..LastDate]
         /\ Dated(milestones[c], d).version > 0 /\ Dated(milestones[c], d).date = d
BY ScheduleBounds DEF StaffingTypeOK, Dated

LEMMA MilestonesKeep ==
  ASSUME StaffingTypeOK, ReportsMeetTheCutoff, MilestoneNext
  PROVE  StaffingTypeOK' /\ ReportsMeetTheCutoff'
<1>1. milestones \in [Codes -> [version : 0..MaxVersion, date : 0..LastDate]]
  BY DEF StaffingTypeOK
<1>2. UNCHANGED <<availability, exceptions, assignments>>
  BY DEF MilestoneNext, MilestoneSet, MilestoneApplyDefaults
<1>3. ASSUME NEW code \in Codes, NEW d \in 1..LastDate, MilestoneSet(code, d)
      PROVE  /\ milestones' \in [Codes -> [version : 0..MaxVersion, date : 0..LastDate]]
             /\ ReportsMeetTheCutoff'
  <2> DEFINE row == Dated(milestones[code], d)
  <2>1. /\ row \in [version : 0..MaxVersion, date : 0..LastDate] /\ row.version > 0 /\ row.date = d
        /\ milestones' = [milestones EXCEPT ![code] = row]
        /\ Within(code, d)
        /\ code = "STATUTORY_CUTOFF" =>
             \A r \in Reports : milestones[r].version > 0 => milestones[r].date <= d
    BY <1>3, RowsDated DEF MilestoneSet
  <2> HIDE DEF row
  <2>2. /\ milestones' \in [Codes -> [version : 0..MaxVersion, date : 0..LastDate]]
        /\ milestones'[code] = row /\ \A c \in Codes \ {code} : milestones'[c] = milestones[c]
    BY <1>1, <2>1
  <2>3. ASSUME NEW r \in Reports, milestones'[r].version > 0
        PROVE  Cutoff'.version > 0 /\ milestones'[r].date <= Cutoff'.date
    <3>1. r \in Codes /\ r # "STATUTORY_CUTOFF"
      BY CodesApart
    <3>2. CASE code = r
      BY <2>1, <2>2, <3>1, <3>2, CodesApart DEF Within, Cutoff
    <3>3. CASE code = "STATUTORY_CUTOFF"
      BY <2>1, <2>2, <2>3, <3>1, <3>3 DEF Cutoff
    <3>4. CASE code # r /\ code # "STATUTORY_CUTOFF"
      BY <2>2, <2>3, <3>1, <3>4, CodesApart DEF ReportsMeetTheCutoff, Cutoff
    <3> QED  BY <3>2, <3>3, <3>4
  <2> QED  BY <2>2, <2>3 DEF ReportsMeetTheCutoff
<1>4. ASSUME NEW dates \in [Suggested -> 1..LastDate], NEW o \in BOOLEAN, MilestoneApplyDefaults(dates, o)
      PROVE  /\ milestones' \in [Codes -> [version : 0..MaxVersion, date : 0..LastDate]]
             /\ ReportsMeetTheCutoff'
  <2> DEFINE applied == {c \in Suggested : (milestones[c].version = 0 \/ o) /\ Within(c, dates[c])}
  <2>1. /\ \A c \in applied : milestones[c].version < MaxVersion
        /\ milestones' = [c \in Codes |-> IF c \in applied THEN Dated(milestones[c], dates[c]) ELSE milestones[c]]
    BY <1>4 DEF MilestoneApplyDefaults
  <2>2. \A c \in applied : /\ c \in Codes /\ dates[c] \in 1..LastDate /\ Within(c, dates[c])
    BY CodesApart
  <2>3. \A c \in applied : /\ Dated(milestones[c], dates[c]) \in [version : 0..MaxVersion, date : 0..LastDate]
                           /\ Dated(milestones[c], dates[c]).date = dates[c]
    BY <2>1, <2>2, RowsDated
  <2>4. "STATUTORY_CUTOFF" \notin applied
    BY CodesApart
  <2> HIDE DEF applied
  <2>5. milestones' \in [Codes -> [version : 0..MaxVersion, date : 0..LastDate]] /\ Cutoff' = Cutoff
    BY <1>1, <2>1, <2>3, <2>4, CodesApart DEF Cutoff
  <2>6. ASSUME NEW r \in Reports, milestones'[r].version > 0
        PROVE  Cutoff'.version > 0 /\ milestones'[r].date <= Cutoff'.date
    <3>1. r \in Codes
      BY CodesApart
    <3>2. CASE r \in applied
      BY <2>1, <2>2, <2>3, <2>5, <3>1, <3>2 DEF Within
    <3>3. CASE r \notin applied
      BY <2>1, <2>5, <2>6, <3>1, <3>3 DEF ReportsMeetTheCutoff
    <3> QED  BY <3>2, <3>3
  <2> QED  BY <2>5, <2>6 DEF ReportsMeetTheCutoff
<1>5. /\ milestones' \in [Codes -> [version : 0..MaxVersion, date : 0..LastDate]]
      /\ ReportsMeetTheCutoff'
  BY <1>3, <1>4 DEF MilestoneNext
<1> QED  BY <1>2, <1>5 DEF StaffingTypeOK

(* The capacity of a day and what it is spent on. *)
LEMMA CapacityKeeps ==
  ASSUME StaffingTypeOK, CapacityNext
  PROVE  StaffingTypeOK' /\ milestones' = milestones
<1> DEFINE Row == [version : 0..MaxVersion, scheduled : 0..DayMinutes, leave : SUBSET Minutes]
           Slot == [staff : Staff, persona : Personas, phase : Phases, minutes : 1..DayMinutes]
<1>1. availability \in [Staff -> Row] /\ exceptions \in [Staff -> 0..DayMinutes] /\ assignments \subseteq Slot
  BY DEF StaffingTypeOK
<1>2. ASSUME NEW s \in Staff, NEW m \in 0..DayMinutes, AvailabilitySet(s, m)
      PROVE  StaffingTypeOK' /\ milestones' = milestones
  <2> DEFINE row == [availability[s] EXCEPT !.version = availability[s].version + 1, !.scheduled = m]
  <2>0. availability[s] \in Row /\ availability[s].version + 1 \in 0..MaxVersion
    BY <1>1, <1>2, ScheduleBounds DEF AvailabilitySet
  <2>1. row \in Row
    BY <2>0
  <2>2. availability' = [availability EXCEPT ![s] = row]
    BY <1>2 DEF AvailabilitySet
  <2> HIDE DEF row
  <2>3. availability' \in [Staff -> Row]
    BY <1>1, <2>1, <2>2
  <2> QED  BY <1>2, <2>3 DEF AvailabilitySet, StaffingTypeOK
<1>3. ASSUME NEW by \in Partners, NEW s \in Staff, NEW i \in Intervals, LeaveRecord(by, s, i)
      PROVE  StaffingTypeOK' /\ milestones' = milestones
  <2> DEFINE row == [availability[s] EXCEPT !.version = availability[s].version + 1, !.leave = availability[s].leave \cup i]
  <2>1. i \subseteq Minutes
    BY ScheduleBounds DEF Intervals, Minutes
  <2>0. /\ availability[s] \in Row /\ availability[s].version + 1 \in 0..MaxVersion
        /\ availability[s].leave \cup i \in SUBSET Minutes
    BY <1>1, <1>3, <2>1, ScheduleBounds DEF LeaveRecord
  <2>2. row \in Row
    BY <2>0
  <2>3. availability' = [availability EXCEPT ![s] = row]
    BY <1>3 DEF LeaveRecord
  <2> HIDE DEF row
  <2>4. availability' \in [Staff -> Row]
    BY <1>1, <2>2, <2>3
  <2> QED  BY <1>3, <2>4 DEF LeaveRecord, StaffingTypeOK
<1>4. ASSUME NEW s \in Staff, NEW m \in 1..DayMinutes, ExceptionApprove(s, m)
      PROVE  StaffingTypeOK' /\ milestones' = milestones
  BY <1>1, <1>4, ScheduleBounds DEF ExceptionApprove, StaffingTypeOK
<1>5. ASSUME NEW s \in Staff, NEW p \in Personas, NEW f \in Phases, NEW m \in 1..DayMinutes, Assign(s, p, f, m)
      PROVE  StaffingTypeOK' /\ milestones' = milestones
  BY <1>1, <1>5 DEF Assign, StaffingTypeOK
<1> QED  BY <1>2, <1>3, <1>4, <1>5 DEF CapacityNext

(* The load of a member of staff is a number, and grows by what is assigned *)
(* to them.                                                                 *)
LEMMA LoadType ==
  ASSUME StaffingTypeOK, IsFiniteSet(assignments), NEW s
  PROVE  Load(s) \in Int
<1> DEFINE of == {b \in assignments : b.staff = s}
           f == [a \in of |-> a.minutes]
<1>1. of \in SUBSET assignments /\ IsFiniteSet(of)
  BY FS_Subset
<1>2. \A a \in of : f[a] \in Int
  BY DEF StaffingTypeOK
<1>3. SumFunctionOnSet(f, of) \in Int
  <2> HIDE DEF of, f
  <2> QED  BY <1>1, <1>2, SumType
<1> QED  BY <1>3 DEF Load, SumFunction

LEMMA LoadGrows ==
  ASSUME StaffingTypeOK, IsFiniteSet(assignments), StaffingTypeOK',
         NEW a, a \notin assignments, assignments' = assignments \cup {a}
  PROVE  /\ Load(a.staff)' = a.minutes + Load(a.staff)
         /\ \A s : s # a.staff => Load(s)' = Load(s)
<1> DEFINE of(s) == {b \in assignments : b.staff = s}
           now(s) == {b \in assignments' : b.staff = s}
           f(s) == [b \in of(s) |-> b.minutes]
           g(s) == [b \in now(s) |-> b.minutes]
<1>1. \A s : Load(s) = SumFunctionOnSet(f(s), of(s)) /\ Load(s)' = SumFunctionOnSet(g(s), now(s))
  BY DEF Load, SumFunction
<1>2. \A s : s # a.staff => now(s) = of(s)
  OBVIOUS
<1>3. now(a.staff) = of(a.staff) \cup {a} /\ a \notin of(a.staff)
  OBVIOUS
<1>4. \A b \in now(a.staff) : g(a.staff)[b] = b.minutes /\ b.minutes \in Int
  BY DEF StaffingTypeOK
<1>5. IsFiniteSet(of(a.staff))
  <2>1. of(a.staff) \in SUBSET assignments
    OBVIOUS
  <2> QED  BY <2>1, FS_Subset
<1>6. \A b \in of(a.staff) : f(a.staff)[b] = g(a.staff)[b]
  BY <1>3
<1>7. SumFunctionOnSet(f(a.staff), of(a.staff)) = SumFunctionOnSet(g(a.staff), of(a.staff))
  <2> HIDE DEF of, f, g
  <2> QED  BY <1>5, <1>6, SumSame
<1>8. SumFunctionOnSet(g(a.staff), now(a.staff)) = a.minutes + SumFunctionOnSet(g(a.staff), of(a.staff))
  <2>1. a \in now(a.staff) /\ g(a.staff)[a] = a.minutes
    BY <1>3, <1>4
  <2> HIDE DEF of, now, g
  <2> QED  BY <1>3, <1>4, <1>5, <2>1, SumAdds
<1> QED  BY <1>1, <1>2, <1>7, <1>8

(* A day holds a number of minutes. *)
LEMMA DayTypes ==
  ASSUME StaffingTypeOK, NEW s \in Staff
  PROVE  /\ Cardinality(availability[s].leave) \in Nat
         /\ availability[s].scheduled \in Nat /\ exceptions[s] \in Nat /\ Capacity(s) \in Nat
         /\ Capacity(s) = availability[s].scheduled + exceptions[s]
<1>1. availability[s].leave \in SUBSET (0..(DayMinutes - 1))
  BY DEF StaffingTypeOK, Minutes
<1>2. IsFiniteSet(0..(DayMinutes - 1))
  BY ScheduleBounds, FS_Interval
<1>3. Cardinality(availability[s].leave) \in Nat
  BY <1>1, <1>2, FS_Subset, FS_CardinalityType
<1> QED  BY <1>3, ScheduleBounds DEF StaffingTypeOK, Capacity
(* No command overloads a day but one that records leave. *)
NotOverloading ==
  \A s \in Staff : Overloaded(s)' /\ ~Overloaded(s) =>
    availability'[s].leave # availability[s].leave

LEMMA CapacityIsKept ==
  ASSUME StaffingTypeOK, IsFiniteSet(assignments), StaffingTypeOK', CapacityNext
  PROVE  NotOverloading /\ IsFiniteSet(assignments')
<1>1. ASSUME NEW t \in Staff, NEW m \in 0..DayMinutes, AvailabilitySet(t, m)
      PROVE  NotOverloading /\ IsFiniteSet(assignments')
  <2>1. /\ assignments' = assignments /\ exceptions' = exceptions
        /\ Load(t) + Cardinality(availability[t].leave) <= m + exceptions[t]
    BY <1>1 DEF AvailabilitySet
  <2>2. /\ availability'[t].scheduled = m /\ availability'[t].leave = availability[t].leave
        /\ \A s \in Staff \ {t} : availability'[s] = availability[s]
    BY <1>1 DEF AvailabilitySet, StaffingTypeOK
  <2>3. \A s : Load(s)' = Load(s)
    BY <2>1 DEF Load
  <2>4. ~Overloaded(t)'
    BY <2>1, <2>2, <2>3, LoadType, DayTypes DEF Overloaded, Capacity
  <2>5. \A s \in Staff \ {t} : Overloaded(s)' = Overloaded(s)
    BY <2>1, <2>2, <2>3 DEF Overloaded, Capacity
  <2> QED  BY <2>1, <2>4, <2>5 DEF NotOverloading
<1>2. ASSUME NEW by \in Partners, NEW t \in Staff, NEW i \in Intervals, LeaveRecord(by, t, i)
      PROVE  NotOverloading /\ IsFiniteSet(assignments')
  <2>1. /\ assignments' = assignments /\ exceptions' = exceptions
        /\ i \cap availability[t].leave = {} /\ i # {}
        /\ availability'[t].leave = availability[t].leave \cup i
        /\ \A s \in Staff \ {t} : availability'[s] = availability[s]
    BY <1>2 DEF LeaveRecord, StaffingTypeOK, Intervals
  <2>2. availability'[t].leave # availability[t].leave
    BY <2>1
  <2>3. \A s \in Staff \ {t} : Overloaded(s)' = Overloaded(s)
    BY <2>1 DEF Overloaded, Capacity, Load
  <2> QED  BY <2>1, <2>2, <2>3 DEF NotOverloading
<1>3. ASSUME NEW t \in Staff, NEW m \in 1..DayMinutes, ExceptionApprove(t, m)
      PROVE  NotOverloading /\ IsFiniteSet(assignments')
  <2>1. /\ assignments' = assignments /\ availability' = availability
        /\ exceptions'[t] = exceptions[t] + m /\ m \in Nat
        /\ \A s \in Staff \ {t} : exceptions'[s] = exceptions[s]
    BY <1>3, ScheduleBounds DEF ExceptionApprove, StaffingTypeOK
  <2>2. \A s : Load(s)' = Load(s)
    BY <2>1 DEF Load
  <2>3. Overloaded(t)' => Overloaded(t)
    BY <2>1, <2>2, LoadType, DayTypes DEF Overloaded, Capacity
  <2>4. \A s \in Staff \ {t} : Overloaded(s)' = Overloaded(s)
    BY <2>1, <2>2 DEF Overloaded, Capacity
  <2> QED  BY <2>1, <2>3, <2>4 DEF NotOverloading
<1>4. ASSUME NEW t \in Staff, NEW p \in Personas, NEW f \in Phases, NEW m \in 1..DayMinutes, Assign(t, p, f, m)
      PROVE  NotOverloading /\ IsFiniteSet(assignments')
  <2> DEFINE a == [staff |-> t, persona |-> p, phase |-> f, minutes |-> m]
  <2>1. /\ a \notin assignments /\ assignments' = assignments \cup {a}
        /\ a.staff = t /\ a.minutes = m
        /\ availability' = availability /\ exceptions' = exceptions
        /\ m + Load(t) + Cardinality(availability[t].leave) <= Capacity(t)
    BY <1>4 DEF Assign
  <2> HIDE DEF a
  <2>2. Load(t)' = m + Load(t) /\ \A s : s # t => Load(s)' = Load(s)
    BY <2>1, LoadGrows
  <2>3. ~Overloaded(t)'
    BY <2>1, <2>2, LoadType, DayTypes, ScheduleBounds DEF Overloaded, Capacity
  <2>4. \A s \in Staff \ {t} : Overloaded(s)' = Overloaded(s)
    BY <2>1, <2>2 DEF Overloaded, Capacity
  <2> QED  BY <2>1, <2>3, <2>4, FS_AddElement DEF NotOverloading
<1> QED  BY <1>1, <1>2, <1>3, <1>4 DEF CapacityNext

(* Steps that leave the schedule of the days alone. *)
LEMMA CapacityUntouched ==
  ASSUME UNCHANGED <<availability, exceptions, assignments>>
  PROVE  NotOverloading
BY DEF NotOverloading, Overloaded, Capacity, Load

----
(* What every reachable state of the planning satisfies. *)

Import == [rows : Accounts, nonzero : SUBSET Accounts, valid : BOOLEAN, staged : SUBSET Accounts,
           status : {"STAGED", "VALIDATING", "READY", "INVALID", "ACTIVATED"}]
Progress == [import : 0..MaxImports, written : 0..Rows]
TrialBalance == [accounts : SUBSET Accounts, nonzero : SUBSET Accounts]
MappingDraft(balances) == [tb : 1..balances, mapped : SUBSET Accounts, approved : BOOLEAN]
Mapping(balances) == [tb : 1..balances, mapped : SUBSET Accounts]
Materiality(balances, versions) == [tb : 1..balances, mapping : 1..versions, low : BOOLEAN]
Risk(versions) == [fsli : Accounts, materiality : 1..versions, high : BOOLEAN, band : {"GREEN", "RED"}]
Pins == [tb : 0..Len(tbs), mapping : 0..Len(mappings),
         materiality : 0..Len(materialities), plan : 0..Len(plans)]

(* An import has staged, and found nonzero, rows of its file only; who      *)
(* imports is at an import there is.                                        *)
ImportsHold ==
  /\ imports \in Seq(Import) /\ Len(imports) <= MaxImports
  /\ importer \in [Importers -> Progress]
  /\ \A i \in DOMAIN imports : /\ imports[i].nonzero \subseteq 1..imports[i].rows
                               /\ imports[i].staged \subseteq 1..imports[i].rows
  /\ \A w \in Importers : /\ importer[w].import <= Len(imports)
                          /\ importer[w].import = None => importer[w] = Idle

SourcesHold ==
  /\ tbs \in Seq(TrialBalance)
  /\ mappingDrafts \in Seq(MappingDraft(Len(tbs)))
  /\ mappings \in Seq(Mapping(Len(tbs)))
  /\ materialities \in Seq(Materiality(Len(tbs), Len(mappings)))
  /\ risks \in Seq(Risk(Len(materialities)))
  /\ plans \in Seq(Range(plans))
  /\ active \in Pins

RequestsHold == pbc \in Seq({"PENDING_UPLOAD", "UNDER_REVIEW", "APPROVED",
                             "REJECTED_REUPLOAD_REQUIRED"})

PlanInv ==
  /\ StaffingTypeOK /\ ReportsMeetTheCutoff
  /\ stage \in Stages
  /\ ImportsHold /\ SourcesHold /\ RequestsHold
  /\ FieldworkRestsOnThePlan

(* The invariant implies the types. *)
LEMMA PlanTypes ==
  ASSUME PlanInv PROVE PlanningTypeOK
<1>1. /\ DOMAIN tbs = 1..Len(tbs) /\ DOMAIN mappings = 1..Len(mappings)
      /\ DOMAIN materialities = 1..Len(materialities)
  BY LenProperties DEF PlanInv, SourcesHold
<1>2. stage \in Stages
  BY DEF PlanInv, Stages
<1>3. /\ mappingDrafts \in Seq([tb : DOMAIN tbs, mapped : SUBSET Accounts, approved : BOOLEAN])
      /\ mappings \in Seq([tb : DOMAIN tbs, mapped : SUBSET Accounts])
      /\ materialities \in Seq([tb : DOMAIN tbs, mapping : DOMAIN mappings, low : BOOLEAN])
      /\ risks \in Seq([fsli : Accounts, materiality : DOMAIN materialities,
                        high : BOOLEAN, band : {"GREEN", "RED"}])
  BY <1>1 DEF PlanInv, SourcesHold, MappingDraft, Mapping, Materiality, Risk
<1>4. /\ active.tb \in 0..Len(tbs) /\ active.mapping \in 0..Len(mappings)
      /\ active.materiality \in 0..Len(materialities) /\ active.plan \in 0..Len(plans)
  BY DEF PlanInv, SourcesHold, Pins
<1> QED
  BY <1>2, <1>3, <1>4 DEF PlanInv, ImportsHold, SourcesHold, RequestsHold, PlanningTypeOK,
     Import, Progress, TrialBalance

(* The rows of an import, a version and the histories grow.                 *)
LEMMA Histories ==
  ASSUME SourcesHold
  PROVE  /\ Len(tbs) \in Nat /\ DOMAIN tbs = 1..Len(tbs)
         /\ Len(mappingDrafts) \in Nat /\ DOMAIN mappingDrafts = 1..Len(mappingDrafts)
         /\ Len(mappings) \in Nat /\ DOMAIN mappings = 1..Len(mappings)
         /\ Len(materialities) \in Nat /\ DOMAIN materialities = 1..Len(materialities)
         /\ Len(risks) \in Nat /\ DOMAIN risks = 1..Len(risks)
         /\ Len(plans) \in Nat /\ DOMAIN plans = 1..Len(plans)
         /\ \A k \in DOMAIN tbs : tbs[k] \in TrialBalance
         /\ \A k \in DOMAIN mappingDrafts : mappingDrafts[k] \in MappingDraft(Len(tbs))
         /\ \A k \in DOMAIN mappings : mappings[k] \in Mapping(Len(tbs))
         /\ \A k \in DOMAIN materialities : materialities[k] \in Materiality(Len(tbs), Len(mappings))
         /\ \A k \in DOMAIN risks : risks[k] \in Risk(Len(materialities))
         /\ active.tb \in 0..Len(tbs) /\ active.mapping \in 0..Len(mappings)
         /\ active.materiality \in 0..Len(materialities) /\ active.plan \in 0..Len(plans)
BY LenProperties, ElementOfSeq DEF SourcesHold, Pins

LEMMA TbsGrow ==
  ASSUME NEW n \in Nat
  PROVE  /\ Seq(MappingDraft(n)) \subseteq Seq(MappingDraft(n + 1))
         /\ Seq(Mapping(n)) \subseteq Seq(Mapping(n + 1))
         /\ \A v \in Nat : Seq(Materiality(n, v)) \subseteq Seq(Materiality(n + 1, v))
<1>1. /\ MappingDraft(n) \subseteq MappingDraft(n + 1) /\ Mapping(n) \subseteq Mapping(n + 1)
      /\ \A v \in Nat : Materiality(n, v) \subseteq Materiality(n + 1, v)
  BY DEF MappingDraft, Mapping, Materiality
<1> QED  BY <1>1, SeqMonotonic

LEMMA VersionsGrow ==
  ASSUME NEW n \in Nat
  PROVE  /\ \A b \in Nat : Seq(Materiality(b, n)) \subseteq Seq(Materiality(b, n + 1))
         /\ Seq(Risk(n)) \subseteq Seq(Risk(n + 1))
<1>1. /\ \A b \in Nat : Materiality(b, n) \subseteq Materiality(b, n + 1)
      /\ Risk(n) \subseteq Risk(n + 1)
  BY DEF Materiality, Risk
<1> QED  BY <1>1, SeqMonotonic
----
(* The import of a trial balance. *)

(* A file is imported, or an import replaced by one whose rows are as many  *)
(* and whose staged lines are of the file.                                  *)
LEMMA FileImported ==
  ASSUME ImportsHold, NEW rows \in Accounts, NEW nonzero \in SUBSET (1..rows), NEW valid \in BOOLEAN,
         TbImport(rows, nonzero, valid)
  PROVE  ImportsHold' /\ UNCHANGED sourceVars
<1> DEFINE new == [rows |-> rows, nonzero |-> nonzero, valid |-> valid, staged |-> {}, status |-> "STAGED"]
<1>1. /\ imports' = Append(imports, new) /\ Len(imports) < MaxImports
      /\ importer' = importer /\ UNCHANGED sourceVars
  BY DEF TbImport
<1>2. new \in Import /\ new.nonzero \subseteq 1..new.rows /\ new.staged \subseteq 1..new.rows
  <2>1. rows \in Accounts /\ nonzero \in SUBSET Accounts
    BY PlanningBounds DEF Accounts
  <2>2. "STAGED" \in {"STAGED", "VALIDATING", "READY", "INVALID", "ACTIVATED"}
    OBVIOUS
  <2> QED  BY <2>1, <2>2 DEF Import
<1> HIDE DEF new
<1>3. /\ imports' \in Seq(Import) /\ Len(imports') = Len(imports) + 1 /\ Len(imports) \in Nat
      /\ DOMAIN imports = 1..Len(imports) /\ DOMAIN imports' = 1..(Len(imports) + 1)
      /\ imports'[Len(imports) + 1] = new /\ \A k \in 1..Len(imports) : imports'[k] = imports[k]
  BY <1>1, <1>2, Appended DEF ImportsHold
<1>4. \A i \in DOMAIN imports' : imports'[i].nonzero \subseteq 1..imports'[i].rows
                              /\ imports'[i].staged \subseteq 1..imports'[i].rows
  BY <1>2, <1>3 DEF ImportsHold
<1>5. \A w \in Importers : importer[w].import \in Nat
  BY PlanningBounds DEF ImportsHold, Progress
<1> QED  BY <1>1, <1>3, <1>4, <1>5, PlanningBounds DEF ImportsHold

LEMMA ImportReplaced ==
  ASSUME ImportsHold, NEW i \in DOMAIN imports, NEW new \in Import,
         new.nonzero \subseteq 1..new.rows, new.staged \subseteq 1..new.rows,
         imports' = [imports EXCEPT ![i] = new]
  PROVE  /\ imports' \in Seq(Import) /\ Len(imports') = Len(imports) /\ Len(imports') <= MaxImports
         /\ \A j \in DOMAIN imports' : /\ imports'[j].nonzero \subseteq 1..imports'[j].rows
                                       /\ imports'[j].staged \subseteq 1..imports'[j].rows
<1>1. /\ imports' \in Seq(Import) /\ Len(imports') = Len(imports) /\ DOMAIN imports' = DOMAIN imports
      /\ imports'[i] = new /\ \A j \in DOMAIN imports : j # i => imports'[j] = imports[j]
  BY Replaced DEF ImportsHold
<1> QED  BY <1>1 DEF ImportsHold

(* Who imports is at an import there is, or at none. *)
LEMMA AtImport ==
  ASSUME ImportsHold, NEW w \in Importers, importer[w] # Idle
  PROVE  /\ importer[w].import \in DOMAIN imports /\ importer[w].written \in 0..Rows
         /\ imports[importer[w].import] \in Import
<1>1. /\ importer[w].import \in Nat /\ importer[w].import <= Len(imports) /\ importer[w].import # 0
      /\ importer[w].written \in 0..Rows
  BY PlanningBounds DEF ImportsHold, Progress, None
<1>2. Len(imports) \in Nat /\ DOMAIN imports = 1..Len(imports)
  BY LenProperties DEF ImportsHold
<1> QED  BY <1>1, <1>2, ElementOfSeq DEF ImportsHold

LEMMA ImporterMoves ==
  ASSUME ImportsHold, NEW w \in Importers, NEW n \in 0..Len(imports), NEW k \in 0..Rows,
         n = None => k = 0,
         importer' = [importer EXCEPT ![w] = [import |-> n, written |-> k]]
  PROVE  /\ importer' \in [Importers -> Progress]
         /\ \A v \in Importers : importer'[v].import <= Len(imports)
                              /\ (importer'[v].import = None => importer'[v] = Idle)
<1> DEFINE new == [import |-> n, written |-> k]
<1>1. Len(imports) \in Nat
  BY LenProperties DEF ImportsHold
<1>2. new \in Progress /\ new.import <= Len(imports) /\ (new.import = None => new = Idle)
  BY <1>1, PlanningBounds DEF ImportsHold, Progress, Idle, None
<1> HIDE DEF new
<1> QED  BY <1>2 DEF ImportsHold, new

LEMMA IdleAgain ==
  ASSUME ImportsHold, NEW w \in Importers, importer' = [importer EXCEPT ![w] = Idle]
  PROVE  /\ importer' \in [Importers -> Progress]
         /\ \A v \in Importers : importer'[v].import <= Len(imports)
                              /\ (importer'[v].import = None => importer'[v] = Idle)
<1>1. 0 \in 0..Len(imports) /\ 0 \in 0..Rows
  BY LenProperties, PlanningBounds DEF ImportsHold
<1> QED  BY <1>1, ImporterMoves DEF Idle, None

LEMMA ImportsKeep ==
  ASSUME ImportsHold, ImportNext
  PROVE  ImportsHold' /\ UNCHANGED sourceVars
<1>1. ASSUME NEW n \in Accounts, NEW v \in BOOLEAN, NEW z \in SUBSET (1..n), TbImport(n, z, v)
      PROVE  ImportsHold' /\ UNCHANGED sourceVars
  BY <1>1, FileImported
<1>2. ASSUME NEW w \in Importers, NEW i \in DOMAIN imports, ImportClaim(w, i)
      PROVE  ImportsHold' /\ UNCHANGED sourceVars
  <2>1. i \in 0..Len(imports) /\ i # None /\ 0 \in 0..Rows
    BY LenProperties, PlanningBounds DEF ImportsHold, None
  <2>2. importer' = [importer EXCEPT ![w] = [import |-> i, written |-> 0]]
    BY <1>2 DEF ImportClaim
  <2>3. /\ importer' \in [Importers -> Progress]
        /\ \A v \in Importers : importer'[v].import <= Len(imports)
                             /\ (importer'[v].import = None => importer'[v] = Idle)
    BY <2>1, <2>2, ImporterMoves
  <2> QED  BY <1>2, <2>3 DEF ImportClaim, ImportsHold
<1>3. ASSUME NEW w \in Importers, ImportChunk(w)
      PROVE  ImportsHold' /\ UNCHANGED sourceVars
  <2> DEFINE i == importer[w].import
             row == importer[w].written + 1
             status == IF Unfinished(i) THEN "VALIDATING" ELSE imports[i].status
             new == [imports[i] EXCEPT !.staged = imports[i].staged \cup {row}, !.status = status]
  <2>1. /\ importer[w] # Idle /\ row <= imports[i].rows
        /\ importer' = [importer EXCEPT ![w].written = row]
        /\ imports' = [imports EXCEPT ![i] = new]
        /\ UNCHANGED sourceVars
    BY <1>3 DEF ImportChunk
  <2>2. i \in DOMAIN imports /\ importer[w].written \in 0..Rows /\ imports[i] \in Import
    BY <2>1, AtImport
  <2>3. imports[i].rows \in Accounts /\ row \in 1..imports[i].rows /\ row \in 1..Rows
    BY <2>1, <2>2, PlanningBounds DEF Import, Accounts
  <2>4. /\ imports[i].nonzero \subseteq 1..imports[i].rows
        /\ imports[i].staged \cup {row} \subseteq 1..imports[i].rows
        /\ imports[i].staged \cup {row} \in SUBSET Accounts
    BY <2>2, <2>3 DEF ImportsHold, Import, Accounts
  <2>5. status \in {"STAGED", "VALIDATING", "READY", "INVALID", "ACTIVATED"}
    BY <2>2 DEF Import
  <2>6. new \in Import /\ new.nonzero = imports[i].nonzero /\ new.rows = imports[i].rows
        /\ new.staged = imports[i].staged \cup {row}
    <3> HIDE DEF status, row
    <3> QED  BY <2>2, <2>4, <2>5 DEF Import
  <2> HIDE DEF new
  <2>7. /\ imports' \in Seq(Import) /\ Len(imports') = Len(imports) /\ Len(imports') <= MaxImports
        /\ \A j \in DOMAIN imports' : imports'[j].nonzero \subseteq 1..imports'[j].rows
                                   /\ imports'[j].staged \subseteq 1..imports'[j].rows
    BY <2>1, <2>2, <2>4, <2>6, ImportReplaced
  <2>8. /\ i \in 0..Len(imports) /\ i # None /\ row \in 0..Rows
        /\ importer' = [importer EXCEPT ![w] = [import |-> i, written |-> row]]
    <3>1. i \in 1..Len(imports) /\ Len(imports) \in Nat
      BY <2>2, LenProperties DEF ImportsHold
    <3>2. importer[w] \in Progress /\ importer \in [Importers -> Progress]
      BY DEF ImportsHold
    <3>3. [importer[w] EXCEPT !.written = row] = [import |-> i, written |-> row]
      BY <3>2 DEF Progress
    <3>4. importer' = [importer EXCEPT ![w] = [importer[w] EXCEPT !.written = row]]
      BY <2>1, <3>2
    <3>5. i # None /\ i \in 0..Len(imports) /\ row \in 0..Rows
      BY <2>3, <3>1, PlanningBounds DEF None
    <3> QED  BY <3>3, <3>4, <3>5
  <2>9. /\ importer' \in [Importers -> Progress]
        /\ \A v \in Importers : importer'[v].import <= Len(imports)
                             /\ (importer'[v].import = None => importer'[v] = Idle)
    <3> HIDE DEF i, row
    <3> QED  BY <2>8, ImporterMoves
  <2> QED  BY <2>1, <2>7, <2>9 DEF ImportsHold
<1>4. ASSUME NEW w \in Importers, ImportFinish(w)
      PROVE  ImportsHold' /\ UNCHANGED sourceVars
  <2> DEFINE i == importer[w].import
             status == IF imports[i].valid THEN "READY" ELSE "INVALID"
             new == [imports[i] EXCEPT !.status = status]
  <2>1. /\ importer[w] # Idle /\ importer' = [importer EXCEPT ![w] = Idle]
        /\ imports' = imports \/ imports' = [imports EXCEPT ![i] = new]
        /\ UNCHANGED sourceVars
    BY <1>4 DEF ImportFinish
  <2>2. i \in DOMAIN imports /\ imports[i] \in Import
    BY <2>1, AtImport
  <2>3. status \in {"STAGED", "VALIDATING", "READY", "INVALID", "ACTIVATED"}
    OBVIOUS
  <2>4. /\ new \in Import /\ new.nonzero = imports[i].nonzero /\ new.rows = imports[i].rows
        /\ new.staged = imports[i].staged
    <3> HIDE DEF status
    <3> QED  BY <2>2, <2>3 DEF Import
  <2>5. new.nonzero \subseteq 1..new.rows /\ new.staged \subseteq 1..new.rows
    BY <2>2, <2>4 DEF ImportsHold
  <2> HIDE DEF new
  <2>6. /\ imports' \in Seq(Import) /\ Len(imports') = Len(imports) /\ Len(imports') <= MaxImports
        /\ \A j \in DOMAIN imports' : imports'[j].nonzero \subseteq 1..imports'[j].rows
                                   /\ imports'[j].staged \subseteq 1..imports'[j].rows
    <3>1. CASE imports' = imports
      BY <3>1 DEF ImportsHold
    <3>2. CASE imports' = [imports EXCEPT ![i] = new]
      BY <2>2, <2>4, <2>5, <3>2, ImportReplaced
    <3> QED  BY <2>1, <3>1, <3>2
  <2>7. /\ importer' \in [Importers -> Progress]
        /\ \A v \in Importers : importer'[v].import <= Len(imports)
                             /\ (importer'[v].import = None => importer'[v] = Idle)
    BY <2>1, IdleAgain
  <2> QED  BY <2>1, <2>6, <2>7 DEF ImportsHold
<1>5. ASSUME NEW w \in Importers, ImportCrash(w)
      PROVE  ImportsHold' /\ UNCHANGED sourceVars
  <2>1. importer' = [importer EXCEPT ![w] = Idle] /\ imports' = imports /\ UNCHANGED sourceVars
    BY <1>5 DEF ImportCrash
  <2>2. /\ importer' \in [Importers -> Progress]
        /\ \A v \in Importers : importer'[v].import <= Len(imports)
                             /\ (importer'[v].import = None => importer'[v] = Idle)
    BY <2>1, IdleAgain
  <2> QED  BY <2>1, <2>2 DEF ImportsHold
<1> QED  BY <1>1, <1>2, <1>3, <1>4, <1>5 DEF ImportNext

----
(* The sources of the plan. *)

(* The latest risks of an FSLI are of it. *)
LEMMA LatestOf ==
  ASSUME SourcesHold, NEW f
  PROVE  \A n \in Latest(f) : n \in DOMAIN risks /\ risks[n].fsli = f
<1> DEFINE of == {n \in DOMAIN risks : risks[n].fsli = f}
<1>1. Len(risks) \in Nat /\ of \in SUBSET (0..Len(risks))
  BY Histories
<1>2. Latest(f) = IF of = {} THEN {} ELSE {Max(of)}
  BY DEF Latest
<1>3. of # {} => Max(of) \in of
  BY <1>1, MaxOf
<1> QED  BY <1>2, <1>3

(* An import whose staged lines are as many as its rows staged them all. *)
LEMMA AllRowsStaged ==
  ASSUME ImportsHold, NEW i \in DOMAIN imports, Cardinality(imports[i].staged) = imports[i].rows
  PROVE  imports[i].nonzero \subseteq imports[i].staged
<1>1. imports[i] \in Import
  BY LenProperties, ElementOfSeq DEF ImportsHold
<1>2. imports[i].rows \in Nat /\ imports[i].rows >= 1
  BY <1>1, PlanningBounds DEF Import, Accounts
<1>3. IsFiniteSet(1..imports[i].rows) /\ Cardinality(1..imports[i].rows) = imports[i].rows
  BY <1>2, FS_Interval
<1>4. imports[i].staged \in SUBSET (1..imports[i].rows)
  BY DEF ImportsHold
<1>5. 1..imports[i].rows = imports[i].staged
  BY <1>3, <1>4, FS_Subset
<1> QED  BY <1>5 DEF ImportsHold

LEMMA TbActivates ==
  ASSUME ImportsHold, SourcesHold, PinsFormAChain, NEW i \in DOMAIN imports, TbActivate(i)
  PROVE  ImportsHold' /\ SourcesHold' /\ PinsFormAChain'
<1> DEFINE new == [accounts |-> imports[i].staged, nonzero |-> imports[i].nonzero]
           done == [imports[i] EXCEPT !.status = "ACTIVATED"]
<1>1. /\ tbs' = Append(tbs, new)
      /\ active' = [tb |-> Len(tbs) + 1, mapping |-> 0, materiality |-> 0, plan |-> 0]
      /\ imports' = [imports EXCEPT ![i] = done]
      /\ Cardinality(imports[i].staged) = imports[i].rows
      /\ UNCHANGED <<importer, mappingDrafts, mappings, materialities, risks, plans>>
  BY DEF TbActivate, None
<1>2. imports[i] \in Import
  BY LenProperties, ElementOfSeq DEF ImportsHold
<1>3. new \in TrialBalance /\ new.nonzero \subseteq new.accounts
  BY <1>1, <1>2, AllRowsStaged DEF TrialBalance, Import
<1>4. /\ done \in Import /\ done.rows = imports[i].rows
      /\ done.nonzero = imports[i].nonzero /\ done.staged = imports[i].staged
  <2>1. "ACTIVATED" \in {"STAGED", "VALIDATING", "READY", "INVALID", "ACTIVATED"}
    OBVIOUS
  <2> QED  BY <1>2, <2>1 DEF Import
<1>5. done.nonzero \subseteq 1..done.rows /\ done.staged \subseteq 1..done.rows
  BY <1>4 DEF ImportsHold
<1> HIDE DEF new, done
<1>6. ImportsHold'
  <2>1. /\ imports' \in Seq(Import) /\ Len(imports') = Len(imports) /\ Len(imports') <= MaxImports
        /\ \A j \in DOMAIN imports' : imports'[j].nonzero \subseteq 1..imports'[j].rows
                                   /\ imports'[j].staged \subseteq 1..imports'[j].rows
    BY <1>1, <1>4, <1>5, ImportReplaced
  <2> QED  BY <1>1, <2>1 DEF ImportsHold
<1>7. /\ tbs' \in Seq(TrialBalance) /\ Len(tbs') = Len(tbs) + 1 /\ Len(tbs) \in Nat
      /\ tbs'[Len(tbs) + 1] = new /\ \A k \in 1..Len(tbs) : tbs'[k] = tbs[k]
  BY <1>1, <1>3, Appended DEF SourcesHold
<1>8. SourcesHold'
  <2>1. /\ mappingDrafts' \in Seq(MappingDraft(Len(tbs'))) /\ mappings' \in Seq(Mapping(Len(tbs')))
        /\ materialities' \in Seq(Materiality(Len(tbs'), Len(mappings')))
    BY <1>1, <1>7, TbsGrow, Histories DEF SourcesHold
  <2>2. active' \in Pins'
    BY <1>1, <1>7, Histories DEF Pins
  <2> QED  BY <1>1, <1>7, <2>1, <2>2 DEF SourcesHold
<1>9. PinsFormAChain'
  BY <1>1, <1>3, <1>7 DEF PinsFormAChain, None
<1> QED  BY <1>6, <1>8, <1>9

(* Drafts of the mapping do not touch the pins. *)
LEMMA MappingDrafted ==
  ASSUME SourcesHold, PinsFormAChain,
         MappingPropose \/ (\E d \in DOMAIN mappingDrafts, a \in Accounts : MappingSet(d, a))
  PROVE  SourcesHold' /\ PinsFormAChain' /\ UNCHANGED importVars
<1>1. UNCHANGED <<importVars, tbs, mappings, materialities, risks, plans, active>>
  BY DEF MappingPropose, MappingSet
<1>2. mappingDrafts' \in Seq(MappingDraft(Len(tbs)))
  <2>1. CASE MappingPropose
    <3> DEFINE new == [tb |-> active.tb, mapped |-> {}, approved |-> FALSE]
    <3>1. active.tb \in 1..Len(tbs)
      BY <2>1, Histories DEF MappingPropose, None
    <3>2. new \in MappingDraft(Len(tbs)) /\ mappingDrafts' = Append(mappingDrafts, new)
      BY <2>1, <3>1 DEF MappingPropose, MappingDraft
    <3> HIDE DEF new
    <3> QED  BY <3>2, Appended DEF SourcesHold
  <2>2. ASSUME NEW d \in DOMAIN mappingDrafts, NEW a \in Accounts, MappingSet(d, a)
        PROVE  mappingDrafts' \in Seq(MappingDraft(Len(tbs)))
    <3>1. mappingDrafts[d] \in MappingDraft(Len(tbs))
      BY Histories
    <3>2. PICK m \in {mappingDrafts[d].mapped \cup {a}, mappingDrafts[d].mapped \ {a}} :
                mappingDrafts' = [mappingDrafts EXCEPT ![d].mapped = m]
      BY <2>2 DEF MappingSet
    <3>3. m \in SUBSET Accounts
      BY <3>1 DEF MappingDraft
    <3> DEFINE new == [mappingDrafts[d] EXCEPT !.mapped = m]
    <3>4. new \in MappingDraft(Len(tbs)) /\ mappingDrafts' = [mappingDrafts EXCEPT ![d] = new]
      BY <3>1, <3>2, <3>3 DEF MappingDraft
    <3> HIDE DEF new
    <3> QED  BY <3>4, Replaced DEF SourcesHold
  <2> QED  BY <2>1, <2>2
<1>3. SourcesHold'
  BY <1>1, <1>2 DEF SourcesHold, Pins
<1>4. PinsFormAChain'
  BY <1>1 DEF PinsFormAChain
<1> QED  BY <1>1, <1>3, <1>4

LEMMA MappingApproved ==
  ASSUME SourcesHold, PinsFormAChain, NEW d \in DOMAIN mappingDrafts, MappingApprove(d)
  PROVE  SourcesHold' /\ PinsFormAChain' /\ UNCHANGED importVars
<1> DEFINE new == [tb |-> active.tb, mapped |-> mappingDrafts[d].mapped]
           done == [mappingDrafts[d] EXCEPT !.approved = TRUE]
<1>1. /\ mappingDrafts[d].tb = active.tb /\ tbs[active.tb].nonzero \subseteq mappingDrafts[d].mapped
      /\ mappings' = Append(mappings, new)
      /\ mappingDrafts' = [mappingDrafts EXCEPT ![d] = done]
      /\ active' = [active EXCEPT !.mapping = Len(mappings) + 1, !.materiality = 0, !.plan = 0]
      /\ UNCHANGED <<importVars, tbs, materialities, risks, plans>>
  BY DEF MappingApprove, None
<1>2. mappingDrafts[d] \in MappingDraft(Len(tbs))
  BY Histories
<1>3. active.tb \in 1..Len(tbs) /\ new \in Mapping(Len(tbs)) /\ done \in MappingDraft(Len(tbs))
  BY <1>1, <1>2 DEF MappingDraft, Mapping
<1>4. new.tb = active.tb /\ new.mapped = mappingDrafts[d].mapped
  OBVIOUS
<1> HIDE DEF new, done
<1>5. /\ mappings' \in Seq(Mapping(Len(tbs))) /\ Len(mappings') = Len(mappings) + 1
      /\ Len(mappings) \in Nat /\ mappings'[Len(mappings) + 1] = new
      /\ mappingDrafts' \in Seq(MappingDraft(Len(tbs)))
  BY <1>1, <1>3, Appended, Replaced DEF SourcesHold
<1>6. /\ active \in Pins /\ active'.tb = active.tb /\ active'.mapping = Len(mappings) + 1
      /\ active'.materiality = 0 /\ active' \in Pins'
  <2>1. active \in Pins
    BY DEF SourcesHold
  <2>2. /\ Len(mappings) + 1 \in 0..Len(mappings') /\ 0 \in 0..Len(materialities') /\ 0 \in 0..Len(plans')
        /\ tbs' = tbs
    BY <1>1, <1>5, Histories
  <2> QED  BY <1>1, <2>1, <2>2 DEF Pins
<1>7. SourcesHold'
  <2>1. materialities' \in Seq(Materiality(Len(tbs'), Len(mappings')))
    BY <1>1, <1>5, VersionsGrow, Histories DEF SourcesHold
  <2> QED  BY <1>1, <1>5, <1>6, <2>1 DEF SourcesHold
<1>8. PinsFormAChain'
  BY <1>1, <1>3, <1>4, <1>5, <1>6 DEF PinsFormAChain, None
<1> QED  BY <1>1, <1>7, <1>8

(* A version of the materiality of the active sources, and its pins. *)
LEMMA MaterialityAdded ==
  ASSUME SourcesHold, PinsFormAChain, active.tb # None, active.mapping # None,
         NEW new \in Materiality(Len(tbs), Len(mappings)),
         new.tb = active.tb, new.mapping = active.mapping,
         materialities' = Append(materialities, new),
         active' = [active EXCEPT !.materiality = Len(materialities) + 1, !.plan = 0],
         risks' \in Seq(Risk(Len(materialities) + 1)),
         UNCHANGED <<tbs, mappingDrafts, mappings, plans>>
  PROVE  SourcesHold' /\ PinsFormAChain'
<1>1. /\ materialities' \in Seq(Materiality(Len(tbs), Len(mappings)))
      /\ Len(materialities') = Len(materialities) + 1 /\ Len(materialities) \in Nat
      /\ materialities'[Len(materialities) + 1] = new
  BY Appended DEF SourcesHold
<1>2. /\ active \in Pins /\ active'.tb = active.tb /\ active'.mapping = active.mapping
      /\ active'.materiality = Len(materialities) + 1 /\ active' \in Pins'
  <2>1. active \in Pins
    BY DEF SourcesHold
  <2>2. /\ Len(materialities) + 1 \in 0..Len(materialities') /\ 0 \in 0..Len(plans')
        /\ tbs' = tbs /\ mappings' = mappings
    BY <1>1, Histories
  <2> QED  BY <2>1, <2>2 DEF Pins
<1>3. SourcesHold'
  BY <1>1, <1>2 DEF SourcesHold
<1>4. PinsFormAChain'
  BY <1>1, <1>2 DEF PinsFormAChain
<1> QED  BY <1>3, <1>4

LEMMA MaterialityCalculated ==
  ASSUME SourcesHold, PinsFormAChain, NEW low \in BOOLEAN, MaterialityCalculate(low)
  PROVE  SourcesHold' /\ PinsFormAChain' /\ UNCHANGED importVars
<1> DEFINE new == [tb |-> active.tb, mapping |-> active.mapping, low |-> low]
<1>1. /\ active.tb # None /\ active.mapping # None
      /\ materialities' = Append(materialities, new)
      /\ active' = [active EXCEPT !.materiality = Len(materialities) + 1, !.plan = 0]
      /\ UNCHANGED <<importVars, tbs, mappingDrafts, mappings, risks, plans>>
  BY DEF MaterialityCalculate, None
<1>2. new \in Materiality(Len(tbs), Len(mappings)) /\ new.tb = active.tb /\ new.mapping = active.mapping
  BY <1>1, Histories DEF Materiality, None
<1> HIDE DEF new
<1>3. risks' \in Seq(Risk(Len(materialities) + 1))
  BY <1>1, VersionsGrow, Histories DEF SourcesHold
<1> QED  BY <1>1, <1>2, <1>3, MaterialityAdded

LEMMA MaterialityAdjusted ==
  ASSUME SourcesHold, PinsFormAChain, NEW low \in BOOLEAN, MaterialityAdjust(low)
  PROVE  SourcesHold' /\ PinsFormAChain' /\ UNCHANGED importVars
<1> DEFINE old == active.materiality
           kept == {n \in UNION {Latest(f) : f \in Accounts} : risks[n].materiality = old}
           new == [materialities[old] EXCEPT !.low = low]
           carried(order) == [k \in DOMAIN order |->
                                [risks[order[k]] EXCEPT !.materiality = Len(materialities) + 1,
                                                        !.band = Band(risks[order[k]].high, low)]]
<1>1. /\ old # None
      /\ materialities' = Append(materialities, new)
      /\ \E order \in [1..Cardinality(kept) -> kept] : risks' = risks \o carried(order)
      /\ active' = [active EXCEPT !.materiality = Len(materialities) + 1, !.plan = 0]
      /\ UNCHANGED <<importVars, tbs, mappingDrafts, mappings, plans>>
  <2>1. /\ old # None
        /\ materialities' = Append(materialities, new)
        /\ active' = [active EXCEPT !.materiality = Len(materialities) + 1, !.plan = 0]
        /\ UNCHANGED <<importVars, tbs, mappingDrafts, mappings, plans>>
    BY DEF MaterialityAdjust, None
  <2>2. \E order \in [1..Cardinality(kept) -> kept] : risks' = risks \o carried(order)
    BY DEF MaterialityAdjust
  <2> QED  BY <2>1, <2>2
<1>2. old \in DOMAIN materialities /\ materialities[old] \in Materiality(Len(tbs), Len(mappings))
  <2> HIDE DEF kept, new, carried
  <2>1. old # 0 /\ old \in 0..Len(materialities) /\ Len(materialities) \in Nat
    BY <1>1, Histories DEF None
  <2>2. old \in DOMAIN materialities
    BY <2>1, Histories
  <2> QED  BY <2>2, Histories
<1>3. materialities[old].tb = active.tb /\ materialities[old].mapping = active.mapping
  BY <1>1 DEF PinsFormAChain
<1>4. new \in Materiality(Len(tbs), Len(mappings)) /\ new.tb = active.tb /\ new.mapping = active.mapping
  BY <1>2, <1>3 DEF Materiality
<1>5. active.tb # None /\ active.mapping # None
  BY <1>2, <1>3, Histories DEF Materiality, None
<1>6. kept \subseteq DOMAIN risks /\ Cardinality(kept) \in Nat
  <2>1. kept \in SUBSET (1..Len(risks))
    BY LatestOf, Histories
  <2> HIDE DEF kept
  <2>2. IsFiniteSet(1..Len(risks))
    BY Histories, FS_Interval
  <2>3. IsFiniteSet(kept)
    BY <2>1, <2>2, FS_Subset
  <2> QED  BY <2>1, <2>3, FS_CardinalityType, Histories
<1>7. risks' \in Seq(Risk(Len(materialities) + 1))
  <2>1. PICK order \in [1..Cardinality(kept) -> kept] : risks' = risks \o carried(order)
    BY <1>1
  <2> HIDE DEF kept, new
  <2>2. ASSUME NEW k \in 1..Cardinality(kept)
        PROVE  carried(order)[k] \in Risk(Len(materialities) + 1)
    <3>1. order[k] \in DOMAIN risks
      BY <1>6, <2>1
    <3>2. risks[order[k]] \in Risk(Len(materialities))
      BY <3>1, Histories
    <3>3. Len(materialities) + 1 \in 1..(Len(materialities) + 1)
      BY Histories
    <3>4. Band(risks[order[k]].high, low) \in {"GREEN", "RED"}
      BY DEF Band
    <3>5. carried(order)[k] = [risks[order[k]] EXCEPT !.materiality = Len(materialities) + 1,
                                                      !.band = Band(risks[order[k]].high, low)]
      BY <2>1
    <3> HIDE DEF carried
    <3> QED  BY <3>2, <3>3, <3>4, <3>5 DEF Risk
  <2>3. carried(order) \in [1..Cardinality(kept) -> Risk(Len(materialities) + 1)]
    BY <2>2
  <2> HIDE DEF carried
  <2>4. carried(order) \in Seq(Risk(Len(materialities) + 1))
    BY <1>6, <2>3, SeqDef
  <2>5. risks \in Seq(Risk(Len(materialities) + 1))
    BY VersionsGrow, Histories DEF SourcesHold
  <2> QED  BY <2>1, <2>4, <2>5, ConcatProperties
<1> HIDE DEF new
<1> QED  BY <1>1, <1>4, <1>5, <1>7, MaterialityAdded

(* A risk is of the active materiality; it and a new plan leave the chain   *)
(* of the pins alone.                                                       *)
LEMMA RiskAssessed ==
  ASSUME SourcesHold, PinsFormAChain, NEW f \in Accounts, NEW high \in BOOLEAN, FsliRiskSet(f, high)
  PROVE  SourcesHold' /\ PinsFormAChain' /\ UNCHANGED importVars
<1> DEFINE new == [fsli |-> f, materiality |-> active.materiality, high |-> high,
                   band |-> Band(high, materialities[active.materiality].low)]
<1>1. /\ active.materiality # None /\ risks' = Append(risks, new)
      /\ active' = [active EXCEPT !.plan = 0]
      /\ UNCHANGED <<importVars, tbs, mappingDrafts, mappings, materialities, plans>>
  BY DEF FsliRiskSet, None
<1>2. new \in Risk(Len(materialities))
  BY <1>1, Histories DEF Risk, Band, None
<1> HIDE DEF new
<1>3. risks' \in Seq(Risk(Len(materialities)))
  BY <1>1, <1>2, Appended DEF SourcesHold
<1>4. /\ active' \in Pins /\ active'.tb = active.tb /\ active'.mapping = active.mapping
      /\ active'.materiality = active.materiality
  <2>1. active \in Pins /\ 0 \in 0..Len(plans)
    BY Histories DEF SourcesHold
  <2> QED  BY <1>1, <2>1 DEF Pins
<1>5. SourcesHold'
  BY <1>1, <1>3, <1>4 DEF SourcesHold, Pins
<1> QED  BY <1>1, <1>4, <1>5 DEF PinsFormAChain

LEMMA PlanCompiled ==
  ASSUME SourcesHold, PinsFormAChain, NEW by \in Reviewers, PlanningCompile(by)
  PROVE  SourcesHold' /\ PinsFormAChain' /\ UNCHANGED importVars
<1> DEFINE new == [by |-> by, source |-> Dependencies]
<1>1. /\ plans' = Append(plans, new)
      /\ UNCHANGED <<importVars, tbs, mappingDrafts, mappings, materialities, risks, active>>
  BY DEF PlanningCompile
<1> HIDE DEF new
<1>2. /\ plans' \in Seq(Range(plans) \cup {new}) /\ Len(plans') = Len(plans) + 1 /\ Len(plans) \in Nat
      /\ DOMAIN plans = 1..Len(plans) /\ DOMAIN plans' = 1..(Len(plans) + 1)
      /\ plans'[Len(plans) + 1] = new /\ \A k \in 1..Len(plans) : plans'[k] = plans[k]
  BY <1>1, Appended DEF SourcesHold
<1>3. Range(plans') = Range(plans) \cup {new}
  BY <1>2 DEF Range
<1>4. active' \in Pins'
  BY <1>1, <1>2 DEF SourcesHold, Pins
<1>5. SourcesHold'
  BY <1>1, <1>2, <1>3, <1>4 DEF SourcesHold
<1> QED  BY <1>1, <1>5 DEF PinsFormAChain

(* Sources change in planning only, and keep their types and their chain. *)
LEMMA SourcesKeep ==
  ASSUME ImportsHold, SourcesHold, PinsFormAChain, SourceNext
  PROVE  ImportsHold' /\ SourcesHold' /\ PinsFormAChain' /\ stage = "PORTAL_ACTIVE_PLANNING"
<1>1. Planned
  BY DEF SourceNext, TbActivate, MappingPropose, MappingSet, MappingApprove, MaterialityCalculate,
     MaterialityAdjust, FsliRiskSet, PlanningCompile
<1>2. UNCHANGED importVars => ImportsHold'
  BY DEF importVars, ImportsHold
<1>3. ASSUME NEW i \in DOMAIN imports, TbActivate(i)
      PROVE  ImportsHold' /\ SourcesHold' /\ PinsFormAChain'
  BY <1>3, TbActivates
<1>4. ASSUME MappingPropose \/ \E d \in DOMAIN mappingDrafts, a \in Accounts : MappingSet(d, a)
      PROVE  ImportsHold' /\ SourcesHold' /\ PinsFormAChain'
  BY <1>2, <1>4, MappingDrafted
<1>5. ASSUME NEW d \in DOMAIN mappingDrafts, MappingApprove(d)
      PROVE  ImportsHold' /\ SourcesHold' /\ PinsFormAChain'
  BY <1>2, <1>5, MappingApproved
<1>6. ASSUME NEW low \in BOOLEAN, MaterialityCalculate(low) \/ MaterialityAdjust(low)
      PROVE  ImportsHold' /\ SourcesHold' /\ PinsFormAChain'
  BY <1>2, <1>6, MaterialityCalculated, MaterialityAdjusted
<1>7. ASSUME NEW f \in Accounts, NEW high \in BOOLEAN, FsliRiskSet(f, high)
      PROVE  ImportsHold' /\ SourcesHold' /\ PinsFormAChain'
  BY <1>2, <1>7, RiskAssessed
<1>8. ASSUME NEW by \in Reviewers, PlanningCompile(by)
      PROVE  ImportsHold' /\ SourcesHold' /\ PinsFormAChain'
  BY <1>2, <1>8, PlanCompiled
<1> QED  BY <1>1, <1>3, <1>4, <1>5, <1>6, <1>7, <1>8 DEF SourceNext, Planned

----
(* The plan. *)

(* A plan is approved when what it was compiled from is what there is. *)
LEMMA PlanApproved ==
  ASSUME PlanInv, NEW by \in Partners, NEW p \in DOMAIN plans, PlanningApprove(by, p),
         UNCHANGED <<pbc, scheduleVars>>
  PROVE  PlanInv'
<1>1. /\ Unblocked /\ plans[p].source = Dependencies
      /\ active' = [active EXCEPT !.plan = p] /\ stage' = "FIELDWORK_EXECUTION"
      /\ UNCHANGED <<importVars, tbs, mappingDrafts, mappings, materialities, risks, plans, pbc, scheduleVars>>
  BY DEF PlanningApprove
<1>2. SourcesHold /\ PinsFormAChain
  BY DEF PlanInv, FieldworkRestsOnThePlan
<1>3. /\ active' \in Pins /\ active'.tb = active.tb /\ active'.mapping = active.mapping
      /\ active'.materiality = active.materiality /\ active'.plan = p
      /\ p # None /\ p \in 0..Len(plans)
  <2>1. active \in Pins /\ p \in 0..Len(plans) /\ p # None
    BY <1>2, Histories DEF SourcesHold, None
  <2> QED  BY <1>1, <2>1 DEF Pins
<1>4. SourcesHold'
  BY <1>1, <1>2, <1>3 DEF SourcesHold, Pins
<1>5. PinsFormAChain'
  BY <1>1, <1>2, <1>3 DEF PinsFormAChain
<1>6. \A f : Current(f)' = Current(f)
  BY <1>1, <1>3 DEF Current, Latest
<1>7. \A f \in Accounts : Current(f) = Current(f) /\ \A n \in Current(f) : risks[n].fsli = f
  BY <1>2, LatestOf DEF Current
<1>8. /\ plans[p].source.pins = <<active.tb, active.mapping, active.materiality>>
      /\ plans[p].source.risks = UNION {Current(f) : f \in Accounts}
      /\ plans[p].source.pbc = pbc
  BY <1>1 DEF Dependencies
<1>9. /\ AllApproved(pbc) /\ active.mapping # None
      /\ \A f \in mappings[active.mapping].mapped : Current(f) # {}
  BY <1>1 DEF Unblocked
<1>10. mappings[active.mapping].mapped \subseteq Accounts
  BY <1>2, <1>9, Histories DEF Mapping, None
<1>11. ASSUME NEW f \in mappings[active.mapping].mapped
       PROVE  \E n \in plans[p].source.risks : risks[n].fsli = f
  <2>1. f \in Accounts
    BY <1>10
  <2>2. PICK n \in Current(f) : TRUE
    BY <1>9
  <2>3. n \in plans[p].source.risks
    BY <1>8, <2>1, <2>2
  <2> QED  BY <1>7, <2>1, <2>2, <2>3
<1>12. FieldworkRestsOnThePlan'
  BY <1>1, <1>3, <1>5, <1>6, <1>8, <1>9, <1>11 DEF FieldworkRestsOnThePlan
<1>13. StaffingTypeOK' /\ ReportsMeetTheCutoff' /\ ImportsHold' /\ RequestsHold'
  BY <1>1 DEF PlanInv, scheduleVars, importVars, StaffingTypeOK, ReportsMeetTheCutoff, Cutoff,
     ImportsHold, RequestsHold
<1> QED  BY <1>1, <1>4, <1>12, <1>13 DEF PlanInv, Stages

LEMMA RequestsKeep ==
  ASSUME RequestsHold, RequestNext
  PROVE  RequestsHold'
<1> DEFINE Statuses == {"PENDING_UPLOAD", "UNDER_REVIEW", "APPROVED", "REJECTED_REUPLOAD_REQUIRED"}
<1>1. pbc \in Seq(Statuses)
  BY DEF RequestsHold
<1>2. CASE PbcCreate
  <2>1. pbc' = Append(pbc, "PENDING_UPLOAD") /\ "PENDING_UPLOAD" \in Statuses
    BY <1>2 DEF PbcCreate
  <2> HIDE DEF Statuses
  <2>2. pbc' \in Seq(Statuses)
    BY <1>1, <2>1, Appended
  <2> QED  BY <2>2 DEF RequestsHold, Statuses
<1>3. ASSUME NEW r \in DOMAIN pbc, PbcSubmit(r) \/ PbcReview(r)
      PROVE  RequestsHold'
  <2>1. PICK status \in Statuses : pbc' = [pbc EXCEPT ![r] = status]
    BY <1>3 DEF PbcSubmit, PbcReview
  <2> HIDE DEF Statuses
  <2>2. pbc' \in Seq(Statuses)
    BY <1>1, <2>1, Replaced
  <2> QED  BY <2>2 DEF RequestsHold, Statuses
<1> QED  BY <1>2, <1>3 DEF RequestNext

(* What fieldwork rests on does not change with it. *)
LEMMA PlanStays ==
  ASSUME FieldworkRestsOnThePlan, UNCHANGED sourceVars, stage' = stage
  PROVE  FieldworkRestsOnThePlan'
<1>1. \A f : Current(f)' = Current(f)
  BY DEF sourceVars, Current, Latest
<1>2. PinsFormAChain'
  BY DEF sourceVars, FieldworkRestsOnThePlan, PinsFormAChain
<1> QED  BY <1>1, <1>2 DEF sourceVars, FieldworkRestsOnThePlan

LEMMA PlanInvKeeps ==
  ASSUME PlanInv, [PlanningNext]_planningVars
  PROVE  PlanInv'
<1>1. ASSUME UNCHANGED scheduleVars
      PROVE  StaffingTypeOK' /\ ReportsMeetTheCutoff'
  BY <1>1 DEF PlanInv, scheduleVars, StaffingTypeOK, ReportsMeetTheCutoff, Cutoff
<1>2. UNCHANGED importVars => ImportsHold'
  BY DEF PlanInv, importVars, ImportsHold
<1>3. UNCHANGED sourceVars => SourcesHold'
  BY DEF PlanInv, sourceVars, SourcesHold, Pins
<1>4. UNCHANGED pbc => RequestsHold'
  BY DEF PlanInv, RequestsHold
<1>5. ASSUME ImportNext, UNCHANGED <<pbc, stage, scheduleVars>>
      PROVE  PlanInv'
  <2>1. ImportsHold' /\ UNCHANGED sourceVars
    BY <1>5, ImportsKeep DEF PlanInv
  <2> QED  BY <1>1, <1>3, <1>4, <1>5, <2>1, PlanStays DEF PlanInv
<1>6. ASSUME SourceNext, UNCHANGED <<pbc, stage, scheduleVars>>
      PROVE  PlanInv'
  <2>1. ImportsHold' /\ SourcesHold' /\ PinsFormAChain' /\ stage = "PORTAL_ACTIVE_PLANNING"
    BY <1>6, SourcesKeep DEF PlanInv, FieldworkRestsOnThePlan
  <2>2. FieldworkRestsOnThePlan'
    BY <1>6, <2>1 DEF FieldworkRestsOnThePlan
  <2> QED  BY <1>1, <1>4, <1>6, <2>1, <2>2 DEF PlanInv
<1>7. ASSUME NEW by \in Partners, NEW p \in DOMAIN plans, PlanningApprove(by, p),
             UNCHANGED <<pbc, scheduleVars>>
      PROVE  PlanInv'
  BY <1>7, PlanApproved
<1>8. ASSUME RequestNext, UNCHANGED <<importVars, sourceVars, stage, scheduleVars>>
      PROVE  PlanInv'
  <2>1. RequestsHold'
    BY <1>8, RequestsKeep DEF PlanInv
  <2> QED  BY <1>1, <1>2, <1>3, <1>8, <2>1, PlanStays DEF PlanInv
<1>9. ASSUME CapacityNext \/ MilestoneNext, UNCHANGED <<importVars, sourceVars, pbc, stage>>
      PROVE  PlanInv'
  <2>1. StaffingTypeOK' /\ ReportsMeetTheCutoff'
    <3>1. CASE CapacityNext
      BY <3>1, CapacityKeeps DEF PlanInv, ReportsMeetTheCutoff, Cutoff
    <3>2. CASE MilestoneNext
      BY <3>2, MilestonesKeep DEF PlanInv
    <3> QED  BY <1>9, <3>1, <3>2
  <2> QED  BY <1>2, <1>3, <1>4, <1>9, <2>1, PlanStays DEF PlanInv
<1>10. ASSUME UNCHANGED planningVars
       PROVE  PlanInv'
  BY <1>1, <1>2, <1>3, <1>4, <1>10, PlanStays DEF PlanInv, planningVars
<1> QED  BY <1>5, <1>6, <1>7, <1>8, <1>9, <1>10 DEF PlanningNext

LEMMA PlanInvBegins ==
  ASSUME StaffingInit, PlanningInit(<<>>), stage \in Stages \ {"FIELDWORK_EXECUTION"}
  PROVE  PlanInv
<1>1. /\ \A S : <<>> \in Seq(S)
      /\ Len(<<>>) = 0 /\ DOMAIN <<>> = {}
  BY EmptySeq
<1>2. StaffingTypeOK /\ ReportsMeetTheCutoff
  <2>1. StaffingTypeOK
    BY ScheduleBounds DEF StaffingInit, StaffingTypeOK, Unrecorded, Unset
  <2>2. \A c \in Codes : milestones[c].version = 0
    BY DEF StaffingInit, Unset
  <2> QED  BY <2>1, <2>2, CodesApart DEF ReportsMeetTheCutoff
<1>3. ImportsHold
  <2>1. Idle \in Progress /\ Idle.import = 0
    BY PlanningBounds DEF Idle, Progress, None
  <2> QED  BY <1>1, <2>1, PlanningBounds DEF PlanningInit, ImportsHold
<1>4. SourcesHold
  BY <1>1 DEF PlanningInit, SourcesHold, Pins, None
<1>5. RequestsHold
  BY <1>1 DEF PlanningInit, RequestsHold
<1>6. FieldworkRestsOnThePlan
  BY DEF PlanningInit, FieldworkRestsOnThePlan, PinsFormAChain
<1> QED  BY <1>2, <1>3, <1>4, <1>5, <1>6 DEF PlanInv

THEOREM PlanInvHolds == PlanningSpec => []PlanInv
<1>1. StaffingInit /\ PlanningInit(<<>>) /\ stage = "PORTAL_ACTIVE_PLANNING" => PlanInv
  BY PlanInvBegins DEF Stages
<1>2. PlanInv /\ [PlanningNext]_planningVars => PlanInv'
  BY PlanInvKeeps
<1> QED  BY <1>1, <1>2, PTL DEF PlanningSpec

(* The state of the planning and of the schedule keeps its types, for any  *)
(* staff, files and versions.                                              *)
THEOREM TypeCorrect == PlanningSpec => []PlanningTypeOK
BY PlanInvHolds, PlanTypes, PTL

(* A report milestone never stands without a statutory cutoff on or after  *)
(* it, whichever of them is set and by whichever command.                  *)
THEOREM CutoffIsMet == PlanningSpec => []ReportsMeetTheCutoff
<1>1. PlanInv => ReportsMeetTheCutoff
  BY DEF PlanInv
<1> QED  BY <1>1, PlanInvHolds, PTL

(* Fieldwork rests on an approved plan whose pins, risks and requests are  *)
(* still those it was compiled from, and the pins always form a chain.     *)
THEOREM FieldworkRests == PlanningSpec => []FieldworkRestsOnThePlan
<1>1. PlanInv => FieldworkRestsOnThePlan
  BY DEF PlanInv
<1> QED  BY <1>1, PlanInvHolds, PTL

(* A step that keeps the invariant overloads no day but by leave.           *)
LEMMA ScheduleKept ==
  ASSUME PlanInv, PlanInv', IsFiniteSet(assignments), [PlanningNext]_planningVars
  PROVE  IsFiniteSet(assignments') /\ [NotOverloading]_scheduleVars
<1>1. CASE UNCHANGED scheduleVars
  BY <1>1 DEF scheduleVars
<1>2. CASE CapacityNext
  BY <1>2, CapacityIsKept DEF PlanInv
<1>3. CASE MilestoneNext
  <2>1. UNCHANGED <<availability, exceptions, assignments>>
    BY <1>3 DEF MilestoneNext, MilestoneSet, MilestoneApplyDefaults
  <2> QED  BY <2>1, CapacityUntouched
<1>4. CapacityNext \/ MilestoneNext \/ UNCHANGED scheduleVars
  BY DEF PlanningNext, planningVars
<1> QED  BY <1>1, <1>2, <1>3, <1>4

(* No command overloads a day but one that records leave: what a day holds  *)
(* was counted against its minutes by every other path, for any number of   *)
(* staff and assignments.                                                   *)
THEOREM OnlyLeave == PlanningSpec => OnlyLeaveOverloads
<1> DEFINE Finite == IsFiniteSet(assignments)
<1>1. StaffingInit /\ PlanningInit(<<>>) /\ stage = "PORTAL_ACTIVE_PLANNING" => Finite
  BY FS_EmptySet DEF StaffingInit
<1>2. PlanInv /\ PlanInv' /\ Finite /\ [PlanningNext]_planningVars
      => Finite' /\ [NotOverloading]_scheduleVars
  BY ScheduleKept
<1> HIDE DEF Finite
<1>3. PlanningSpec => [][NotOverloading]_scheduleVars
  BY <1>1, <1>2, PlanInvHolds, PTL DEF PlanningSpec
<1> QED  BY <1>3 DEF OnlyLeaveOverloads, NotOverloading

----
(* The engagement as a whole: its keys, its schedule and its planning       *)
(* interleaved, from the proposal on or from a client that is planned.      *)
engagementVars == <<stage, keyVars, planVars>>

EngagementInit ==
  /\ AcceptanceInit
  /\ stage \in {"PROPOSAL_GENERATION", "PORTAL_ACTIVE_PLANNING"}
  /\ \/ StaffingInit /\ PlanningInit(<<>>)
     \/ StaffedInit /\ PlanningInit(<<Prepared, Prepared>>)

EngagementNext ==
  \/ AcceptanceNext /\ UNCHANGED planVars
  \/ PlanningNext /\ UNCHANGED keyVars

EngagementSpec == EngagementInit /\ [][EngagementNext]_engagementVars

EngagementInv == KeysInv /\ KeyTypes /\ PlanInv /\ IsFiniteSet(assignments)

LEMMA StaffedKeeps ==
  ASSUME StaffedInit
  PROVE  StaffingTypeOK /\ ReportsMeetTheCutoff
<1>1. /\ partner \in Staff /\ manager \in Staff
      /\ 1 \in 0..MaxVersion /\ 2 \in 0..DayMinutes /\ 1 \in 1..DayMinutes /\ 1 \in 0..LastDate
      /\ 0 \in 0..MaxVersion /\ 0 \in 0..DayMinutes /\ 0 \in 0..LastDate
  BY PreparedAssumption, ScheduleBounds DEF Staff
<1>2. availability \in [Staff -> [version : 0..MaxVersion, scheduled : 0..DayMinutes, leave : SUBSET Minutes]]
  BY <1>1 DEF StaffedInit
<1>3. exceptions \in [Staff -> 0..DayMinutes]
  BY <1>1 DEF StaffedInit
<1>4. assignments \subseteq [staff : Staff, persona : Personas, phase : Phases, minutes : 1..DayMinutes]
  BY <1>1, PreparedAssumption DEF StaffedInit, Assigned, Personas
<1>5. milestones \in [Codes -> [version : 0..MaxVersion, date : 0..LastDate]]
  BY <1>1 DEF StaffedInit, Unset
<1>6. \A r \in Reports : milestones[r].version = 0
  BY CodesApart DEF StaffedInit, Unset
<1> QED  BY <1>2, <1>3, <1>4, <1>5, <1>6 DEF StaffingTypeOK, ReportsMeetTheCutoff

LEMMA PreparedIsImported ==
  /\ <<Prepared, Prepared>> \in Seq(Import)
  /\ Len(<<Prepared, Prepared>>) = 2 /\ DOMAIN <<Prepared, Prepared>> = 1..2
  /\ \A i \in 1..2 : <<Prepared, Prepared>>[i] = Prepared
  /\ Prepared.nonzero \subseteq 1..Prepared.rows /\ Prepared.staged \subseteq 1..Prepared.rows
<1>1. 1 \in Accounts
  BY PreparedAssumption, PlanningBounds DEF Accounts
<1>2. Prepared \in Import
  BY <1>1 DEF Prepared, Import
<1>3. Prepared.nonzero \subseteq 1..Prepared.rows /\ Prepared.staged \subseteq 1..Prepared.rows
  BY DEF Prepared
<1> HIDE DEF Prepared, Import
<1> QED  BY <1>2, <1>3

LEMMA PreparedBegins ==
  ASSUME StaffedInit, PlanningInit(<<Prepared, Prepared>>), stage \in Stages \ {"FIELDWORK_EXECUTION"}
  PROVE  PlanInv
<1>1. /\ \A S : <<>> \in Seq(S)
      /\ Len(<<>>) = 0 /\ DOMAIN <<>> = {}
  BY EmptySeq
<1>2. ImportsHold
  <2>1. Idle \in Progress /\ Idle.import = 0
    BY PlanningBounds DEF Idle, Progress, None
  <2>2. imports = <<Prepared, Prepared>> /\ importer = [w \in Importers |-> Idle]
    BY DEF PlanningInit
  <2>3. 2 <= MaxImports
    BY PreparedAssumption, PlanningBounds
  <2> HIDE DEF Idle, Prepared, Import, Progress
  <2> QED  BY <2>1, <2>2, <2>3, PreparedIsImported DEF ImportsHold
<1>3. SourcesHold
  BY <1>1 DEF PlanningInit, SourcesHold, Pins, None
<1>4. RequestsHold
  BY <1>1 DEF PlanningInit, RequestsHold
<1>5. FieldworkRestsOnThePlan
  BY DEF PlanningInit, FieldworkRestsOnThePlan, PinsFormAChain
<1> QED  BY <1>2, <1>3, <1>4, <1>5, StaffedKeeps DEF PlanInv

LEMMA EngagementBegins ==
  ASSUME EngagementInit
  PROVE  EngagementInv
<1>1. stage \in Stages \ {"FIELDWORK_EXECUTION"}
  BY DEF EngagementInit, Stages
<1>2. KeysInv /\ KeyTypes
  BY <1>1, KeysStart, KeyTypesStart DEF EngagementInit
<1>3. PlanInv
  BY <1>1, PlanInvBegins, PreparedBegins DEF EngagementInit
<1>4. IsFiniteSet(assignments)
  <2>1. CASE StaffingInit
    BY <2>1, FS_EmptySet DEF StaffingInit
  <2>2. CASE StaffedInit
    <3>1. assignments = ((({} \cup {Assigned(manager, "PREPARER", "FIELDWORK")})
                            \cup {Assigned(manager, "REVIEWER", "FIELDWORK")})
                            \cup {Assigned(partner, "APPROVER", "PLANNING")})
      BY <2>2 DEF StaffedInit
    <3> QED  BY <3>1, FS_EmptySet, FS_AddElement
  <2> QED  BY <2>1, <2>2 DEF EngagementInit
<1> QED  BY <1>2, <1>3, <1>4 DEF EngagementInv

(* The keys do not open fieldwork.                                          *)
LEMMA KeysOpenNoFieldwork ==
  ASSUME AcceptanceNext, stage' = "FIELDWORK_EXECUTION"
  PROVE  stage = "FIELDWORK_EXECUTION"
BY DEF AcceptanceNext, acceptanceVars, risk, paper, Dispatched, Revise, AdvanceSettled, RecordDelta, Submit,
   Escalate, ResolveEscalation, AcceptanceRecord, AcceptanceRevoke, LetterGenerate, SaveDraft, StartContinuance,
   OwnerSave, RiskDecision, AdvanceIf, AssetsChange, LetterRendered, LetterIssue

LEMMA PlanKeepsKeys ==
  ASSUME KeysInv, KeyTypes, UNCHANGED keyVars, stage' \in Stages
  PROVE  KeysInv' /\ KeyTypes'
<1>1. UNCHANGED <<revision, acceptances, assessment, dossier, clearance>>
  BY DEF keyVars, risk
<1>2. KeysInv'
  BY <1>1, KeysStay
<1>3. KeyTypes'
  BY <1>1 DEF KeyTypes
<1> QED  BY <1>2, <1>3

LEMMA KeysKeepPlan ==
  ASSUME PlanInv, UNCHANGED planVars, stage' \in Stages,
         stage' = "FIELDWORK_EXECUTION" => stage = "FIELDWORK_EXECUTION"
  PROVE  PlanInv'
<1>1. StaffingTypeOK' /\ ReportsMeetTheCutoff'
  BY DEF PlanInv, planVars, scheduleVars, StaffingTypeOK, ReportsMeetTheCutoff, Cutoff
<1>2. ImportsHold'
  BY DEF PlanInv, planVars, importVars, ImportsHold
<1>3. SourcesHold'
  BY DEF PlanInv, planVars, sourceVars, SourcesHold, Pins
<1>4. RequestsHold'
  BY DEF PlanInv, planVars, RequestsHold
<1>5. FieldworkRestsOnThePlan'
  <2>1. UNCHANGED sourceVars
    BY DEF planVars
  <2>2. \A f : Current(f)' = Current(f)
    BY <2>1 DEF sourceVars, Current, Latest
  <2>3. PinsFormAChain'
    BY <2>1 DEF PlanInv, sourceVars, FieldworkRestsOnThePlan, PinsFormAChain
  <2> QED  BY <2>1, <2>2, <2>3 DEF PlanInv, sourceVars, FieldworkRestsOnThePlan
<1> QED  BY <1>1, <1>2, <1>3, <1>4, <1>5 DEF PlanInv

LEMMA EngagementKeeps ==
  ASSUME EngagementInv, [EngagementNext]_engagementVars
  PROVE  EngagementInv'
<1>1. CASE AcceptanceNext /\ UNCHANGED planVars
  <2>1. KeysInv' /\ KeyTypes'
    BY <1>1, KeysStep, KeyTypesStep DEF EngagementInv
  <2>2. PlanInv'
    BY <1>1, <2>1, KeysOpenNoFieldwork, KeysKeepPlan DEF EngagementInv, KeyTypes
  <2> QED  BY <1>1, <2>1, <2>2 DEF EngagementInv, planVars, scheduleVars
<1>2. CASE PlanningNext /\ UNCHANGED keyVars
  <2>1. PlanInv'
    BY <1>2, PlanInvKeeps DEF EngagementInv
  <2>2. stage' \in Stages
    BY <2>1 DEF PlanInv
  <2> QED  BY <1>2, <2>1, <2>2, PlanKeepsKeys, ScheduleKept DEF EngagementInv
<1>3. CASE UNCHANGED engagementVars
  <2>1. UNCHANGED keyVars /\ UNCHANGED planVars /\ stage' = stage
    BY <1>3 DEF engagementVars
  <2>2. KeysInv' /\ KeyTypes'
    BY <2>1, PlanKeepsKeys DEF EngagementInv, KeyTypes
  <2> QED  BY <2>1, <2>2, KeysKeepPlan DEF EngagementInv, KeyTypes, planVars, scheduleVars
<1> QED  BY <1>1, <1>2, <1>3 DEF EngagementNext

THEOREM EngagementInvHolds == EngagementSpec => []EngagementInv
<1>1. EngagementInit => EngagementInv
  BY EngagementBegins
<1>2. EngagementInv /\ [EngagementNext]_engagementVars => EngagementInv'
  BY EngagementKeeps
<1> QED  BY <1>1, <1>2, PTL DEF EngagementSpec

(* Whatever its keys, its schedule, its imports and its plan do between     *)
(* each other's steps, an engagement keeps the types of its state, its      *)
(* reports meet the cutoff and its fieldwork rests on the approved plan     *)
(* (businessRisk.ts, businessPlanning.ts, businessTb.ts).                   *)
THEOREM EngagementHolds ==
  EngagementSpec => [](TypeOK /\ ReportsMeetTheCutoff /\ FieldworkRestsOnThePlan)
<1>1. EngagementInv => TypeOK /\ ReportsMeetTheCutoff /\ FieldworkRestsOnThePlan
  BY KeyTypesGive, PlanTypes DEF EngagementInv, PlanInv, TypeOK
<1> QED  BY <1>1, EngagementInvHolds, PTL

(* And none of its steps turns one key without the other or overloads a day *)
(* by anything but leave (businessRisk.ts, businessPlanning.ts).            *)
THEOREM EngagementMoves == EngagementSpec => KeysTurnTogether /\ OnlyLeaveOverloads
<1>1. ASSUME EngagementInv, EngagementInv', [EngagementNext]_engagementVars
      PROVE  /\ [/\ (stage # "ADVANCE_BILLING" /\ stage' = "ADVANCE_BILLING") => BothKeysHold'
                 /\ letters' # letters => BothKeysHold]_acceptanceVars
             /\ [NotOverloading]_scheduleVars
  <2>1. CASE AcceptanceNext /\ UNCHANGED planVars
    BY <1>1, <2>1, KeysTurn DEF EngagementInv, planVars
  <2>2. CASE PlanningNext /\ UNCHANGED keyVars
    <3>1. stage' # "ADVANCE_BILLING" \/ stage' = stage
      BY <2>2 DEF PlanningNext, PlanningApprove
    <3>2. letters' = letters
      BY <2>2 DEF keyVars, paper
    <3> QED  BY <1>1, <2>2, <3>1, <3>2, ScheduleKept DEF EngagementInv
  <2>3. CASE UNCHANGED engagementVars
    BY <2>3 DEF engagementVars, keyVars, paper, planVars
  <2> QED  BY <1>1, <2>1, <2>2, <2>3 DEF EngagementNext
<1>2. EngagementSpec =>
        /\ [][/\ (stage # "ADVANCE_BILLING" /\ stage' = "ADVANCE_BILLING") => BothKeysHold'
              /\ letters' # letters => BothKeysHold]_acceptanceVars
        /\ [][NotOverloading]_scheduleVars
  BY <1>1, EngagementInvHolds, PTL DEF EngagementSpec
<1> QED  BY <1>2 DEF KeysTurnTogether, OnlyLeaveOverloads, NotOverloading

(* The parts that are explored one by one are parts of the engagement.      *)
THEOREM PartsAreOfTheEngagement == Spec => EngagementSpec
<1>1. Init => EngagementInit
  BY DEF Init, EngagementInit
<1>2. [Next]_<<part, stage, keyVars, planVars>> => [EngagementNext]_engagementVars
  <2>1. (\E i \in DOMAIN imports : TbActivate(i)) => SourceNext
    BY DEF SourceNext
  <2> QED  BY <2>1 DEF Next, EngagementNext, engagementVars, planVars, PlanningNext
<1> QED  BY <1>1, <1>2, PTL DEF Spec, EngagementSpec

=============================================================================
