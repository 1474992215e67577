------------------------------ MODULE Acceptance ------------------------------
(***************************************************************************)
(* The two keys of an engagement: the client's acceptance of the current   *)
(* proposal and the Partner's clearance of the current risk dossier        *)
(* (worker/businessRisk.ts), and the letter that both permit               *)
(* (worker/businessDelivery.ts).                                           *)
(*                                                                         *)
(* The register of owners belongs to the client: another engagement of the *)
(* client changes it too.  A dossier is judged by one check, and a command *)
(* is one step (see CommandBus).                                           *)
(***************************************************************************)
EXTENDS Lifecycle, Integers, FiniteSets

CONSTANTS
  Owners,         (* beneficial owners that may be registered              *)
  MaxProposals,   (* bound: revisions of the proposal                      *)
  MaxChanges,     (* bound: changes of the assessment                      *)
  MaxOwnerSaves,  (* bound: revisions of owners                            *)
  MaxEscalations, (* bound: escalations of a dossier                       *)
  MaxDecisions,   (* bound: decisions of each key                          *)
  MaxDrafts       (* bound: drafts of the letter                           *)

ASSUME AcceptanceAssumption ==
  /\ MaxProposals \in Nat \ {0}
  /\ {MaxChanges, MaxOwnerSaves, MaxEscalations, MaxDecisions, MaxDrafts} \subseteq Nat

VARIABLES
  revision,       (* current revision of the proposal, active from DUAL_KEY_PENDING on *)
  register,       (* beneficial_owners: revision of each, and if active    *)
  assessment,     (* risk_assessments: track, version, draft, current      *)
  questionnaire,  (* risk_assessment_drafts: filled in, with an issue      *)
  dossier,        (* the current risk_assessment_version, its escalations  *)
  clearance,      (* the latest of risk_clearances                        *)
  acceptances,    (* number of commercial_acceptances, by revision         *)
  assets,         (* template, signature and seal: changes, if usable      *)
  letterDrafts,   (* engagement_letter_drafts                              *)
  letters         (* engagement_letters, each with its advance invoice     *)

risk == <<register, assessment, questionnaire, dossier>>
paper == <<assets, letterDrafts, letters>>
acceptanceVars == <<stage, revision, risk, clearance, acceptances, paper>>

----
(* ownershipHash                                                           *)
ActiveOwners == {<<o, register[o].rev>> : o \in {x \in Owners : register[x].active}}
PriorOwners == {}

Started == assessment.version > 0

(* Mutant: only the assessment is compared, not the register of owners. *)
FreshWhoeverOwns == assessment.version = dossier.source

(* A dossier can be decided on while the assessment and the register are    *)
(* as they were when it was submitted.                                      *)
Submitted == dossier.number > 0
Fresh ==
  /\ assessment.version = dossier.source
  /\ ActiveOwners = dossier.owners

Escalated == dossier.escalations # <<>> /\ Last(dossier.escalations) = "OPEN"
Resolved == "RESOLVED" \in ToSet(dossier.escalations)

(* activeRiskClearance                                                     *)
Cleared ==
  /\ clearance.decision = "CLEAR"
  /\ clearance.dossier = dossier.number
  /\ Fresh
  /\ clearance.escalations = dossier.escalations

(* activeCommercialAcceptance: decisions on a revision alternate, and each  *)
(* acceptance names the fee of its revision.                                *)
Accepted == acceptances[revision] % 2 = 1

(* getBusinessAcceptanceGate                                               *)
Active == stage # "PROPOSAL_GENERATION"
Ready == Active /\ Accepted /\ Cleared

Keys == [revision |-> revision, acceptance |-> acceptances[revision], clearance |-> clearance.number]

----
(* A sent proposal is the active one; revising it reopens the engagement.   *)
Dispatched ==
  /\ stage = "PROPOSAL_GENERATION"
  /\ stage' = "DUAL_KEY_PENDING"
  /\ UNCHANGED <<revision, risk, clearance, acceptances, paper>>

Revise ==
  /\ stage \in {"PROPOSAL_GENERATION", "DUAL_KEY_PENDING"}
  /\ revision < MaxProposals
  /\ revision' = revision + 1
  /\ stage' = "PROPOSAL_GENERATION"
  /\ UNCHANGED <<risk, clearance, acceptances, paper>>

----
Touch(a) == [a EXCEPT !.version = @ + 1]
CanChange == assessment.version < MaxChanges

SaveDraft(issue) ==
  /\ CanChange
  /\ questionnaire' = [filled |-> TRUE, issue |-> issue]
  /\ assessment' = [Touch(assessment) EXCEPT !.draft = @ + 1]
  /\ UNCHANGED <<stage, revision, register, dossier, clearance, acceptances, paper>>

(* The prior engagement is the client's, accepted, and its clearance fresh. *)
StartContinuance(owed) ==
  /\ CanChange
  /\ ~Started
  /\ ActiveOwners = PriorOwners
  /\ assessment' = [track |-> "CONTINUANCE", version |-> 1, draft |-> 1, delta |-> 0, owed |-> owed]
  /\ questionnaire' = [filled |-> FALSE, issue |-> FALSE]
  /\ UNCHANGED <<stage, revision, register, dossier, clearance, acceptances, paper>>

RecordDelta ==
  /\ CanChange
  /\ Started /\ assessment.track = "CONTINUANCE"
  /\ assessment' = [Touch(assessment) EXCEPT !.draft = @ + 1, !.delta = @ + 1]
  /\ UNCHANGED <<stage, revision, register, questionnaire, dossier, clearance, acceptances, paper>>

(* A save for this engagement changes its assessment; one for another       *)
(* engagement of the client does not.                                       *)
Saves == LET f[S \in SUBSET Owners] ==
               IF S = {} THEN 0 ELSE LET o == CHOOSE x \in S : TRUE IN register[o].rev + f[S \ {o}]
         IN f[Owners]

OwnerSave(o, active, here) ==
  /\ Saves < MaxOwnerSaves
  /\ register[o].rev = 0 => active
  /\ register' = [register EXCEPT ![o] = [rev |-> @.rev + 1, active |-> active]]
  /\ IF here /\ Started
       THEN CanChange /\ assessment' = Touch(assessment)
       ELSE UNCHANGED assessment
  /\ UNCHANGED <<stage, revision, questionnaire, dossier, clearance, acceptances, paper>>

(* A version of the draft is submitted once.                               *)
Submit ==
  /\ Started /\ questionnaire.filled
  /\ dossier.draft # assessment.draft
  /\ assessment.track = "CONTINUANCE" =>
       assessment.delta > 0 /\ (assessment.owed => questionnaire.issue)
  /\ dossier' = [number |-> dossier.number + 1, source |-> assessment.version, draft |-> assessment.draft,
                 owners |-> ActiveOwners, issue |-> questionnaire.issue, escalations |-> <<>>]
  /\ UNCHANGED <<stage, revision, register, assessment, questionnaire, clearance, acceptances, paper>>

Escalate ==
  /\ Submitted
  /\ dossier.issue /\ ~Escalated
  /\ assessment.version = dossier.source
  /\ Len(dossier.escalations) < MaxEscalations
  /\ dossier' = [dossier EXCEPT !.escalations = Append(@, "OPEN")]
  /\ UNCHANGED <<stage, revision, register, assessment, questionnaire, clearance, acceptances, paper>>

ResolveEscalation ==
  /\ Escalated
  /\ dossier' = [dossier EXCEPT !.escalations = Append(Front(@), "RESOLVED")]
  /\ UNCHANGED <<stage, revision, register, assessment, questionnaire, clearance, acceptances, paper>>

----
(* appendAdvanceIfReady                                                    *)
AdvanceIf(other) == stage' = IF stage = "DUAL_KEY_PENDING" /\ other THEN "ADVANCE_BILLING" ELSE stage

Decidable ==
  /\ Submitted
  /\ Fresh
  /\ ~Escalated
  /\ dossier.issue => Resolved

(* What the Partner had before him, for the properties alone.               *)
Facts == [draft |-> assessment.draft, owners |-> ActiveOwners,
          escalations |-> dossier.escalations]

RiskDecision(decision) ==
  /\ clearance.number < MaxDecisions
  /\ Decidable
  /\ decision = "REVOKE" => clearance.decision = "CLEAR" /\ clearance.dossier = dossier.number
  /\ clearance' = [number |-> clearance.number + 1, decision |-> decision, dossier |-> dossier.number,
                   escalations |-> dossier.escalations, facts |-> Facts]
  /\ AdvanceIf(decision = "CLEAR" /\ Accepted)
  /\ UNCHANGED <<revision, risk, acceptances, paper>>

AcceptanceRecord ==
  /\ Active
  /\ ~Accepted
  /\ acceptances[revision] < MaxDecisions
  /\ acceptances' = [acceptances EXCEPT ![revision] = @ + 1]
  /\ AdvanceIf(Cleared)
  /\ UNCHANGED <<revision, risk, clearance, paper>>

AcceptanceRevoke ==
  /\ Active
  /\ Accepted
  /\ acceptances[revision] < MaxDecisions
  /\ acceptances' = [acceptances EXCEPT ![revision] = @ + 1]
  /\ UNCHANGED <<stage, revision, risk, clearance, paper>>

----
(* A new template, consent, withdrawal of consent or approval of the seal.  *)
AssetsChange(usable) ==
  /\ assets.rev < 1
  /\ assets' = [rev |-> assets.rev + 1, usable |-> usable]
  /\ UNCHANGED <<stage, revision, risk, clearance, acceptances, letterDrafts, letters>>

LetterGenerate ==
  /\ Ready /\ stage = "ADVANCE_BILLING"
  /\ assets.usable
  /\ Len(letterDrafts) < MaxDrafts
  /\ letterDrafts' = Append(letterDrafts, [keys |-> Keys, assets |-> assets.rev, status |-> "PENDING"])
  /\ UNCHANGED <<stage, revision, risk, clearance, acceptances, assets, letters>>

(* The commit of the rendered letter reads the gate again.                  *)
LetterRendered(n) ==
  /\ letterDrafts[n].status = "PENDING"
  /\ letterDrafts' = [letterDrafts EXCEPT ![n].status = IF Ready /\ letterDrafts[n].keys = Keys THEN "SUCCEEDED" ELSE "FAILED"]
  /\ UNCHANGED <<stage, revision, risk, clearance, acceptances, assets, letters>>

LetterIssue(n) ==
  /\ letterDrafts[n].status = "SUCCEEDED"
  /\ Ready /\ stage = "ADVANCE_BILLING"
  /\ letterDrafts[n].keys = Keys
  /\ assets.usable /\ letterDrafts[n].assets = assets.rev
  /\ \A l \in ToSet(letters) : l.keys # Keys
  /\ letterDrafts' = [letterDrafts EXCEPT ![n].status = "ISSUED"]
  /\ letters' = Append(letters, [keys |-> Keys, draft |-> n])
  /\ UNCHANGED <<stage, revision, risk, clearance, acceptances, assets>>

(* The receipt that settles an advance invoice (see Billing).               *)
AdvanceSettled ==
  /\ stage = "ADVANCE_BILLING"
  /\ letters # <<>>
  /\ stage' = "PORTAL_ACTIVE_PLANNING"
  /\ UNCHANGED <<revision, risk, clearance, acceptances, paper>>

----
AcceptanceInit ==
  /\ revision = 1
  /\ register = [o \in Owners |-> [rev |-> 0, active |-> FALSE]]
  /\ assessment = [track |-> "NEW_CLIENT", version |-> 0, draft |-> 0, delta |-> 0, owed |-> FALSE]
  /\ questionnaire = [filled |-> FALSE, issue |-> FALSE]
  /\ dossier = [number |-> 0, source |-> 0, draft |-> 0, owners |-> {}, issue |-> FALSE, escalations |-> <<>>]
  /\ clearance = [number |-> 0, decision |-> "NONE", dossier |-> 0, escalations |-> <<>>, facts |-> Facts]
  /\ acceptances = [r \in 1..MaxProposals |-> 0]
  /\ assets = [rev |-> 0, usable |-> TRUE]
  /\ letterDrafts = <<>>
  /\ letters = <<>>

AcceptanceNext ==
  \/ Dispatched \/ Revise \/ AdvanceSettled
  \/ RecordDelta \/ Submit \/ Escalate \/ ResolveEscalation
  \/ AcceptanceRecord \/ AcceptanceRevoke
  \/ LetterGenerate
  \/ \E issue \in BOOLEAN : SaveDraft(issue) \/ StartContinuance(issue)
  \/ \E o \in Owners, active, here \in BOOLEAN : OwnerSave(o, active, here)
  \/ \E decision \in {"CLEAR", "REJECT", "REVOKE"} : RiskDecision(decision)
  \/ \E usable \in BOOLEAN : AssetsChange(usable)
  \/ \E n \in DOMAIN letterDrafts : LetterRendered(n) \/ LetterIssue(n)

AcceptanceSpec == AcceptanceInit /\ stage = "PROPOSAL_GENERATION" /\ [][AcceptanceNext]_acceptanceVars

----
AcceptanceTypeOK ==
  /\ stage \in Stages /\ revision \in 1..MaxProposals
  /\ dossier.source \in 0..assessment.version /\ dossier.draft \in 0..assessment.draft
  /\ \A i \in 1..Len(dossier.escalations) - 1 : dossier.escalations[i] = "RESOLVED"
  /\ clearance.dossier \in 0..dossier.number /\ clearance.number \in 0..MaxDecisions
  /\ acceptances \in [1..MaxProposals -> 0..MaxDecisions]

BothKeysHold ==
  /\ Accepted
  /\ clearance.decision = "CLEAR" /\ clearance.facts = Facts

(* Property: "Under no circumstances can an Engagement Letter ... be        *)
(* provisioned without both keys" (docs/auditsphere-accounting-module.md:   *)
(* 175).  What turns the engagement to billing, and what issues a letter    *)
(* with its invoice, finds both keys: the acceptance of the proposal as it  *)
(* is now and a clearance of the facts as they are now, however the         *)
(* questionnaire, the owners, the escalations and the proposal have changed *)
(* between the two (appendAdvanceIfReady, activeRiskClearance).             *)
KeysTurnTogether ==
  [][/\ (stage # "ADVANCE_BILLING" /\ stage' = "ADVANCE_BILLING") => BothKeysHold'
     /\ letters' # letters => BothKeysHold]_acceptanceVars
================================================================================
