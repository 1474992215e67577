----------------------------- MODULE Statements -----------------------------
(***************************************************************************)
(* Findings, audit adjustments (AJEs), differences and analytical reviews  *)
(* (worker/businessFieldwork.ts).  The adjusted statements are the trial   *)
(* balance with every approved adjustment the client accepted; a snapshot  *)
(* keeps them as they were, and an analytical review is written against a  *)
(* snapshot.  The trial balance does not change after planning, so the set *)
(* of included adjustments stands for the statements and their hash.  The  *)
(* lines, amounts and thresholds are left out.                             *)
(***************************************************************************)
EXTENDS Evidence

CONSTANTS
  MaxFindings,     \* bound on the findings
  MaxAdjustments,  \* bound on the adjustments
  MaxDifferences,  \* bound on the differences
  MaxAnalyses,     \* bound on the analytical reviews
  MaxRevision      \* bound on the versions of a finding or of a review

ASSUME StatementBounds ==
  /\ \A bound \in {MaxFindings, MaxAdjustments, MaxDifferences, MaxAnalyses} : bound \in Nat
  /\ MaxRevision \in Nat \ {0}

VARIABLES
  findings,     \* the findings of the engagement, oldest first
  adjustments,  \* audit_adjustments, oldest first
  differences,  \* audit_differences, which are never written again
  snapshots,    \* the adjusted statements that were kept
  analyses      \* analytical_reviews, oldest first

statementVars == <<findings, adjustments, differences, snapshots, analyses>>

AdjustmentStatuses == {"DRAFT", "PROPOSED", "CLIENT_ACCEPTED", "CLIENT_DECLINED",
                       "REVIEW_APPROVED"}
Dispositions == {"UNADJUSTED", "ADJUSTED", "CLEARLY_TRIVIAL"}
Drafts == {"DRAFT", "UNDER_REWORK"}

StatementsTypeOK ==
  /\ \A f \in DOMAIN findings :
       /\ findings[f].version \in 1..MaxRevision
       /\ findings[f].status \in {"OPEN", "RESPONDED", "RESOLVED"}
       /\ findings[f].by \in Staff /\ OnePerFamily(findings[f].links)
  /\ \A a \in DOMAIN adjustments :
       /\ adjustments[a].status \in AdjustmentStatuses
       /\ adjustments[a].finding \in 0..Len(findings)
       /\ OnePerFamily(adjustments[a].pins)
       /\ adjustments[a].status = "REVIEW_APPROVED" <=> adjustments[a].approver # Nobody
  /\ \A d \in DOMAIN differences :
       /\ differences[d].finding \in DOMAIN findings
       /\ differences[d].disposition \in Dispositions
       /\ differences[d].adjustment \in 0..Len(adjustments)
  /\ \A n \in DOMAIN analyses :
       /\ analyses[n].version \in 1..MaxRevision
       /\ analyses[n].status \in Drafts \cup {"SUBMITTED", "REVIEWED"}
       /\ analyses[n].by \in analyses[n].writers /\ analyses[n].writers \subseteq Staff
       /\ analyses[n].snapshot \in snapshots /\ OnePerFamily(analyses[n].links)

StatementsInit ==
  /\ findings = <<>> /\ adjustments = <<>> /\ differences = <<>>
  /\ snapshots = {} /\ analyses = <<>>

(***************************************************************************)
(* Findings.                                                               *)
(***************************************************************************)
FindingCreate(who) ==
  /\ Executable /\ Len(findings) < MaxFindings
  /\ findings' = Append(findings, [version |-> 1, status |-> "OPEN", by |-> who,
                                   links |-> {}])
  /\ UNCHANGED <<adjustments, differences, snapshots, analyses>>

FindingBecomes(f, row) ==
  /\ findings[f].version < MaxRevision
  /\ findings' = [findings EXCEPT ![f] = [row EXCEPT !.version = @ + 1]]
  /\ UNCHANGED <<adjustments, differences, snapshots, analyses>>

(* The client answers before the approval only. *)
FindingRespond(f) ==
  /\ stage \in {"FIELDWORK_EXECUTION", "MANAGERIAL_REVIEW"}
  /\ findings[f].status = "OPEN"
  /\ FindingBecomes(f, [findings[f] EXCEPT !.status = "RESPONDED"])

FindingResolve(who, f) ==
  /\ Executable /\ findings[f].status = "RESPONDED" /\ who # findings[f].by
  /\ AllLatest(findings[f].links) /\ AllAdequate(findings[f].links)
  /\ FindingBecomes(f, [findings[f] EXCEPT !.status = "RESOLVED"])

(* Evidence is linked to a finding and taken from it whatever its status. *)
FindingLink(f, family) ==
  LET row == findings[f]
  IN /\ Executable /\ Linkable(family, row.links)
     /\ FindingBecomes(f, [row EXCEPT !.links = Relinked(family, @, row.version + 1)])

FindingUnlink(f, link) ==
  Executable /\ FindingBecomes(f, [findings[f] EXCEPT !.links = @ \ {link}])

(***************************************************************************)
(* Adjustments.  One pins evidence with the decision that found it         *)
(* adequate; a pin stands as long as nobody judges that version again.     *)
(***************************************************************************)
Pinned(f) == [family |-> f, version |-> Len(evidence[f]), standing |-> TRUE]

Verified(a) == \A pin \in adjustments[a].pins :
  IsLatest(pin) /\ Adequacy(pin) = "ADEQUATE" /\ pin.standing

AdjustmentCreate(who, finding, families) ==
  /\ Executable /\ Len(adjustments) < MaxAdjustments
  /\ \A f \in families : evidence[f] # <<>> /\ Last(evidence[f]).adequacy = "ADEQUATE"
  /\ adjustments' = Append(adjustments,
       [finding |-> finding, by |-> who, status |-> "DRAFT", included |-> FALSE,
        pins |-> {Pinned(f) : f \in families}, approver |-> Nobody])
  /\ UNCHANGED <<findings, differences, snapshots, analyses>>

AdjustmentBecomes(a, row) ==
  /\ adjustments' = [adjustments EXCEPT ![a] = row]
  /\ UNCHANGED <<findings, differences, snapshots, analyses>>

AdjustmentPropose(a) ==
  /\ Executable /\ adjustments[a].status = "DRAFT" /\ Verified(a)
  /\ AdjustmentBecomes(a, [adjustments[a] EXCEPT !.status = "PROPOSED"])

AdjustmentRespond(a, answer) ==
  /\ stage \in {"FIELDWORK_EXECUTION", "MANAGERIAL_REVIEW", "PARTNER_APPROVAL"}
  /\ adjustments[a].status = "PROPOSED"
  /\ AdjustmentBecomes(a, [adjustments[a] EXCEPT !.status = answer])

(* The statements include an approved adjustment if the client accepted it. *)
AdjustmentApprove(who, a) ==
  LET row == adjustments[a]
  IN /\ Executable /\ row.status \in {"CLIENT_ACCEPTED", "CLIENT_DECLINED"}
     /\ who # row.by /\ row.pins # {} /\ Verified(a)
     /\ AdjustmentBecomes(a, [row EXCEPT !.status = "REVIEW_APPROVED", !.approver = who,
                                         !.included = (row.status = "CLIENT_ACCEPTED")])

(* The latest version of f was judged again. *)
Rejudged(f) ==
  LET now(pin) == [pin EXCEPT !.standing = @ /\ ~(pin.family = f /\ IsLatest(pin))]
  IN adjustments' = [a \in DOMAIN adjustments |->
       [adjustments[a] EXCEPT !.pins = {now(pin) : pin \in @}]]

(* A difference of a finding is settled as it is recorded: it stays, or an
   approved adjustment of that finding, or of none, has put it right.  What
   is qualitative or above the SAD threshold is never trivial. *)
DifferenceCreate(finding, significant, disposition, adjustment) ==
  /\ Executable /\ Len(differences) < MaxDifferences
  /\ disposition = "CLEARLY_TRIVIAL" => ~significant
  /\ disposition = "ADJUSTED" <=> adjustment # 0
  /\ adjustment # 0 => /\ adjustments[adjustment].status = "REVIEW_APPROVED"
                       /\ adjustments[adjustment].finding \in {0, finding}
                       /\ adjustments[adjustment].included
  /\ differences' = Append(differences,
       [finding |-> finding, significant |-> significant,
        disposition |-> disposition, adjustment |-> adjustment])
  /\ UNCHANGED <<findings, adjustments, snapshots, analyses>>

(***************************************************************************)
(* The adjusted statements and their analytical reviews.                   *)
(***************************************************************************)
Included == {a \in DOMAIN adjustments :
               adjustments[a].status = "REVIEW_APPROVED" /\ adjustments[a].included}

StatementSnapshot ==
  /\ Executable /\ snapshots' = snapshots \cup {Included}
  /\ UNCHANGED <<findings, adjustments, differences, analyses>>

AnalysisBecomes(n, row) ==
  /\ analyses[n].version < MaxRevision
  /\ analyses' = [analyses EXCEPT ![n] = [row EXCEPT !.version = @ + 1]]
  /\ UNCHANGED <<findings, adjustments, differences, snapshots>>

(* "complete" tells whether there is an explanation and a conclusion. *)
AnalysisDraft(who, complete) ==
  /\ Executable /\ Included \in snapshots /\ Len(analyses) < MaxAnalyses
  /\ analyses' = Append(analyses,
       [version |-> 1, status |-> "DRAFT", by |-> who, writers |-> {who},
        snapshot |-> Included, complete |-> complete, links |-> {}])
  /\ UNCHANGED <<findings, adjustments, differences, snapshots>>

(* A revision keeps its first preparer, whoever writes it, and the links of
   the older version; its writers are in the audit log only. *)
AnalysisRevise(who, n, complete) ==
  /\ Executable /\ Included \in snapshots /\ analyses[n].status \in Drafts
  /\ AnalysisBecomes(n, [analyses[n] EXCEPT !.status = "DRAFT", !.snapshot = Included,
                                            !.complete = complete,
                                            !.writers = @ \cup {who}])

AnalysisLink(n, family) ==
  LET row == analyses[n]
  IN /\ Executable /\ row.status \in Drafts /\ Linkable(family, row.links)
     /\ AnalysisBecomes(n, [row EXCEPT !.links = Relinked(family, @, row.version + 1)])

(* Unlinking asks nothing of the status, and leaves the review under rework. *)
AnalysisUnlink(n, link) ==
  /\ Executable
  /\ AnalysisBecomes(n, [analyses[n] EXCEPT !.links = @ \ {link},
                                            !.status = "UNDER_REWORK"])

WellEvidenced(n, version) ==
  /\ analyses[n].links # {} /\ AllLatest(analyses[n].links)
  /\ AllAdequate(analyses[n].links)
  /\ \A l \in analyses[n].links : l.target = version

AnalysisSubmit(who, n) ==
  LET row == analyses[n]
  IN /\ Executable /\ row.status \in Drafts /\ row.snapshot = Included
     /\ row.complete /\ WellEvidenced(n, row.version)
     /\ AnalysisBecomes(n, [row EXCEPT !.status = "SUBMITTED"])
     /\ Submit([Submission("ANALYTICAL_REVIEW", n, row.version + 1, who, {row.by})
                  EXCEPT !.pins = Pins(row.links)])
     /\ UNCHANGED notes

(* A reviewer does not look at the statements again: the SRM does. *)
AnalysisReview(who, s, decision) ==
  LET n == submissions[s].item
  IN /\ Executable /\ submissions[s].kind = "ANALYTICAL_REVIEW"
     /\ analyses[n].status = "SUBMITTED" /\ analyses[n].version = submissions[s].target
     /\ Decided(s, decision, who)
     /\ decision = "ACCEPT" => /\ WellEvidenced(n, submissions[s].content)
                               /\ Pins(analyses[n].links) = submissions[s].pins
     /\ AnalysisBecomes(n, [analyses[n] EXCEPT !.status =
          IF decision = "ACCEPT" THEN "REVIEWED" ELSE "UNDER_REWORK"])
     /\ NoteUnlessAccepted(s, decision)

(* Mutant: a reviewed analysis is settled, whatever statements it is of. *)
AnalysisAccepted(n) ==
  /\ analyses[n].status = "REVIEWED" /\ AllLatest(analyses[n].links)
  /\ AcceptedAt("ANALYTICAL_REVIEW", n, analyses[n].version - 1)

(* What an SRM demands of each analytical review, and of each adjustment. *)
AnalysisSettled(n) ==
  /\ analyses[n].status = "REVIEWED" /\ analyses[n].snapshot = Included
  /\ AllLatest(analyses[n].links)
  /\ \E s \in DOMAIN submissions :
       /\ submissions[s].kind = "ANALYTICAL_REVIEW" /\ submissions[s].item = n
       /\ submissions[s].target + 1 = analyses[n].version
       /\ submissions[s].decision = "ACCEPT"
       /\ submissions[s].pins = Pins(analyses[n].links)
       /\ \A l \in analyses[n].links : l.target = submissions[s].content

AdjustmentSettled(a) ==
  /\ adjustments[a].status = "REVIEW_APPROVED"
  /\ adjustments[a].pins # {} /\ Verified(a)

StatementsReady ==
  /\ \A n \in DOMAIN analyses : AnalysisSettled(n)
  /\ \A a \in DOMAIN adjustments : AdjustmentSettled(a)

(***************************************************************************)
(* The commands of this module that leave reviews alone, and those that do *)
(* not.                                                                    *)
(***************************************************************************)
FindingNext ==
  \/ \E who \in Staff :
       FindingCreate(who) \/ \E f \in DOMAIN findings : FindingResolve(who, f)
  \/ \E f \in DOMAIN findings : FindingRespond(f)

AdjustmentNext ==
  \/ \E who \in Staff :
       \/ \E finding \in 0..Len(findings), families \in SUBSET Families :
            AdjustmentCreate(who, finding, families)
       \/ \E a \in DOMAIN adjustments : AdjustmentApprove(who, a)
       \/ \E complete \in BOOLEAN :
            \/ AnalysisDraft(who, complete)
            \/ \E n \in DOMAIN analyses : AnalysisRevise(who, n, complete)
  \/ \E f \in DOMAIN findings, significant \in BOOLEAN, disposition \in Dispositions,
        a \in 0..Len(adjustments) :
       DifferenceCreate(f, significant, disposition, a)
  \/ \E a \in DOMAIN adjustments :
       \/ AdjustmentPropose(a)
       \/ \E answer \in {"CLIENT_ACCEPTED", "CLIENT_DECLINED"} : AdjustmentRespond(a, answer)
  \/ StatementSnapshot

StatementLinkNext ==
  \/ \E f \in DOMAIN findings :
       \/ \E family \in Families : FindingLink(f, family)
       \/ \E link \in findings[f].links : FindingUnlink(f, link)
  \/ \E n \in DOMAIN analyses :
       \/ \E family \in Families : AnalysisLink(n, family)
       \/ \E link \in analyses[n].links : AnalysisUnlink(n, link)

AnalysisReviewNext ==
  \E who \in Staff :
    \/ \E n \in DOMAIN analyses : AnalysisSubmit(who, n)
    \/ \E s \in DOMAIN submissions, decision \in {"ACCEPT", "RETURN"} :
         AnalysisReview(who, s, decision)

(***************************************************************************)
(* What SRM and approval are to find settled (see Fieldwork).  It is said  *)
(* of persons, evidence and statements, not of rows and hashes.            *)
(***************************************************************************)
Settled ==
  /\ \A a \in DOMAIN adjustments :
       /\ adjustments[a].approver \notin {Nobody, adjustments[a].by}
       /\ adjustments[a].pins # {}
       /\ \A pin \in adjustments[a].pins :
            IsLatest(pin) /\ Adequacy(pin) = "ADEQUATE" /\ pin.standing
  /\ \A d \in DOMAIN differences :
       differences[d].disposition = "ADJUSTED" => differences[d].adjustment \in Included
  /\ \A n \in DOMAIN analyses :
       /\ analyses[n].snapshot = Included /\ analyses[n].links # {}
       /\ AllLatest(analyses[n].links) /\ AllAdequate(analyses[n].links)
       /\ \E s \in DOMAIN submissions :
            /\ submissions[s].kind = "ANALYTICAL_REVIEW" /\ submissions[s].item = n
            /\ submissions[s].decision = "ACCEPT"
            /\ submissions[s].target + 1 = analyses[n].version
            /\ submissions[s].reviewer # analyses[n].by
=============================================================================
