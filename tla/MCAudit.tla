------------------------------ MODULE MCAudit ------------------------------
(***************************************************************************)
(* An engagement from its fieldwork to the release of its report.  As      *)
(* before the fieldwork (MCEngagement), it is explored part by part, each  *)
(* from a state the part before it ends in:                                *)
(*   WORK     one procedure from its provision to the Manager              *)
(*   STEPS    a workprogram that grows, in both risk bands                 *)
(*   SAMPLE   a procedure that was written up, with a sample of its own,   *)
(*            from the plan to the Manager                                 *)
(*   HANDED   what happens to a reviewed area until the Partner's approval *)
(*   CONFIRM  confirmations while a reviewed area waits for its Manager    *)
(*   ADJUST   a cleared area whose statements are adjusted and analysed,   *)
(*            until the SRM is cleared                                     *)
(*   FIND     a cleared area with findings and their differences           *)
(*   RELEASE  an approval whose fieldwork rests                            *)
(*   DRIFT    an approval whose fieldwork is worked on                     *)
(***************************************************************************)
EXTENDS Release

CONSTANTS Parts, p, m, w, x

VARIABLE part  \* which part of the execution the behaviour explores

OneStep == <<w>>

(* One procedure, written by m on one piece of evidence and accepted by p,
   and the workprogram that was submitted with it and accepted. *)
Pin == [family |-> "f", version |-> 1, adequacy |-> "ADEQUATE"]
Written == [version |-> 5, status |-> "REVIEWED", applicable |-> TRUE,
            executed |-> m, editors |-> {m}, pins |-> {Pin},
            links |-> {[family |-> "f", version |-> 1, target |-> 3]}]
Reviewed(s) == [s EXCEPT !.decision = "ACCEPT", !.reviewer = p]
Accepted == <<Reviewed([Submission("PROCEDURE", w, 4, m, {m}) EXCEPT !.pins = {Pin}]),
              Reviewed([Submission("WORKPROGRAM", 1, 2, m, {m})
                          EXCEPT !.versions = [s \in {w} |-> 5]])>>
Area(status, version) == [status |-> status, version |-> version, band |-> "GREEN",
                          assigned |-> m, steps |-> OneStep]
Assessed == <<[version |-> 3, status |-> "REVIEWED", by |-> m]>>
Compiled == [by |-> m, clearedBy |-> p,
             inputs |-> [program |-> 4, versions |-> [s \in {w} |-> 5], going |-> 1,
                         submitted |-> 3, noted |-> 0, adjusted |-> 0, differing |-> 0,
                         found |-> <<2>>, analysed |-> <<>>]]

Evidenced == [f \in Families |-> IF f = "f" THEN <<[by |-> p, adequacy |-> "ADEQUATE"]>>
                                 ELSE <<>>]

(* A procedure was written up on adequate evidence and waits for its sample. *)
SampleStart ==
  /\ evidence = Evidenced /\ submissions = <<>> /\ notes = <<>>
  /\ program = [Area("IN_PROGRESS", 1) EXCEPT !.steps = OneStep]
  /\ procedures = [s \in {w} |->
       [Written EXCEPT !.version = 2, !.status = "IN_PROGRESS",
          !.links = {[family |-> "f", version |-> 1, target |-> 2]}]]
  /\ assessments = <<>> /\ clearances = {} /\ srms = <<>>
  /\ SamplingInit /\ StatementsInit

(* The fieldwork has gone up to the review of the area, to its clearance, or
   to the approval. *)
FieldworkDone(cleared, approved) ==
  /\ evidence = Evidenced /\ SamplingInit /\ notes = <<>>
  /\ procedures = [s \in {w} |-> Written]
  /\ IF cleared
     THEN /\ program = Area("PARTNER_CLEARED", 4) /\ assessments = Assessed
          /\ submissions = Append(Accepted, Reviewed(Submission("GOING_CONCERN", 1, 2, m, {m})))
          /\ clearances = {[s \in {w} |-> 5]}
     ELSE /\ program = Area("REVIEWED", 3) /\ submissions = Accepted
          /\ assessments = <<>> /\ clearances = {}
  /\ srms = IF approved THEN <<Compiled>> ELSE <<>>
  /\ IF approved
     THEN /\ findings = <<[version |-> 2, status |-> "RESPONDED", by |-> m, links |-> {}]>>
          /\ adjustments = <<>> /\ differences = <<>> /\ analyses = <<>>
          /\ snapshots = {{}}
     ELSE StatementsInit

Approval == part \in {"RELEASE", "DRIFT"}
Cleared == part \in {"ADJUST", "FIND"}

Init ==
  /\ part \in Parts
  /\ ConfirmationsInit /\ ReleaseInit
  /\ CASE part \in {"WORK", "STEPS"} -> FieldworkInit
       [] part = "SAMPLE" -> SampleStart
       [] OTHER -> FieldworkDone(Approval \/ Cleared, Approval)
  /\ stage = IF Approval THEN "PARTNER_APPROVAL"
             ELSE IF Cleared THEN "MANAGERIAL_REVIEW" ELSE "FIELDWORK_EXECUTION"

Next ==
  /\ UNCHANGED part
  /\ \/ /\ part \in {"WORK", "STEPS", "SAMPLE", "HANDED"} /\ UNCHANGED releaseVars
        /\ \/ EvidenceNext \/ ProcedureNext \/ ReviewNext \/ HandoverNext
           \/ part = "SAMPLE" /\ SampleNext
     \/ /\ Cleared /\ UNCHANGED releaseVars
        /\ EvidenceNext \/ StatementNext \/ ReviewNext \/ HandoverNext
     \/ /\ part = "CONFIRM" /\ UNCHANGED fieldVars
        /\ \/ ConfirmationsNext /\ UNCHANGED releaseVars
           \/ /\ \E who \in Staff : HandoverToManager(who)
              /\ UNCHANGED <<confirmationVars, releaseVars>>
     \/ /\ part = "RELEASE"
        /\ \/ ReleaseNext /\ UNCHANGED <<fieldVars, confirmationVars>>
           \/ ConfirmationsNext /\ UNCHANGED <<fieldVars, releaseVars>>
           \/ /\ FindingNext
              /\ UNCHANGED <<stage, evidence, reviewVars, areaVars, samplingVars,
                             confirmationVars, releaseVars>>
     \/ /\ part = "DRIFT"
        /\ \/ EvidenceNext /\ UNCHANGED releaseVars
           \/ ReleaseNext /\ UNCHANGED <<fieldVars, confirmationVars>>

Spec == Init /\ [][Next]_<<part, stage, confirmationVars, fieldVars, releaseVars>>

(* Bounds by part.  In SAMPLE the policy and the population are made before
   anything else moves.  In RELEASE nothing follows a rendering that failed
   for good (but that of a bundle), a confirmation is drawn up only once there
   is a bundle it can stop, and what follows a release is explored for the
   releases on the first day. *)
Reaches(version, submitted, assessed) ==
  /\ \A s \in DOMAIN procedures : procedures[s].version <= version
  /\ Len(submissions) <= submitted /\ Len(assessments) <= assessed
OneVersion == \A f \in Families : Len(evidence[f]) <= 1
OneFamily == \A f \in Families : f # "f" => evidence[f] = <<>>
Rests == evidence = Evidenced

Bounded ==
  /\ ~Cleared => OneFamily
  /\ part = "WORK" => /\ Reaches(6, 3, 0) /\ OneVersion /\ x \notin DOMAIN procedures
                      /\ program.band = "GREEN"
  /\ part = "STEPS" => Reaches(3, 2, 0) /\ OneVersion
  /\ part = "SAMPLE" => /\ Reaches(5, 2, 0) /\ x \notin DOMAIN procedures
                        /\ policy # "RETIRED"
                        /\ \A n \in DOMAIN plans :
                             plans[n].evaluation.result # "COMPLETED_NONSTATISTICAL"
                        /\ (\A n \in DOMAIN plans : plans[n].procedure = Nobody)
                             => Rests /\ Reaches(2, 0, 0)
  /\ part = "HANDED" => Reaches(9, 4, 1)
  /\ part \in {"SAMPLE", "HANDED"} => (Len(evidence["f"]) = 2 => evidence["f"][2].by = m)
  /\ part = "CONFIRM" => Cardinality(holdingLetters) <= 1
  /\ Cleared => /\ Reaches(5, 4, 1) /\ evidence["f"] = Evidenced["f"]
                /\ evidence["g"] \in Seq([by : {m}, adequacy : Adequacies])
                /\ Len(evidence["g"]) <= 1
                /\ \A a \in DOMAIN adjustments :
                     /\ adjustments[a].by = m
                     /\ \A pin \in adjustments[a].pins : pin.family = "g"
                /\ \A s \in DOMAIN submissions : submissions[s].kind # "SRM"
                /\ \A s \in DOMAIN srms : srms[s].clearedBy = Nobody
  /\ part = "ADJUST" =>
       /\ findings = <<>>
       /\ \A a \in DOMAIN adjustments : adjustments[a].pins = {} => analyses = <<>>
       /\ \A n \in DOMAIN analyses :
            /\ analyses[n].by = m
            /\ analyses[n].version <= IF analyses[n].complete THEN 6 ELSE 2
  /\ part = "FIND" => /\ analyses = <<>> /\ (srms = <<>> => snapshots = {})
                      /\ \A f \in DOMAIN findings :
                           findings[f].version <= 3 /\ findings[f].by = m
  /\ part = "DRIFT" => /\ Reaches(6, 3, 1) /\ OneVersion /\ Len(findings) <= 1
                       /\ reports = <<>> /\ letters = <<>> /\ requests = <<>>
  /\ part = "RELEASE" =>
       /\ draft.complete \/ draft.status = "NONE"
       /\ \A r \in DOMAIN reports : reports[r].status # "FAILED"
       /\ \A l \in DOMAIN letters : letters[l].status # "FAILED"
       /\ \A q \in DOMAIN requests : requests[q].status # "FAILED"
       /\ \A c \in DOMAIN confirmations :
            confirmations[c].critical /\ confirmations[c].creator = m
       /\ Len(confirmations) <= 1 /\ (confirmations # <<>> => Len(bundles) = 1)
       /\ Frozen => today = 1 /\ route = 1 /\ confirmations = <<>> /\ Len(reports) = 1
=============================================================================
