---------------------------- MODULE MCEngagement ----------------------------
(***************************************************************************)
(* An engagement up to its fieldwork: the parts of it whose tables do not  *)
(* meet are explored one by one, each from a state the others may leave it *)
(* in, and they all speak of one stage.                                    *)
(***************************************************************************)
EXTENDS Acceptance, Planning, Integers

CONSTANTS Parts, partner, manager

ASSUME PreparedAssumption ==
  /\ partner \in Partners /\ manager \in Managers
  /\ {"PLANNING", "FIELDWORK"} \subseteq Phases
  /\ DayMinutes >= 2 /\ LastDate >= 1 /\ MaxVersion >= 1
  /\ Rows >= 1 /\ MaxImports >= 2

VARIABLE part  \* which part of the engagement the behaviour explores

planVars == <<importVars, sourceVars, pbc, scheduleVars>>
keyVars == <<revision, risk, clearance, acceptances, paper>>

(* What planning starts from in the part PLAN: the least staff a plan needs,
   a cutoff, and two files that were imported. *)
Assigned(staff, persona, phase) ==
  [staff |-> staff, persona |-> persona, phase |-> phase, minutes |-> 1]
Prepared == [rows |-> 1, nonzero |-> {1}, valid |-> TRUE, staged |-> {1},
             status |-> "READY"]

StaffedInit ==
  /\ availability = [s \in Staff |-> [version |-> 1, scheduled |-> 2, leave |-> {}]]
  /\ exceptions = [s \in Staff |-> 0]
  /\ assignments = {Assigned(manager, "PREPARER", "FIELDWORK"),
                    Assigned(manager, "REVIEWER", "FIELDWORK"),
                    Assigned(partner, "APPROVER", "PLANNING")}
  /\ milestones = [c \in Codes |-> IF c = "STATUTORY_CUTOFF"
                                   THEN [version |-> 1, date |-> 1] ELSE Unset]

Init ==
  /\ part \in Parts
  /\ AcceptanceInit
  /\ IF part = "PLAN" THEN StaffedInit ELSE StaffingInit
  /\ PlanningInit(IF part = "PLAN" THEN <<Prepared, Prepared>> ELSE <<>>)
  /\ stage = IF part = "KEYS" THEN "PROPOSAL_GENERATION" ELSE "PORTAL_ACTIVE_PLANNING"

Next ==
  /\ UNCHANGED part
  /\ \/ part = "KEYS" /\ AcceptanceNext /\ UNCHANGED planVars
     \/ part = "STAFF" /\ CapacityNext
        /\ UNCHANGED <<stage, keyVars, importVars, sourceVars, pbc>>
     \/ part = "DATES" /\ MilestoneNext
        /\ UNCHANGED <<stage, keyVars, importVars, sourceVars, pbc>>
     \/ part = "IMPORT" /\ (ImportNext \/ \E i \in DOMAIN imports : TbActivate(i))
        /\ UNCHANGED <<stage, keyVars, pbc, scheduleVars>>
     \/ part = "PLAN" /\ PlanningNext /\ UNCHANGED keyVars

Spec == Init /\ [][Next]_<<part, stage, keyVars, planVars>>

(* Bounds by part: the schedule of a plan changes once, after a plan was
   compiled, and a request is open before the first activation or after a
   plan was compiled. *)
ScheduleChanges ==
  Cardinality({s \in Staff : availability[s].version > 1})
  + Cardinality({s \in Staff : exceptions[s] > 0})
  + Cardinality({c \in Codes : milestones[c].version > 1})
  + milestones["DRAFT_REPORT"].version + Cardinality(assignments) - 3

Bounded ==
  /\ part = "STAFF" => Cardinality(assignments) <= 2
  /\ part = "PLAN" =>
       /\ ScheduleChanges <= IF plans = <<>> THEN 0 ELSE 1
       /\ active.tb = None \/ plans # <<>> \/ AllApproved(pbc)

(* Every part keeps the types of its state. *)
TypeOK == AcceptanceTypeOK /\ PlanningTypeOK
=============================================================================
