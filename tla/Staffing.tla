------------------------------ MODULE Staffing ------------------------------
(***************************************************************************)
(* The schedule of one engagement (worker/businessPlanning.ts): the        *)
(* minutes a member of staff works on a day, the leave approved against    *)
(* them, the capacity exceptions a Partner grants, the assignments the     *)
(* minutes are spent on, and the milestones with their statutory cutoff.   *)
(*                                                                         *)
(* Every handler checks and writes under the workspace's audit head (see   *)
(* CommandBus), so a command is one step.  One work date stands for all:   *)
(* every guard sums over one member of staff and one date.                 *)
(***************************************************************************)
EXTENDS Lifecycle, FiniteSets, Functions

CONSTANTS
  Partners, Managers, Seniors,  \* the staff, by grade
  Suggested,                    \* the milestones milestone.applyDefaults sets
  Phases,                       \* the phases staff are assigned to
  DayMinutes,                   \* the minutes of a day (1440 in the code)
  LastDate,                     \* the last date a milestone may have
  MaxVersion,                   \* bound on the versions of a row
  MaxAssignments                \* bound on the assignments

ASSUME GradesAreDisjoint ==
  /\ Partners \cap Managers = {} /\ Partners \cap Seniors = {}
  /\ Managers \cap Seniors = {}
ASSUME ScheduleBounds ==
  /\ DayMinutes \in Nat /\ LastDate \in Nat
  /\ MaxVersion \in Nat /\ MaxAssignments \in Nat
  /\ Suggested \subseteq {"FIELDWORK_START", "DRAFT_REPORT", "FINAL_REPORT"}

VARIABLES
  availability,  \* staff_availability of the day, per member of staff
  exceptions,    \* approved capacity_exceptions of the day, in minutes
  assignments,   \* engagement_assignments with their day
  milestones     \* milestones of the engagement, per code

scheduleVars == <<availability, exceptions, assignments, milestones>>

Staff    == Partners \cup Managers \cup Seniors
Personas == {"PREPARER", "REVIEWER", "APPROVER"}
Minutes  == 0..DayMinutes - 1
Reports  == Suggested \ {"FIELDWORK_START"}
Codes    == Suggested \cup {"STATUTORY_CUTOFF"}

Unrecorded == [version |-> 0, scheduled |-> 0, leave |-> {}]
Unset      == [version |-> 0, date |-> 0]

StaffingTypeOK ==
  /\ availability \in [Staff -> [version : 0..MaxVersion,
                                 scheduled : 0..DayMinutes,
                                 leave : SUBSET Minutes]]
  /\ exceptions \in [Staff -> 0..DayMinutes]
  /\ assignments \subseteq [staff : Staff, persona : Personas,
                            phase : Phases, minutes : 1..DayMinutes]
  /\ milestones \in [Codes -> [version : 0..MaxVersion, date : 0..LastDate]]

StaffingInit ==
  /\ availability = [s \in Staff |-> Unrecorded]
  /\ exceptions = [s \in Staff |-> 0]
  /\ assignments = {}
  /\ milestones = [c \in Codes |-> Unset]

-----------------------------------------------------------------------------
(* The capacity of a day and the load put on it. *)

Recorded(s) == availability[s].version > 0
Load(s)     == SumFunction([a \in {b \in assignments : b.staff = s} |-> a.minutes])
Capacity(s) == availability[s].scheduled + exceptions[s]
Overloaded(s) == Load(s) + Cardinality(availability[s].leave) > Capacity(s)

MayHold(s, persona) ==
  /\ persona = "APPROVER" => s \in Partners
  /\ persona = "REVIEWER" => s \in Managers \cup Seniors

(* staffing.availability.set: the new schedule must cover the leave and,
   with the exceptions, the load. *)
AvailabilitySet(s, minutes) ==
  LET row == availability[s] IN
  /\ row.version < MaxVersion
  /\ Cardinality(row.leave) <= minutes
  /\ Load(s) + Cardinality(row.leave) <= minutes + exceptions[s]
  /\ availability' = [availability EXCEPT ![s].version = @ + 1,
                                          ![s].scheduled = minutes]
  /\ UNCHANGED <<exceptions, assignments, milestones>>

(* staffing.leave.record: a Partner approves another's leave; intervals do
   not overlap and the leave fits the schedule.  The load is not read. *)
LeaveRecord(by, s, interval) ==
  LET row == availability[s] IN
  /\ by # s
  /\ Recorded(s) /\ row.version < MaxVersion
  /\ interval \cap row.leave = {}
  /\ Cardinality(interval) + Cardinality(row.leave) <= row.scheduled
  /\ availability' = [availability EXCEPT ![s].version = @ + 1,
                                          ![s].leave = @ \cup interval]
  /\ UNCHANGED <<exceptions, assignments, milestones>>

(* Mutant: an exception is granted whatever the day holds. *)
ExceptionApproveUnbounded(s, minutes) ==
  /\ Recorded(s)
  /\ exceptions' = [exceptions EXCEPT ![s] = @ + minutes]
  /\ UNCHANGED <<availability, assignments, milestones>>

(* staffing.capacityException.approve *)
ExceptionApprove(s, minutes) ==
  /\ Recorded(s)
  /\ exceptions[s] + minutes <= DayMinutes
  /\ exceptions' = [exceptions EXCEPT ![s] = @ + minutes]
  /\ UNCHANGED <<availability, assignments, milestones>>

(* Mutant: the leave of the day is not read. *)
AssignBesideLeave(s, persona, phase, minutes) ==
  LET a == [staff |-> s, persona |-> persona, phase |-> phase, minutes |-> minutes] IN
  /\ stage \in {"PORTAL_ACTIVE_PLANNING", "FIELDWORK_EXECUTION"}
  /\ Cardinality(assignments) < MaxAssignments /\ a \notin assignments
  /\ MayHold(s, persona) /\ Recorded(s) /\ minutes + Load(s) <= Capacity(s)
  /\ assignments' = assignments \cup {a}
  /\ UNCHANGED <<availability, exceptions, milestones>>

(* staffing.assign, while planning or fieldwork lasts *)
Assign(s, persona, phase, minutes) ==
  LET a == [staff |-> s, persona |-> persona, phase |-> phase,
            minutes |-> minutes] IN
  /\ stage \in {"PORTAL_ACTIVE_PLANNING", "FIELDWORK_EXECUTION"}
  /\ Cardinality(assignments) < MaxAssignments
  /\ a \notin assignments
  /\ MayHold(s, persona)
  /\ Recorded(s)
  /\ minutes + Load(s) + Cardinality(availability[s].leave) <= Capacity(s)
  /\ assignments' = assignments \cup {a}
  /\ UNCHANGED <<availability, exceptions, milestones>>

-----------------------------------------------------------------------------
(* Milestones. *)

Cutoff == milestones["STATUTORY_CUTOFF"]
Dated(row, date) == [version |-> row.version + 1, date |-> date]

(* Mutant: the cutoff is needed, its date is not compared. *)
WithinAnyCutoff(code, date) == code \in Reports => Cutoff.version > 0

(* A report milestone needs the cutoff and may not follow it. *)
Within(code, date) ==
  code \in Reports => Cutoff.version > 0 /\ date <= Cutoff.date

(* milestone.set: nor may the cutoff be moved before a report milestone. *)
MilestoneSet(code, date) ==
  /\ milestones[code].version < MaxVersion
  /\ Within(code, date)
  /\ code = "STATUTORY_CUTOFF" =>
       \A r \in Reports : milestones[r].version > 0 =>
                            milestones[r].date <= date
  /\ milestones' = [milestones EXCEPT ![code] = Dated(@, date)]
  /\ UNCHANGED <<availability, exceptions, assignments>>

(* milestone.applyDefaults: each suggestion is applied, preserved or
   skipped on its own. *)
MilestoneApplyDefaults(dates, overwrite) ==
  LET applied == {c \in Suggested : /\ milestones[c].version = 0 \/ overwrite
                                    /\ Within(c, dates[c])} IN
  /\ \A c \in applied : milestones[c].version < MaxVersion
  /\ milestones' = [c \in Codes |-> IF c \in applied
                                    THEN Dated(milestones[c], dates[c])
                                    ELSE milestones[c]]
  /\ UNCHANGED <<availability, exceptions, assignments>>

Intervals == {i..j : i \in Minutes, j \in Minutes} \ {{}}

CapacityNext ==
  \/ \E s \in Staff, m \in 0..DayMinutes : AvailabilitySet(s, m)
  \/ \E by \in Partners, s \in Staff, i \in Intervals : LeaveRecord(by, s, i)
  \/ \E s \in Staff, m \in 1..DayMinutes : ExceptionApprove(s, m)
  \/ \E s \in Staff, p \in Personas, f \in Phases, m \in 1..DayMinutes :
       Assign(s, p, f, m)
MilestoneNext ==
  \/ \E c \in Codes, d \in 1..LastDate : MilestoneSet(c, d)
  \/ \E dates \in [Suggested -> 1..LastDate], o \in BOOLEAN :
       MilestoneApplyDefaults(dates, o)

-----------------------------------------------------------------------------
(* Properties. *)

(* Property: no schedule, assignment, exception or milestone command leaves a day
   with more work than its minutes less the leave plus what a Partner
   excepted: only leave approved on top of existing work can
   (businessPlanning.ts: assertions 93 and 96 are in every other path). *)
OnlyLeaveOverloads ==
  [][\A s \in Staff : Overloaded(s)' /\ ~Overloaded(s) =>
       availability'[s].leave # availability[s].leave]_scheduleVars

(* Property: a report milestone never stands without a statutory cutoff on or after
   it, whichever of the two is moved and by whichever command. *)
ReportsMeetTheCutoff ==
  \A r \in Reports : milestones[r].version > 0 =>
    Cutoff.version > 0 /\ milestones[r].date <= Cutoff.date
=============================================================================
