------------------------------ MODULE Directory ------------------------------
(***************************************************************************)
(* The members of staff of the firm and the profiles people act under      *)
(* (worker/business.ts).  The commands are those of an active APPROVER.    *)
(***************************************************************************)
EXTENDS Clients

CONSTANTS
  Grades,         (* some of PARTNER, MANAGER, SENIOR and ASSOCIATE        *)
  MaxStaff, MaxProfiles   (* bounds                                        *)

ASSUME DirectoryAssumption ==
  /\ "PARTNER" \in Grades
  /\ MaxStaff \in Nat \ {0} /\ MaxProfiles \in Nat \ {0}

VARIABLE
  staff           \* the grades of staff_members, nobody of whom ever leaves

----
Personas == {"PREPARER", "REVIEWER", "APPROVER", "CLIENT"}
Profile(persona, of) == [persona |-> persona, of |-> of, active |-> TRUE]
GradeFits(persona, grade) ==
  /\ persona = "APPROVER" => grade = "PARTNER"
  /\ persona = "REVIEWER" => grade \in {"MANAGER", "SENIOR"}
Approvers == {a \in DOMAIN profiles : profiles[a].persona = "APPROVER" /\ profiles[a].active}

StaffCreate(grade) ==
  /\ Len(staff) < MaxStaff
  /\ staff' = Append(staff, grade)
  /\ UNCHANGED clientVars

(* A grade does not change below a profile that needs it. *)
GradeIsFree(s, grade) ==
  \A a \in DOMAIN profiles :
    profiles[a].persona # "CLIENT" /\ profiles[a].of = s /\ profiles[a].active =>
      GradeFits(profiles[a].persona, grade)

StaffUpdate(s, grade) ==
  /\ GradeIsFree(s, grade)
  /\ staff' = [staff EXCEPT ![s] = grade]
  /\ UNCHANGED clientVars

ProfileAssign(persona, x) ==
  /\ Len(profiles) < MaxProfiles
  /\ IF persona = "CLIENT" THEN ActiveContact(x)
     ELSE x \in DOMAIN staff /\ GradeFits(persona, staff[x])
  /\ profiles' = Append(profiles, Profile(persona, x))
  /\ UNCHANGED <<directory, runs, engagements, staff>>

(* The last approver stays. *)
Dispensable(a) == profiles[a].persona = "APPROVER" => Cardinality(Approvers) > 1

ProfileDeactivate(a) ==
  /\ profiles[a].active
  /\ Dispensable(a)
  /\ profiles' = [profiles EXCEPT ![a].active = FALSE]
  /\ UNCHANGED <<directory, runs, engagements, staff>>

----
(* The workspace is set up by its first partner. *)
DirectoryInit ==
  /\ staff = <<"PARTNER">>
  /\ profiles = <<Profile("APPROVER", 1)>>

DirectoryNext ==
  \/ \E grade \in Grades :
       \/ StaffCreate(grade)
       \/ \E s \in DOMAIN staff : StaffUpdate(s, grade)
  \/ \E persona \in Personas :
       \E x \in IF persona = "CLIENT" THEN DOMAIN contacts ELSE DOMAIN staff : ProfileAssign(persona, x)
  \/ \E a \in DOMAIN profiles : ProfileDeactivate(a)

----
DirectoryTypeOK ==
  /\ \A s \in DOMAIN staff : staff[s] \in Grades
  /\ \A a \in DOMAIN profiles :
       /\ profiles[a].persona \in Personas /\ profiles[a].active \in BOOLEAN
       /\ profiles[a].of \in IF profiles[a].persona = "CLIENT" THEN DOMAIN contacts ELSE DOMAIN staff

(* However grades and profiles change, somebody can approve, and whoever    *)
(* approves or reviews has the grade for it.                                *)
ApproversRemain ==
  /\ Approvers # {}
  /\ \A a \in DOMAIN profiles :
       profiles[a].active /\ profiles[a].persona # "CLIENT" =>
         GradeFits(profiles[a].persona, staff[profiles[a].of])
================================================================================
