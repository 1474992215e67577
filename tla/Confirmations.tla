--------------------------- MODULE Confirmations ---------------------------
(***************************************************************************)
(* External confirmations (worker/businessFieldwork.ts): a request to a    *)
(* third party is drafted, queued, rendered and mailed by the outbox, its  *)
(* answer is recorded, and somebody else verifies it.  A critical one that *)
(* is not verified keeps fieldwork from its Manager and a report from its  *)
(* release.  Sources cannot change after planning (see Planning), so a     *)
(* confirmation is always pinned to the current ones.                      *)
(***************************************************************************)
EXTENDS Lifecycle, FiniteSets

CONSTANTS
  Partners, Managers, Seniors,  \* the staff, by grade
  Nobody,                       \* stands for no member of staff
  MaxConfirmations              \* bound on the confirmations

ASSUME StaffAreSomebody == Nobody \notin Partners \cup Managers \cup Seniors
ASSUME ConfirmationBound == MaxConfirmations \in Nat

VARIABLES
  confirmations,   \* the confirmations of the engagement, oldest first
  holdingLetters   \* the outstanding sets a holding letter was queued for

confirmationVars == <<confirmations, holdingLetters>>

Staff == Partners \cup Managers \cup Seniors

ConfirmationStatuses == {"DRAFT", "QUEUED", "SENT", "RETURNED_UNVERIFIED",
                         "RETURNED_VERIFIED", "CANCELLED"}
RequestStates == {"NONE", "RENDER", "EMAIL", "SENDING", "ACCEPTED", "DEAD"}

ConfirmationsTypeOK ==
  /\ confirmations \in Seq([critical : BOOLEAN, status : ConfirmationStatuses,
                            version : Nat, request : RequestStates,
                            creator : Staff, recorder : Staff \cup {Nobody},
                            verifier : Staff \cup {Nobody}])
  /\ \A outstanding \in holdingLetters :
       outstanding \subseteq (1..Len(confirmations)) \X Nat

Draft(who, critical) ==
  [critical |-> critical, status |-> "DRAFT", version |-> 1, request |-> "NONE",
   creator |-> who, recorder |-> Nobody, verifier |-> Nobody]

ConfirmationsInit == confirmations = <<>> /\ holdingLetters = {}

(* The stages in which an engagement's fieldwork can be worked on. *)
Executable == stage \in {"FIELDWORK_EXECUTION", "MANAGERIAL_REVIEW",
                         "PARTNER_APPROVAL", "DELIVERABLE_RELEASE",
                         "COMPLIANCE_COUNTDOWN"}

(* The critical confirmations that still stand in the way. *)
Blockers == {c \in DOMAIN confirmations :
               /\ confirmations[c].critical
               /\ confirmations[c].status \notin {"CANCELLED", "RETURNED_VERIFIED"}}

Step(c, from, to) ==
  /\ Executable
  /\ confirmations[c].status = from
  /\ confirmations' = [confirmations EXCEPT
       ![c] = [to EXCEPT !.version = @ + 1]]
  /\ UNCHANGED holdingLetters

ConfirmationCreate(who, critical) ==
  /\ Executable /\ Len(confirmations) < MaxConfirmations
  /\ confirmations' = Append(confirmations, Draft(who, critical))
  /\ UNCHANGED holdingLetters

ConfirmationDispatch(c) ==
  Step(c, "DRAFT", [confirmations[c] EXCEPT !.status = "QUEUED", !.request = "RENDER"])

ConfirmationRecord(who, c) ==
  Step(c, "SENT", [confirmations[c] EXCEPT !.status = "RETURNED_UNVERIFIED",
                                           !.recorder = who])

(* A confirmation is verified by somebody who neither drew it up nor took
   in its answer. *)
ConfirmationVerify(who, c) ==
  /\ who \notin {confirmations[c].creator, confirmations[c].recorder}
  /\ Step(c, "RETURNED_UNVERIFIED",
          [confirmations[c] EXCEPT !.status = "RETURNED_VERIFIED", !.verifier = who])

ConfirmationCancel(c) ==
  Step(c, "DRAFT", [confirmations[c] EXCEPT !.status = "CANCELLED"])

(* A Partner withdraws a confirmation at any point of its life, its request
   in the outbox or not, and may replace it by a fresh draft. *)
ConfirmationReassess(who, c, replacement) ==
  /\ who \in Partners /\ Executable
  /\ confirmations[c].status # "CANCELLED"
  /\ Len(confirmations) + Len(replacement) <= MaxConfirmations
  /\ confirmations' = [confirmations EXCEPT
       ![c] = [confirmations[c] EXCEPT !.status = "CANCELLED", !.version = @ + 1]] \o replacement
  /\ UNCHANGED holdingLetters

(***************************************************************************)
(* The two jobs of a request: the first renders the letter, the second     *)
(* mails it.  Each checks the confirmation when it runs and again when it  *)
(* commits, and dies when the confirmation left QUEUED in between.         *)
(***************************************************************************)
Job(c, from, to) ==
  /\ confirmations[c].request = from
  /\ confirmations' = [confirmations EXCEPT ![c].request =
       IF confirmations[c].status = "QUEUED" THEN to ELSE "DEAD"]
  /\ UNCHANGED holdingLetters

RequestRender(c) == Job(c, "RENDER", "EMAIL")
RequestMail(c)   == Job(c, "EMAIL", "SENDING")

(* The provider accepted the message and the job commits its acceptance. *)
RequestAccepted(c) ==
  LET row == confirmations[c]
  IN /\ row.request = "SENDING"
     /\ confirmations' = [confirmations EXCEPT ![c] =
          IF row.status = "QUEUED"
          THEN [row EXCEPT !.request = "ACCEPTED", !.status = "SENT", !.version = @ + 1]
          ELSE [row EXCEPT !.request = "DEAD"]]
     /\ UNCHANGED holdingLetters

(* The render or the send fails for good. *)
RequestFails(c) ==
  /\ confirmations[c].request \in {"RENDER", "EMAIL", "SENDING"}
  /\ confirmations' = [confirmations EXCEPT ![c].request = "DEAD"]
  /\ UNCHANGED holdingLetters

(* The attempt to pass a gate that critical confirmations bar: it queues one
   holding letter for each set of outstanding confirmations. *)
HoldingLetter ==
  /\ stage \in {"FIELDWORK_EXECUTION", "PARTNER_APPROVAL"} /\ Blockers # {}
  /\ holdingLetters' = holdingLetters \cup
       {{<<c, confirmations[c].version>> : c \in Blockers}}
  /\ UNCHANGED confirmations

ConfirmationsNext ==
  /\ UNCHANGED stage
  /\ \/ \E who \in Staff, critical \in BOOLEAN : ConfirmationCreate(who, critical)
     \/ HoldingLetter
     \/ \E c \in DOMAIN confirmations :
          \/ ConfirmationDispatch(c) \/ ConfirmationCancel(c)
          \/ RequestRender(c) \/ RequestMail(c) \/ RequestAccepted(c) \/ RequestFails(c)
          \/ \E who \in Staff :
               \/ ConfirmationRecord(who, c) \/ ConfirmationVerify(who, c)
               \/ ConfirmationReassess(who, c, <<>>)
               \/ \E critical \in BOOLEAN :
                    ConfirmationReassess(who, c, <<Draft(who, critical)>>)
=============================================================================
