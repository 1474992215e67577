------------------------------ MODULE BusinessFiles ------------------------------
(***************************************************************************)
(* The files of one engagement and the one request for evidence that its   *)
(* client answers with them: reservation, upload, staging, commitment and  *)
(* rejection of a file, submission and review of an answer, the minute     *)
(* cron's sweep of abandoned files, and the life of the engagement that    *)
(* these depend on.                                                        *)
(*                                                                         *)
(* A file is a row of the database and objects in the store, and no step   *)
(* changes both.  The commands are those of CommandBus: a builder reads    *)
(* rows and objects, then one batch checks its assertions again and        *)
(* writes, if the head of the audit chain is still the one it read.  The   *)
(* sweep and the cron's lock do not move the head, so between builder and  *)
(* batch they are held off by assertions alone.  Receipts and the replay   *)
(* of a key are left to CommandBus; a request that its first plan refuses  *)
(* changes nothing and is left out.                                        *)
(*                                                                         *)
(* The version of a row that is not REJECTED follows from its state (1     *)
(* INITIALIZED, 2 STAGED, 3 COMMITTED), so the state stands for both.      *)
(***************************************************************************)
EXTENDS Integers, FiniteSets, Sequences, SequencesExt

CONSTANTS
  Files,          (* ids of files                                          *)
  Purposes,       (* what files are reserved for                           *)
  Digests,        (* contents, by their SHA-256                            *)
  Requests,       (* invocations that serve a client or a member of staff  *)
  Sweepers,       (* overlapping invocations of the cron                   *)
  NoFile, NoDigest,
  MaxSweep,       (* MAX_FILES_PER_SWEEP, 200 in the code                  *)
  MaxObjects,     (* MAX_OBJECTS_PER_SWEEP, 200 in the code                *)
  MaxFaults       (* bound: calls of a sweep that fail                     *)

(* A client's answer to the request; staff's evidence of a payment, bound   *)
(* to a reservation for it; any other file of the staff.                    *)
AllPurposes == {"PBC", "PAYMENT", "STAFF"}

ASSUME PurposesAssumption == Purposes \subseteq AllPurposes
ASSUME NamesAssumption == NoFile \notin Files /\ NoDigest \notin Digests
ASSUME LimitsAssumption ==
  MaxSweep \in Nat \ {0} /\ MaxObjects \in Nat \ {0} /\ MaxFaults \in Nat

VARIABLES
  phase,          (* where the engagement is                               *)
  pbc,            (* the request: pbc_requests                             *)
  answers,        (* its pbc_submissions, each with its pbc_reviews        *)
  file,           (* rows of file_versions                                 *)
  order,          (* uncommitted rows by updated_at, the oldest first      *)
  aged,           (* as many of them are older than a day                  *)
  objects,        (* keys in the store: a file's prefix and a digest       *)
  receipts,       (* what command_receipts says became of a file           *)
  req,            (* what each request is doing                            *)
  fresh,          (* requests whose audit head is still current            *)
  sweep,          (* what each sweeper is doing                            *)
  faults          (* faults so far                                         *)

clock == <<order, aged>>
requestRows == <<pbc, answers>>
rows == <<requestRows, file, clock, receipts>>
vars == <<phase, rows, objects, req, fresh, sweep, faults>>

----
Phases == {"active", "frozen", "due", "locked", "sealed"}
States == {"ABSENT", "INITIALIZED", "STAGED", "COMMITTED", "REJECTED"}
Statuses == {"ABSENT", "PENDING_UPLOAD", "UNDER_REVIEW", "REJECTED_REUPLOAD_REQUIRED", "APPROVED"}

Ops == {"reserve", "stage", "commit", "reject", "create", "submit", "review"}

FileRows == [state : States, purpose : AllPurposes, digest : Digests \cup {NoDigest}, asked : Nat, prior : Files \cup {NoFile}]
PbcRows == [version : Nat, status : Statuses, current : Nat]
Answers == [file : Files, supersedes : Nat, decision : {"NONE", "APPROVE", "REJECT"}, reviewed : Digests \cup {NoDigest}]
Commands == [op : Ops, file : Files \cup {NoFile}, digest : Digests \cup {NoDigest}, seen : States,
            version : Nat, purpose : AllPurposes]
Candidates == [file : Files, seen : States]
Objects == Files \X Digests

Command(op, f, d, s, v, p) == [op |-> op, file |-> f, digest |-> d, seen |-> s, version |-> v, purpose |-> p]
NoCommand == Command("create", NoFile, NoDigest, "ABSENT", 0, "STAFF")
Done == [pc |-> "idle", command |-> NoCommand]
Asleep == [pc |-> "idle", todo |-> <<>>, budget |-> 0, keys |-> {}]

TypeOK ==
  /\ phase \in Phases
  /\ pbc \in PbcRows
  /\ answers \in Seq(Answers)
  /\ file \in [Files -> FileRows]
  /\ order \in Seq(Files)
  /\ aged \in 0..Len(order)
  /\ objects \subseteq Objects
  /\ receipts \subseteq Files \X States
  /\ req \in [Requests -> [pc : {"idle", "put", "plan", "batch"}, command : Commands]]
  /\ fresh \subseteq Requests
  /\ sweep \in [Sweepers -> [pc : {"idle", "row", "list", "delete"}, todo : Seq(Candidates),
                             budget : 0..MaxObjects, keys : SUBSET Objects]]
  /\ faults \in 0..MaxFaults

(* The client's portal is open and nothing was asked yet. *)
Init ==
  /\ phase = "active"
  /\ pbc = [version |-> 0, status |-> "ABSENT", current |-> 0]
  /\ answers = <<>>
  /\ file = [f \in Files |-> [state |-> "ABSENT", purpose |-> "STAFF", digest |-> NoDigest, asked |-> 0, prior |-> NoFile]]
  /\ order = <<>>
  /\ aged = 0
  /\ objects = {}
  /\ receipts = {}
  /\ req = [r \in Requests |-> Done]
  /\ fresh = {}
  /\ sweep = [w \in Sweepers |-> Asleep]
  /\ faults = 0

----
(* The engagement. *)

Locked == phase \in {"locked", "sealed"}

(* A release freezes the portal; the deadline of its archive passes; a      *)
(* Partner or the cron locks it; its archive is sealed.  Only the passing   *)
(* of time and the cron leave the head of the audit chain where it is.      *)
Release == phase = "active" /\ phase' = "frozen" /\ fresh' = {}
DeadlinePasses == phase = "frozen" /\ phase' = "due" /\ UNCHANGED fresh
PartnerLocks == phase \in {"frozen", "due"} /\ phase' = "locked" /\ fresh' = {}
CronLocks == phase = "due" /\ phase' = "locked" /\ UNCHANGED fresh
Seal == phase = "locked" /\ phase' = "sealed" /\ fresh' = {}

EngagementMoves ==
  /\ Release \/ DeadlinePasses \/ PartnerLocks \/ CronLocks \/ Seal
  /\ UNCHANGED <<rows, objects, req, sweep, faults>>

----
(* What commands may do. *)

Open == pbc.status \in {"PENDING_UPLOAD", "REJECTED_REUPLOAD_REQUIRED"}

(* assertFileEngagementWritable, asked when an upload or a plan begins. *)
EngagementWritable(purpose) ==
  /\ purpose = "PBC" => phase = "active"
  /\ purpose = "STAFF" => phase \in {"active", "frozen"}

(* A file of the client is bound to the version of the request it answers. *)
RequestCurrent(f) == file[f].purpose = "PBC" => Open /\ file[f].asked = pbc.version

Usable(f) == EngagementWritable(file[f].purpose) /\ RequestCurrent(f)

(* The file that an answer given now takes the place of. *)
Predecessor ==
  IF pbc.status = "REJECTED_REUPLOAD_REQUIRED" THEN answers[pbc.current].file ELSE NoFile

(* Mutant: any committed file of the request is an answer to it. *)
AnswersAnyVersion(f) == file[f].purpose = "PBC" /\ file[f].state = "COMMITTED"

(* The committed file reserved for this version of the request; when it     *)
(* takes the place of another, as the successor of that one.                *)
AnswersRequest(f) ==
  /\ file[f].purpose = "PBC"
  /\ file[f].state = "COMMITTED"
  /\ file[f].asked = pbc.version
  /\ Predecessor # NoFile => file[f].prior = Predecessor

(* What the builder of a command asks of the rows and of the store.  The    *)
(* object is read after the row; that no sweep comes between the two is no  *)
(* loss, since it could only make the builder refuse.                       *)
Admits(c) ==
  \/ c.op = "reserve" /\ EngagementWritable(c.purpose) /\ (c.purpose = "PBC" => Open /\ pbc.version = c.version)
  \/ /\ c.op \in {"stage", "commit"}
     /\ Usable(c.file)
     /\ file[c.file].state = c.seen
     /\ <<c.file, c.digest>> \in objects
  \/ c.op = "reject" /\ Usable(c.file) /\ file[c.file].state = c.seen
  \/ c.op = "create" /\ phase = "active" /\ pbc.status = "ABSENT"
  \/ c.op = "submit" /\ phase = "active" /\ Open /\ pbc.version = c.version /\ AnswersRequest(c.file)
  \/ /\ c.op = "review"
     /\ pbc.status = "UNDER_REVIEW"
     /\ pbc.version = c.version
     /\ file[answers[pbc.current].file].state = "COMMITTED"

(* Mutant: the batch relies on what the builder read of the file. *)
RowAssumed(c) == TRUE

(* The batch asserts that the row is still as the client knows it. *)
RowUnmoved(c) == file[c.file].state = c.seen

(* Mutant: the batch relies on the engagement that the builder read. *)
LockIgnored(purpose) == TRUE

(* Of a locked engagement only evidence of a payment is written. *)
Unlocked(purpose) == Locked => purpose = "PAYMENT"

(* The assertions 71 to 74 and 88 of the batch.  Staging asserts nothing of *)
(* the engagement unless the file answers a request; a review asserts       *)
(* nothing of it at all.  Other requests than the one here are left out.    *)
Asserted(c) ==
  \/ c.op = "reserve" /\ Unlocked(c.purpose) /\ (c.purpose = "PBC" => Open /\ pbc.version = c.version /\ phase = "active")
  \/ c.op = "stage" /\ RowUnmoved(c) /\ (file[c.file].purpose = "PBC" => RequestCurrent(c.file) /\ phase = "active")
  \/ /\ c.op = "commit"
     /\ RowUnmoved(c)
     /\ Unlocked(file[c.file].purpose)
     /\ file[c.file].purpose = "PBC" => RequestCurrent(c.file) /\ phase = "active"
  \/ c.op = "reject" /\ RowUnmoved(c)
  \/ c.op = "create" /\ phase = "active" /\ pbc.status = "ABSENT"
  \/ c.op = "submit" /\ phase = "active" /\ Open /\ pbc.version = c.version /\ AnswersRequest(c.file)
  \/ /\ c.op = "review"
     /\ pbc.status = "UNDER_REVIEW"
     /\ pbc.version = c.version
     /\ file[answers[pbc.current].file].state = "COMMITTED"

(* The triggers of migration 0026: of a sealed engagement only evidence of  *)
(* a payment is still reserved, staged and committed.                       *)
Permitted(c) ==
  phase = "sealed" =>
    \/ c.op = "reserve" /\ c.purpose = "PAYMENT"
    \/ c.op \in {"stage", "commit"} /\ file[c.file].purpose = "PAYMENT"

----
(* What commands do. *)

Position(f) == CHOOSE i \in DOMAIN order : order[i] = f

(* updated_at becomes now: the row is the youngest. *)
Touch(f) ==
  /\ order' = Append(RemoveAt(order, Position(f)), f)
  /\ aged' = IF Position(f) <= aged THEN aged - 1 ELSE aged

(* Mutant: the count of old rows is not kept up. *)
WithdrawMiscounted(f) == order' = RemoveAt(order, Position(f)) /\ UNCHANGED aged

(* A committed row is no business of the sweep any more. *)
Withdraw(f) ==
  /\ order' = RemoveAt(order, Position(f))
  /\ aged' = IF Position(f) <= aged THEN aged - 1 ELSE aged

Reserve(c) ==
  /\ file' = [file EXCEPT ![c.file] =
       [state |-> "INITIALIZED", purpose |-> c.purpose, digest |-> NoDigest,
        asked |-> IF c.purpose = "PBC" THEN c.version ELSE 0,
        prior |-> IF c.purpose = "PBC" THEN Predecessor ELSE NoFile]]
  /\ order' = Append(order, c.file)
  /\ UNCHANGED <<aged, requestRows, receipts>>

Outcome(c) == CASE c.op = "stage" -> "STAGED" [] c.op = "commit" -> "COMMITTED" [] OTHER -> "REJECTED"

(* The update names the state it expects; the receipt does not depend on    *)
(* whether it hit a row.                                                    *)
UpdateFile(c) ==
  /\ receipts' = receipts \cup {<<c.file, Outcome(c)>>}
  /\ IF file[c.file].state = c.seen
       THEN /\ file' = [file EXCEPT ![c.file].state = Outcome(c),
                                    ![c.file].digest = IF c.op = "stage" THEN c.digest ELSE @]
            /\ IF c.op = "commit" THEN Withdraw(c.file) ELSE Touch(c.file)
       ELSE UNCHANGED <<file, clock>>
  /\ UNCHANGED requestRows

CreateRequest ==
  /\ pbc' = [version |-> 1, status |-> "PENDING_UPLOAD", current |-> 0]
  /\ UNCHANGED <<answers, file, clock, receipts>>

Submit(c) ==
  /\ answers' = Append(answers, [file |-> c.file, supersedes |-> IF Predecessor = NoFile THEN 0 ELSE pbc.current,
                                 decision |-> "NONE", reviewed |-> NoDigest])
  /\ pbc' = [version |-> pbc.version + 1, status |-> "UNDER_REVIEW", current |-> Len(answers) + 1]
  /\ UNCHANGED <<file, clock, receipts>>

(* The review records the digest of the bytes that it was given for. *)
Review ==
  \E decision \in {"APPROVE", "REJECT"} :
    /\ answers' = [answers EXCEPT ![pbc.current].decision = decision,
                                  ![pbc.current].reviewed = file[answers[pbc.current].file].digest]
    /\ pbc' = [pbc EXCEPT !.version = @ + 1,
                          !.status = IF decision = "APPROVE" THEN "APPROVED" ELSE "REJECTED_REUPLOAD_REQUIRED"]
    /\ UNCHANGED <<file, clock, receipts>>

Effect(c) ==
  \/ c.op = "reserve" /\ Reserve(c)
  \/ c.op \in {"stage", "commit", "reject"} /\ UpdateFile(c)
  \/ c.op = "create" /\ CreateRequest
  \/ c.op = "submit" /\ Submit(c)
  \/ c.op = "review" /\ Review

----
(* Requests. *)

(* A new file has an id that no other has.  Which one it is makes no        *)
(* difference, so it is not left open.                                      *)
Unreserved == {f \in Files : file[f].state = "ABSENT" /\ \A r \in Requests : req[r].command.file # f}
NewFile == CHOOSE f \in Unreserved : TRUE

(* What may be asked with the versions that clients and staff see now. *)
Askable ==
  {Command("reserve", NewFile, NoDigest, "ABSENT", pbc.version, p) : p \in {q \in Purposes : Unreserved # {}}}
  \cup {Command("stage", o[1], o[2], "INITIALIZED", 0, "STAFF") : o \in objects}
  \cup {Command("commit", f, file[f].digest, "STAGED", 0, "STAFF") : f \in Files}
  \cup {Command("reject", f, NoDigest, s, 0, "STAFF") : f \in Files, s \in {"INITIALIZED", "STAGED"}}
  \cup {Command("submit", f, NoDigest, "COMMITTED", pbc.version, "PBC") : f \in Files}
  \cup {Command(op, NoFile, NoDigest, "ABSENT", pbc.version, "PBC") : op \in {"create", "review"}}

Planned(r, c) ==
  /\ req' = [req EXCEPT ![r] = [pc |-> "batch", command |-> c]]
  /\ fresh' = fresh \cup {r}

Begin(r) ==
  /\ req[r].pc = "idle"
  /\ \E c \in Askable : Admits(c) /\ Planned(r, c)
  /\ UNCHANGED <<phase, rows, objects, sweep, faults>>

(* The content of a file arrives: it is checked, then stored, then staged.  *)
Upload(r) ==
  /\ req[r].pc = "idle"
  /\ \E f \in Files, d \in Digests :
       /\ Usable(f)
       /\ file[f].state = "INITIALIZED"
       /\ req' = [req EXCEPT ![r] = [pc |-> "put", command |-> Command("stage", f, d, "INITIALIZED", 0, "STAFF")]]
  /\ UNCHANGED <<phase, rows, objects, fresh, sweep, faults>>

Put(r) ==
  /\ req[r].pc = "put"
  /\ objects' = objects \cup {<<req[r].command.file, req[r].command.digest>>}
  /\ req' = [req EXCEPT ![r].pc = "plan"]
  /\ UNCHANGED <<phase, rows, fresh, sweep, faults>>

(* The head is read, then the builder's statements are made. *)
Plan(r) ==
  /\ req[r].pc = "plan"
  /\ IF Admits(req[r].command)
       THEN Planned(r, req[r].command)
       ELSE req' = [req EXCEPT ![r] = Done] /\ UNCHANGED fresh
  /\ UNCHANGED <<phase, rows, objects, sweep, faults>>

Applies(r) == r \in fresh /\ Asserted(req[r].command) /\ Permitted(req[r].command)

Commit(r) ==
  /\ req[r].pc = "batch"
  /\ Applies(r)
  /\ Effect(req[r].command)
  /\ req' = [req EXCEPT ![r] = Done]
  /\ fresh' = {}
  /\ UNCHANGED <<phase, objects, sweep, faults>>

(* A batch that fails is planned again if the head has moved. *)
Refused(r) ==
  /\ req[r].pc = "batch"
  /\ ~Applies(r)
  /\ req' = [req EXCEPT ![r] = IF r \in fresh THEN Done ELSE [@ EXCEPT !.pc = "plan"]]
  /\ fresh' = fresh \ {r}
  /\ UNCHANGED <<phase, rows, objects, sweep, faults>>

(* The store refuses the bytes, or the invocation ends before its work. *)
Die(r) ==
  /\ req[r].pc # "idle"
  /\ req' = [req EXCEPT ![r] = Done]
  /\ fresh' = fresh \ {r}
  /\ UNCHANGED <<phase, rows, objects, sweep, faults>>

----
(* The sweep of abandoned files. *)

DayPasses ==
  /\ aged < Len(order)
  /\ aged' = aged + 1
  /\ UNCHANGED <<phase, requestRows, file, order, receipts, objects, req, fresh, sweep, faults>>

(* Mutant: rejected files are not looked at again. *)
SelectedUnrejected(n) ==
  SelectSeq([i \in 1..n |-> [file |-> order[i], seen |-> file[order[i]].state]], LAMBDA x : x.seen # "REJECTED")

(* The oldest of the files that were abandoned for a day; a rejected one    *)
(* stays among them.                                                        *)
Selected(n) == [i \in 1..n |-> [file |-> order[i], seen |-> file[order[i]].state]]

Select(w) ==
  /\ sweep[w].pc = "idle"
  /\ aged > 0
  /\ phase # "sealed"
  /\ LET todo == Selected(IF aged < MaxSweep THEN aged ELSE MaxSweep) IN
       /\ todo # <<>>
       /\ sweep' = [sweep EXCEPT ![w] = [pc |-> "row", todo |-> todo, budget |-> MaxObjects, keys |-> {}]]
  /\ UNCHANGED <<phase, rows, objects, req, fresh, faults>>

Swept(w) == Head(sweep[w].todo)

(* On to the next file, or to the end of the invocation. *)
Advanced(s, budget) ==
  IF Len(s.todo) = 1 THEN Asleep ELSE [pc |-> "row", todo |-> Tail(s.todo), budget |-> budget, keys |-> {}]

(* The row is as it was selected. *)
Abandoned(x) == file[x.file].state = x.seen /\ phase # "sealed"

(* Bytes are looked for while the budget of the invocation lasts. *)
Looked(s) == IF s.budget = 0 THEN Advanced(s, 0) ELSE [s EXCEPT !.pc = "list"]

(* Mutant: the bytes go although the update missed. *)
MissedNoMatter(s) == Looked(s)

(* A file that was selected but has changed is left alone. *)
Missed(s) == Advanced(s, s.budget)

(* An abandoned file is rejected first. *)
SweepRow(w) ==
  /\ sweep[w].pc = "row"
  /\ LET x == Swept(w) IN
       \/ /\ x.seen = "REJECTED"
          /\ sweep' = [sweep EXCEPT ![w] = Looked(@)]
          /\ UNCHANGED <<file, clock>>
       \/ /\ x.seen # "REJECTED" /\ Abandoned(x)
          /\ file' = [file EXCEPT ![x.file].state = "REJECTED"]
          /\ Touch(x.file)
          /\ sweep' = [sweep EXCEPT ![w] = Looked(@)]
       \/ /\ x.seen # "REJECTED" /\ ~Abandoned(x)
          /\ sweep' = [sweep EXCEPT ![w] = Missed(@)]
          /\ UNCHANGED <<file, clock>>
  /\ UNCHANGED <<phase, requestRows, receipts, objects, req, fresh, faults>>

Below(f) == {o \in objects : o[1] = f}

(* The keys below the file's prefix, no more than may still be deleted. *)
SweepList(w) ==
  /\ sweep[w].pc = "list"
  /\ \E keys \in SUBSET Below(Swept(w).file) :
       /\ Cardinality(keys) <= sweep[w].budget
       /\ keys # Below(Swept(w).file) => Cardinality(keys) = sweep[w].budget
       /\ sweep' = [sweep EXCEPT ![w] =
                      IF keys = {} THEN Advanced(@, @.budget) ELSE [@ EXCEPT !.pc = "delete", !.keys = keys]]
  /\ UNCHANGED <<phase, rows, objects, req, fresh, faults>>

SweepDelete(w) ==
  /\ sweep[w].pc = "delete"
  /\ objects' = objects \ sweep[w].keys
  /\ sweep' = [sweep EXCEPT ![w] = Advanced(@, @.budget - Cardinality(@.keys))]
  /\ UNCHANGED <<phase, rows, req, fresh, faults>>

(* A failing update ends the sweep; a call of the store that fails is only  *)
(* counted.  The invocation may also end anywhere.                          *)
SweepFails(w) ==
  /\ sweep[w].pc # "idle"
  /\ faults < MaxFaults
  /\ \/ sweep' = [sweep EXCEPT ![w] = Asleep]
     \/ sweep[w].pc \in {"list", "delete"} /\ sweep' = [sweep EXCEPT ![w] = Advanced(@, @.budget)]
  /\ faults' = faults + 1
  /\ UNCHANGED <<phase, rows, objects, req, fresh>>

----
Serve(r) == Put(r) \/ Plan(r) \/ Commit(r) \/ Refused(r)
Sweep(w) == Select(w) \/ SweepRow(w) \/ SweepList(w) \/ SweepDelete(w)

Next ==
  \/ EngagementMoves
  \/ DayPasses
  \/ \E r \in Requests : Begin(r) \/ Upload(r) \/ Serve(r) \/ Die(r)
  \/ \E w \in Sweepers : Sweep(w) \/ SweepFails(w)

Spec == Init /\ [][Next]_vars

(* Time passes, the cron runs every minute, and an invocation that is not   *)
(* ended goes on.  Nothing makes a client act or an engagement move.        *)
FairSpec ==
  /\ Spec
  /\ WF_vars(DayPasses)
  /\ \A r \in Requests : WF_vars(Serve(r))
  /\ \A w \in Sweepers : WF_vars(Sweep(w))

----
(* A file that is staged or committed has its bytes in the store, although  *)
(* rows and objects change in separate steps and the sweep deletes below    *)
(* the prefix of a file that it rejected while others upload to it          *)
(* (sweepStaleBusinessFiles against file.stage and file.commit).            *)
BytesAreThere ==
  \A f \in Files : file[f].state \in {"STAGED", "COMMITTED"} => <<f, file[f].digest>> \in objects

(* A command that answered that it staged, committed or rejected a file did *)
(* so, whatever the sweep did between its builder and its batch (the        *)
(* assertions 72, 73 and 74, since an update that hits no row is no error). *)
ReceiptsAreTrue ==
  \A f \in Files :
    /\ <<f, "STAGED">> \in receipts => file[f].digest # NoDigest
    /\ <<f, "COMMITTED">> \in receipts => file[f].state = "COMMITTED"
    /\ <<f, "REJECTED">> \in receipts => file[f].state = "REJECTED"

(* The answers to the request form one chain: each but the last was         *)
(* rejected, each takes the place of the one before and its file was        *)
(* reserved as the successor of that one's, no file answers twice, and a    *)
(* review is of the bytes that are committed (pbc.submit, pbc.review and    *)
(* the reservation that fixes the predecessor long before).                 *)
AnswersFormAChain ==
  /\ \A i, j \in DOMAIN answers : answers[i].file = answers[j].file => i = j
  /\ \A i \in DOMAIN answers :
       LET a == answers[i]  f == file[a.file] IN
         /\ f.state = "COMMITTED"
         /\ a.supersedes = i - 1
         /\ f.prior = IF i = 1 THEN NoFile ELSE answers[i - 1].file
         /\ i < Len(answers) => a.decision = "REJECT"
         /\ a.decision # "NONE" => a.reviewed = f.digest
  /\ pbc.status = "APPROVED" => answers # <<>> /\ answers[Len(answers)].decision = "APPROVE"

(* Once an engagement is locked, only evidence of a payment is committed,   *)
(* and once it is sealed, no other row of a file changes at all, even when  *)
(* the cron locks it between a commit's checks and its batch.               *)
LockedContentStays ==
  [][\A f \in Files : file'[f].purpose # "PAYMENT" =>
       /\ Locked /\ file'[f].state = "COMMITTED" => file[f].state = "COMMITTED"
       /\ phase = "sealed" => file'[f] = file[f]]_vars

Leftover(f) ==
  \/ file[f].state \in {"INITIALIZED", "STAGED"}
  \/ file[f].state = "REJECTED" /\ Below(f) # {}

(* What is abandoned is cleared: a file that is not committed does not      *)
(* stay, and the bytes of a rejected one are deleted, those of an upload    *)
(* that arrives after the sweep included, unless the engagement is sealed   *)
(* (businessFileSweep; docs/plan/stories/E06-S07, which adds that the       *)
(* number of orphans returns to 0).                                         *)
AbandonedIsCleared == \A f \in Files : Leftover(f) ~> (~Leftover(f) \/ phase = "sealed")
================================================================================
