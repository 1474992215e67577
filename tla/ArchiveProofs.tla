----------------------------- MODULE ArchiveProofs -----------------------------
(***************************************************************************)
(* What holds of the archive for any number of commands, workers, faults   *)
(* and attempts: types, the agreement of lock and run, that the sealed     *)
(* archive has every ordinary file of the engagement, that seal, job, run  *)
(* and objects are sealed together, and that what is sealed stays.         *)
(***************************************************************************)
EXTENDS Archive, TLAPS

----
(* Types. *)

(* The records that a worker's steps assign are worker states. *)
LEMMA WorkerTypes ==
  /\ Idle \in WorkerStates
  /\ \A n \in Nat : [Idle EXCEPT !.pc = "sweep", !.seen = n] \in WorkerStates
  /\ \A n \in Nat : [Idle EXCEPT !.pc = "files", !.lease = n] \in WorkerStates
  /\ \A w \in Workers : worker[w] \in WorkerStates => Failing(w) \in WorkerStates
<1>1. 0 \in 0..(MaxTries - 1)
  BY LimitsAssumption
<1>2. Idle \in WorkerStates
  BY <1>1 DEF Idle, WorkerStates, Phases
<1> QED  BY <1>1, <1>2 DEF Idle, WorkerStates, Phases, Failing

(* The sets of the type invariant contain what the commands and the jobs    *)
(* write.                                                                   *)
LEMMA RowTypes ==
  ASSUME TypeOK
  PROVE  /\ LockedEngagement \in Engagements
         /\ [engagement EXCEPT !.state = "ARCHIVED_READ_ONLY", !.version = engagement.version + 1] \in Engagements
         /\ [status |-> "PENDING", attempts |-> 0] \in Jobs
         /\ [status |-> "RUNNING", attempts |-> job.attempts + 1] \in Jobs
         /\ \A s \in JobStatuses : [job EXCEPT !.status = s] \in Jobs
<1>1. engagement \in Engagements /\ engagement.version + 1 \in Nat
  BY DEF TypeOK, Engagements
<1>2. job \in Jobs /\ job.attempts + 1 \in Nat
  BY DEF TypeOK, Jobs
<1>3. LockedEngagement \in Engagements
  BY <1>1 DEF LockedEngagement, Engagements
<1>4. [engagement EXCEPT !.state = "ARCHIVED_READ_ONLY", !.version = engagement.version + 1] \in Engagements
  BY <1>1 DEF Engagements
<1>5. [status |-> "PENDING", attempts |-> 0] \in Jobs /\ [status |-> "RUNNING", attempts |-> job.attempts + 1] \in Jobs
  BY <1>2 DEF Jobs, JobStatuses
<1>6. \A s \in JobStatuses : [job EXCEPT !.status = s] \in Jobs
  BY <1>2 DEF Jobs
<1> QED  BY <1>3, <1>4, <1>5, <1>6

(* The initial state is typed. *)
LEMMA InitTyped == Init => TypeOK
<1> SUFFICES ASSUME Init PROVE TypeOK
  OBVIOUS
<1>1. worker \in [Workers -> WorkerStates]
  BY WorkerTypes DEF Init
<1>2. req \in [Requests -> RequestStates]
  BY DEF Init, RequestStates
<1>3. engagement \in Engagements /\ job \in Jobs
  BY DEF Init, Engagements, Jobs, JobStatuses
<1>4. faults \in 0..MaxFaults
  BY LimitsAssumption DEF Init
<1> QED  BY <1>1, <1>2, <1>3, <1>4 DEF Init, TypeOK, RunStatuses

(* A request's step keeps the types. *)
LEMMA RequestTyped ==
  ASSUME TypeOK, NEW r \in Requests, Gate(r) \/ Plan(r) \/ Commit(r) \/ Rejected(r)
  PROVE  TypeOK'
<1>1. CASE Gate(r)
  BY <1>1 DEF TypeOK, Gate, Refused, RequestStates, rows, objects
<1>2. CASE Plan(r)
  BY <1>2 DEF TypeOK, Plan, Refused, RequestStates, Engagements, rows, objects
<1>3. CASE Rejected(r)
  BY <1>3 DEF TypeOK, Rejected, Refused, RequestStates, rows, objects
<1>4. CASE Commit(r)
  <2>1. /\ engagement' \in Engagements /\ policy' \in BOOLEAN /\ content' \subseteq Content
        /\ run' \in RunStatuses /\ job' \in Jobs
    BY <1>4, RowTypes DEF TypeOK, Commit, QueueSeal, QueuedRun, RunStatuses
  <2>2. req' \in [Requests -> RequestStates]
    BY <1>4 DEF TypeOK, Commit, RequestStates
  <2> QED  BY <1>4, <2>1, <2>2 DEF TypeOK, Commit, objects
<1> QED  BY <1>1, <1>2, <1>3, <1>4

(* So does the rendering of a document. *)
LEMMA RenderTyped ==
  ASSUME TypeOK, NEW d \in Generated, Render(d)
  PROVE  TypeOK'
BY LimitsAssumption DEF TypeOK, Render, Fault, Content, CommittedFiles, objects

(* A worker's step keeps the types. *)
LEMMA WorkerTyped ==
  ASSUME TypeOK, NEW w \in Workers,
         Sweep(w) \/ Claim(w) \/ TakeFromSlow(w) \/ Proceed(w) \/ CommitUnseen(w) \/ Crash(w)
  PROVE  TypeOK'
<1>0. worker[w] \in WorkerStates /\ Key(w) \in Nat
  BY DEF TypeOK, WorkerStates, Key
<1>f. ASSUME Fault \/ UNCHANGED faults PROVE faults' \in 0..MaxFaults
  BY <1>f, LimitsAssumption DEF TypeOK, Fault
<1>w. ASSUME NEW s \in WorkerStates, worker' = [worker EXCEPT ![w] = s]
      PROVE  worker' \in [Workers -> WorkerStates]
  BY <1>w DEF TypeOK
<1>1. CASE Sweep(w)
  <2>1. engagement.version \in Nat
    BY DEF TypeOK, Engagements
  <2>2. worker' \in [Workers -> WorkerStates]
    BY <1>1, <2>1, <1>w, WorkerTypes DEF Sweep
  <2> QED  BY <1>1, <2>2 DEF TypeOK, Sweep, rows, objects
<1>2. CASE SweepBatch(w)
  <2>1. worker' \in [Workers -> WorkerStates]
    BY <1>2, <1>w, WorkerTypes DEF SweepBatch
  <2>2. engagement' \in Engagements /\ run' \in RunStatuses /\ job' \in Jobs
    BY <1>2, RowTypes DEF TypeOK, SweepBatch, QueueSeal, QueuedRun, RunStatuses
  <2>3. faults' \in 0..MaxFaults
    BY <1>2, <1>f DEF SweepBatch
  <2> QED  BY <1>2, <2>1, <2>2, <2>3 DEF TypeOK, SweepBatch, objects
<1>3. CASE Claim(w) \/ TakeFromSlow(w)
  <2>1. Taken(w) /\ faults' \in 0..MaxFaults
    BY <1>3, <1>f DEF Claim, TakeFromSlow
  <2>2. job.attempts + 1 \in Nat
    BY DEF TypeOK, Jobs
  <2>3. worker' \in [Workers -> WorkerStates]
    BY <2>1, <2>2, <1>w, WorkerTypes DEF Taken
  <2> QED  BY <2>1, <2>3, RowTypes DEF TypeOK, Taken, objects
<1>4. CASE ReadFiles(w)
  <2>1. content \ Notes \subseteq CommittedFiles
    BY DEF TypeOK, Content
  <2>2. [worker[w] EXCEPT !.pc = "records", !.files = content \ Notes] \in WorkerStates
    BY <1>0, <2>1 DEF WorkerStates, Phases
  <2>3. worker' \in [Workers -> WorkerStates]
    BY <1>4, <2>2, <1>0, <1>w, WorkerTypes DEF ReadFiles
  <2>4. faults' \in 0..MaxFaults
    BY <1>4, <1>f DEF ReadFiles
  <2> QED  BY <1>4, <2>3, <2>4 DEF TypeOK, ReadFiles, rows, objects
<1>5. CASE ReadRecords(w)
  <2>1. [worker[w] EXCEPT !.pc = "zip", !.notes = content \cap Notes] \in WorkerStates
    BY <1>0 DEF WorkerStates, Phases
  <2>2. worker' \in [Workers -> WorkerStates]
    BY <1>5, <2>1, <1>w DEF ReadRecords
  <2> QED  BY <1>5, <2>2 DEF TypeOK, ReadRecords, rows, objects
<1>6. CASE WriteZip(w)
  <2>1. [worker[w] EXCEPT !.pc = "manifest"] \in WorkerStates
    BY <1>0 DEF WorkerStates, Phases
  <2>2. worker' \in [Workers -> WorkerStates]
    <3>1. worker' = [worker EXCEPT ![w] = [worker[w] EXCEPT !.pc = "manifest"]] \/ worker' = [worker EXCEPT ![w] = Failing(w)]
      BY <1>6 DEF WriteZip
    <3> QED  BY <3>1, <2>1, <1>0, <1>w, WorkerTypes
  <2>3. faults' \in 0..MaxFaults
    BY <1>6, <1>f DEF WriteZip
  <2> QED  BY <1>6, <1>0, <2>2, <2>3 DEF TypeOK, WriteZip, rows
<1>7. CASE WriteManifest(w)
  <2>1. [worker[w] EXCEPT !.pc = "head"] \in WorkerStates
    BY <1>0 DEF WorkerStates, Phases
  <2>2. worker' \in [Workers -> WorkerStates]
    <3>1. worker' = [worker EXCEPT ![w] = [worker[w] EXCEPT !.pc = "head"]] \/ worker' = [worker EXCEPT ![w] = Failing(w)]
      BY <1>7 DEF WriteManifest
    <3> QED  BY <3>1, <2>1, <1>0, <1>w, WorkerTypes
  <2>3. faults' \in 0..MaxFaults
    BY <1>7, <1>f DEF WriteManifest
  <2> QED  BY <1>7, <1>0, <2>2, <2>3 DEF TypeOK, WriteManifest, rows
<1>8. CASE ReadHead(w)
  <2>1. [worker[w] EXCEPT !.pc = "batch"] \in WorkerStates
    BY <1>0 DEF WorkerStates, Phases
  <2>2. worker' \in [Workers -> WorkerStates]
    BY <1>8, <2>1, <1>w DEF ReadHead
  <2> QED  BY <1>8, <2>2 DEF TypeOK, ReadHead, rows, objects
<1>9. ASSUME Recorded(w), worker' \in [Workers -> WorkerStates], faults' \in 0..MaxFaults PROVE TypeOK'
  <2>2. CASE Seal(w)
    <3>1. seal' \in Seals
      BY <1>0, <2>2 DEF Seal, Seals, WorkerStates
    <3>2. engagement' \in Engagements /\ job' \in Jobs
      BY <2>2, RowTypes DEF Seal, TypeOK, JobStatuses
    <3> QED  BY <1>9, <2>2, <3>1, <3>2 DEF TypeOK, Recorded, Seal, RunStatuses, objects
  <2>3. CASE RecordFailure(w)
    <3>1. job' \in Jobs
      BY <2>3, RowTypes DEF RecordFailure, TypeOK, JobStatuses
    <3> QED  BY <1>9, <2>3, <3>1 DEF TypeOK, Recorded, RecordFailure, RunStatuses, objects
  <2> QED  BY <1>9, <2>2, <2>3 DEF Recorded
<1>e. ASSUME NEW moved, NEW s, s = AfterError(w, moved) PROVE s \in WorkerStates
  <2>1. CASE moved /\ TriesLeft(w)
    <3>1. worker[w].tries \in 0..(MaxTries - 1) /\ worker[w].tries + 1 < MaxTries
      BY <1>0, <2>1 DEF TriesLeft, WorkerStates
    <3>2. worker[w].tries + 1 \in 0..(MaxTries - 1)
      BY <3>1, LimitsAssumption
    <3>3. [worker[w] EXCEPT !.pc = "head", !.tries = worker[w].tries + 1] \in WorkerStates
      BY <1>0, <3>2 DEF WorkerStates, Phases
    <3> QED  BY <1>e, <2>1, <3>3 DEF AfterError
  <2>2. CASE ~(moved /\ TriesLeft(w))
    BY <1>e, <1>0, <2>2, WorkerTypes DEF AfterError
  <2> QED  BY <2>1, <2>2
<1>10. CASE CommitJob(w)
  <2>1. worker' \in [Workers -> WorkerStates] /\ faults' \in 0..MaxFaults
    BY <1>10, <1>w, <1>f, WorkerTypes DEF CommitJob
  <2> QED  BY <1>10, <1>9, <2>1 DEF CommitJob
<1>12. CASE CommitUnseen(w)
  <2>1. worker' \in [Workers -> WorkerStates] /\ faults' \in 0..MaxFaults
    BY <1>12, <1>w, <1>f, <1>e DEF CommitUnseen
  <2> QED  BY <1>12, <1>9, <2>1 DEF CommitUnseen
<1>13. CASE RejectedJob(w)
  <2>1. PICK moved : worker' = [worker EXCEPT ![w] = AfterError(w, moved)] /\ (Fault \/ UNCHANGED faults)
    BY <1>13 DEF RejectedJob
  <2>2. worker' \in [Workers -> WorkerStates] /\ faults' \in 0..MaxFaults
    BY <2>1, <1>w, <1>f, <1>e
  <2> QED  BY <1>13, <2>2 DEF TypeOK, RejectedJob, rows, objects
<1>11. CASE Crash(w)
  <2>1. worker' \in [Workers -> WorkerStates] /\ faults' \in 0..MaxFaults
    BY <1>11, <1>w, <1>f, WorkerTypes DEF Crash
  <2> QED  BY <1>11, <2>1 DEF TypeOK, Crash, rows, objects
<1> QED  BY <1>1, <1>2, <1>3, <1>4, <1>5, <1>6, <1>7, <1>8, <1>10, <1>11, <1>12, <1>13 DEF Proceed

(* In every reachable state the rows, the objects and the workers are of    *)
(* their types; in particular a worker tries a batch at most MaxTries       *)
(* times (the loop of commitJobMutation).                                   *)
THEOREM TypeCorrect == Spec => []TypeOK
<1>1. TypeOK /\ [Next]_vars => TypeOK'
  <2> SUFFICES ASSUME TypeOK, [Next]_vars PROVE TypeOK'
    OBVIOUS
  <2>1. CASE \E r \in Requests : Gate(r) \/ Plan(r) \/ Commit(r) \/ Rejected(r)
    BY <2>1, RequestTyped
  <2>5. CASE \E d \in Generated : Render(d)
    BY <2>5, RenderTyped
  <2>2. CASE DeadlinePasses
    BY <2>2 DEF DeadlinePasses, TypeOK, rows, objects
  <2>3. CASE \E w \in Workers : Sweep(w) \/ Claim(w) \/ TakeFromSlow(w) \/ Proceed(w) \/ CommitUnseen(w) \/ Crash(w)
    BY <2>3, WorkerTyped
  <2>4. CASE UNCHANGED vars
    BY <2>4 DEF vars, TypeOK, rows, objects
  <2> QED  BY <2>1, <2>2, <2>3, <2>4, <2>5 DEF Next
<1> QED  BY <1>1, InitTyped, PTL DEF Spec

----
(* What worker w has read is on its way to be sealed. *)
Sealing(w) ==
  \/ worker[w].pc \in {"records", "zip", "manifest"}
  \/ worker[w].pc \in {"head", "batch"} /\ worker[w].outcome = "SEAL"

(* What a step does to the workers: it moves one of them, which is done,    *)
(* starts, gives up what it has read, reads the files, or goes on with the  *)
(* files it has.                                                            *)
LEMMA WorkerSteps ==
  ASSUME worker \in [Workers -> WorkerStates], NEW w \in Workers,
         Sweep(w) \/ Claim(w) \/ TakeFromSlow(w) \/ Proceed(w) \/ CommitUnseen(w) \/ Crash(w)
  PROVE  /\ \A v \in Workers \ {w} : worker'[v] = worker[v]
         /\ worker'[w].pc = "sweep" => Sweep(w)
         /\ \/ worker'[w].pc \in {"idle", "sweep", "files"}
            \/ worker'[w].pc = "head" /\ worker'[w].outcome = "FAIL"
            \/ Ready /\ worker'[w].files = content \ Notes
            \/ (Sealing(w)' => Sealing(w)) /\ worker'[w].files = worker[w].files
<1>0. worker[w] \in WorkerStates
  OBVIOUS
<1>i. Idle.pc = "idle" /\ Failing(w).pc = "head" /\ Failing(w).outcome = "FAIL"
  BY DEF Idle, Failing
<1>1. CASE Sweep(w) \/ Claim(w) \/ TakeFromSlow(w)
  BY <1>1 DEF Sweep, Claim, TakeFromSlow, Taken, Idle
<1>2. CASE SweepBatch(w) \/ CommitJob(w) \/ Crash(w)
  BY <1>2, <1>i DEF SweepBatch, CommitJob, Recorded, Crash
<1>3. CASE ReadFiles(w)
  <2>1. CASE worker' = [worker EXCEPT ![w] = Failing(w)]
    BY <2>1, <1>i
  <2>2. CASE Ready /\ worker' = [worker EXCEPT ![w] = [worker[w] EXCEPT !.pc = "records", !.files = content \ Notes]]
    BY <2>2, <1>0 DEF WorkerStates
  <2> QED  BY <1>3, <2>1, <2>2 DEF ReadFiles
<1>4. CASE ReadRecords(w)
  BY <1>0, <1>4 DEF ReadRecords, WorkerStates, Sealing
<1>5. CASE WriteZip(w) \/ WriteManifest(w)
  <2>1. CASE worker' = [worker EXCEPT ![w] = Failing(w)]
    BY <2>1, <1>i
  <2>2. CASE worker[w].pc = "zip" /\ worker' = [worker EXCEPT ![w].pc = "manifest"]
    BY <2>2, <1>0 DEF WorkerStates, Sealing
  <2>3. CASE worker[w].pc = "manifest" /\ worker' = [worker EXCEPT ![w].pc = "head"]
    BY <2>3, <1>0 DEF WorkerStates, Sealing
  <2> QED  BY <1>5, <2>1, <2>2, <2>3 DEF WriteZip, WriteManifest
<1>6. CASE ReadHead(w)
  <2>1. worker[w].pc = "head" /\ worker' = [worker EXCEPT ![w].pc = "batch"]
    BY <1>6 DEF ReadHead
  <2> QED  BY <2>1, <1>0 DEF WorkerStates, Sealing
<1>7. CASE RejectedJob(w) \/ CommitUnseen(w)
  <2>1. CASE worker' = [worker EXCEPT ![w] = Failing(w)] \/ worker' = [worker EXCEPT ![w] = Idle]
    BY <2>1, <1>i
  <2>2. CASE /\ worker[w].pc = "batch"
             /\ worker' = [worker EXCEPT ![w] = [worker[w] EXCEPT !.pc = "head", !.tries = worker[w].tries + 1]]
    BY <2>2, <1>0 DEF WorkerStates, Sealing
  <2>3. worker[w].pc = "batch" /\ \E moved \in BOOLEAN : worker' = [worker EXCEPT ![w] = AfterError(w, moved)]
    BY <1>7 DEF RejectedJob, CommitUnseen, Recorded
  <2> QED  BY <2>1, <2>2, <2>3 DEF AfterError
<1> QED  BY <1>1, <1>2, <1>3, <1>4, <1>5, <1>6, <1>7 DEF Proceed

----
(* The lock and the run. *)

(* What makes RunIffLocked inductive.  The sweep inserts the run whether or *)
(* not its guarded update locks the engagement, so it has to be known that  *)
(* while there is no run the update finds what the sweep selected: an       *)
(* engagement still in its countdown, at the same version.                  *)
SweepersAreCurrent ==
  /\ ~Countdown => engagement.locked
  /\ \A w \in Workers : worker[w].pc = "sweep" /\ Unqueued => worker[w].seen = engagement.version

LockInv == TypeOK /\ RunIffLocked /\ SweepersAreCurrent

(* A command keeps lock and run together: archive.lock asserts that the     *)
(* engagement is open and queues its seal in the batch that locks it.       *)
LEMMA LockKeptByRequests ==
  ASSUME LockInv, NEW r \in Requests, Gate(r) \/ Plan(r) \/ Commit(r) \/ Rejected(r)
  PROVE  RunIffLocked' /\ SweepersAreCurrent'
<1>1. CASE Gate(r) \/ Plan(r) \/ Rejected(r)
  BY <1>1 DEF Gate, Plan, Rejected, rows, LockInv, RunIffLocked, SweepersAreCurrent, Countdown, Unqueued
<1>2. CASE Commit(r)
  <2>1. CASE r \in Locks /\ engagement' = LockedEngagement /\ QueueSeal
    <3>1. engagement'.locked /\ run' = "QUEUED" /\ job'.status = "PENDING"
      BY <2>1 DEF LockInv, TypeOK, Engagements, LockedEngagement, QueueSeal, QueuedRun
    <3> QED  BY <3>1 DEF RunIffLocked, SweepersAreCurrent, Unqueued
  <2>2. CASE UNCHANGED <<engagement, run, job>>
    BY <1>2, <2>2 DEF Commit, LockInv, RunIffLocked, SweepersAreCurrent, Countdown, Unqueued
  <2> QED  BY <1>2, <2>1, <2>2 DEF Commit
<1> QED  BY <1>1, <1>2

(* A worker keeps them together: the sweep inserts the run with the lock,   *)
(* and a seal job exists only once the engagement is locked.                *)
LEMMA LockKeptByWorkers ==
  ASSUME LockInv, NEW w \in Workers,
         Sweep(w) \/ Claim(w) \/ TakeFromSlow(w) \/ Proceed(w) \/ CommitUnseen(w) \/ Crash(w)
  PROVE  RunIffLocked' /\ SweepersAreCurrent'
<1> USE DEF LockInv
<1>w. worker \in [Workers -> WorkerStates] /\ engagement \in Engagements /\ job \in Jobs
  BY DEF TypeOK
<1>1. CASE Sweep(w)
  <2>1. /\ UNCHANGED <<engagement, run, job>>
        /\ worker'[w].seen = engagement.version
        /\ \A v \in Workers \ {w} : worker'[v] = worker[v]
    BY <1>1, <1>w DEF Sweep, rows, Idle
  <2> QED  BY <2>1 DEF RunIffLocked, SweepersAreCurrent, Countdown, Unqueued
<1>2. CASE SweepBatch(w)
  <2>1. CASE Unqueued /\ QueueSeal
    <3>1. engagement.version = worker[w].seen /\ Countdown /\ ~engagement.locked
      BY <1>2, <2>1 DEF SweepBatch, RunIffLocked, SweepersAreCurrent, Unqueued
    <3>2. engagement' = LockedEngagement
      BY <1>2, <2>1, <3>1 DEF SweepBatch, QueueSeal, QueuedRun, Unqueued
    <3>3. engagement'.locked /\ run' = "QUEUED" /\ job'.status = "PENDING"
      BY <2>1, <3>2, <1>w DEF Engagements, LockedEngagement, QueueSeal, QueuedRun
    <3> QED  BY <3>3 DEF RunIffLocked, SweepersAreCurrent, Unqueued
  <2>2. CASE UNCHANGED <<engagement, run, job>>
    <3>1. \A v \in Workers : worker'[v].pc = "sweep" => worker'[v] = worker[v]
      BY <1>2, <1>w DEF SweepBatch, Idle
    <3> QED  BY <2>2, <3>1 DEF RunIffLocked, SweepersAreCurrent, Countdown, Unqueued
  <2> QED  BY <1>2, <2>1, <2>2 DEF SweepBatch
<1>3. CASE Claim(w) \/ TakeFromSlow(w)
  <2>1. job.status # "ABSENT" /\ job'.status # "ABSENT" /\ UNCHANGED <<engagement, run>>
    BY <1>3 DEF Claim, Claimable, Lapsed, TakeFromSlow, Taken
  <2> QED  BY <2>1 DEF RunIffLocked, SweepersAreCurrent, Countdown, Unqueued
<1>4. CASE CommitJob(w) \/ CommitUnseen(w)
  <2>1. Recorded(w)
    BY <1>4 DEF CommitJob, CommitUnseen
  <2>2. job.status = "RUNNING" /\ engagement.locked
    BY <2>1 DEF Recorded, Accepted, Leased, RunIffLocked
  <2>3. engagement'.locked /\ run' # "ABSENT" /\ job'.status # "ABSENT"
    <3>1. CASE Seal(w)
      BY <2>2, <3>1, <1>w DEF Seal, Engagements, Jobs
    <3>2. CASE RecordFailure(w)
      BY <2>2, <3>2, <1>w DEF RecordFailure, Jobs, RunIffLocked
    <3> QED  BY <2>1, <3>1, <3>2 DEF Recorded
  <2> QED  BY <2>3 DEF RunIffLocked, SweepersAreCurrent, Unqueued
<1>5. CASE \/ ReadFiles(w) \/ ReadRecords(w) \/ WriteZip(w) \/ WriteManifest(w)
           \/ ReadHead(w) \/ RejectedJob(w) \/ Crash(w)
  <2>1. UNCHANGED <<engagement, run, job>>
    BY <1>5 DEF ReadFiles, ReadRecords, WriteZip, WriteManifest, ReadHead, RejectedJob, Crash, rows
  <2>2. \A v \in Workers : worker'[v].pc = "sweep" => worker'[v] = worker[v]
    <3>1. ~Sweep(w)
      BY <1>5 DEF Sweep, ReadFiles, ReadRecords, WriteZip, WriteManifest, ReadHead, RejectedJob, Crash
    <3> QED  BY <3>1, <1>w, WorkerSteps
  <2> QED  BY <2>1, <2>2 DEF RunIffLocked, SweepersAreCurrent, Countdown, Unqueued
<1> QED  BY <1>1, <1>2, <1>3, <1>4, <1>5 DEF Proceed

LEMMA LockAlways == Spec => []LockInv
<1>1. Init => LockInv
  BY InitTyped DEF Init, LockInv, RunIffLocked, SweepersAreCurrent, Countdown, Idle
<1>2. LockInv /\ [Next]_vars => RunIffLocked' /\ SweepersAreCurrent'
  <2> SUFFICES ASSUME LockInv, [Next]_vars PROVE RunIffLocked' /\ SweepersAreCurrent'
    OBVIOUS
  <2>1. CASE \E r \in Requests : Gate(r) \/ Plan(r) \/ Commit(r) \/ Rejected(r)
    BY <2>1, LockKeptByRequests
  <2>2. CASE DeadlinePasses \/ (\E d \in Generated : Render(d)) \/ UNCHANGED vars
    BY <2>2 DEF DeadlinePasses, Render, vars, rows, LockInv, RunIffLocked, SweepersAreCurrent, Countdown, Unqueued
  <2>3. CASE \E w \in Workers : Sweep(w) \/ Claim(w) \/ TakeFromSlow(w) \/ Proceed(w) \/ CommitUnseen(w) \/ Crash(w)
    BY <2>3, LockKeptByWorkers
  <2> QED  BY <2>1, <2>2, <2>3 DEF Next
<1> QED  BY <1>1, <1>2, TypeCorrect, PTL DEF Spec, LockInv

(* However lock commands and sweeps overlap (archive.lock and               *)
(* queueDueBusinessArchives), an engagement is locked exactly when it has   *)
(* an archive run and a seal job.                                           *)
THEOREM LockedWithRun == Spec => []RunIffLocked
<1>1. LockInv => RunIffLocked
  BY DEF LockInv
<1> QED  BY <1>1, LockAlways, PTL

----
(* The files of the archive. *)

(* What makes FilesArchived inductive: files are read from an engagement    *)
(* that is locked already, which no command unlocks and in which            *)
(* file.commit is refused by its assertion, so they stay all the files.     *)
SealersAreComplete ==
  /\ seal # NoSeal => engagement.locked
  /\ \A w \in Workers : Sealing(w) => engagement.locked /\ content \cap Files \subseteq worker[w].files

FilesInv == TypeOK /\ FilesArchived /\ SealersAreComplete

(* A command adds no ordinary file to an engagement that is locked.         *)
LEMMA FilesKeptByRequests ==
  ASSUME FilesInv, NEW r \in Requests, Gate(r) \/ Plan(r) \/ Commit(r) \/ Rejected(r)
  PROVE  FilesArchived' /\ SealersAreComplete'
<1>1. UNCHANGED <<worker, seal>> /\ (engagement.locked => engagement'.locked)
  <2>1. engagement \in Engagements
    BY DEF FilesInv, TypeOK
  <2> QED  BY <2>1 DEF Gate, Plan, Commit, Rejected, LockedEngagement, Engagements, rows
<1>2. engagement.locked => content' \cap Files = content \cap Files
  BY DEF Gate, Plan, Commit, Rejected, Applies, Asserted, rows
<1> QED  BY <1>1, <1>2 DEF FilesInv, FilesArchived, SealersAreComplete, Sealing

(* A worker's step keeps what it read complete, and seals only that.        *)
LEMMA FilesKeptByWorkers ==
  ASSUME FilesInv, NEW w \in Workers,
         Sweep(w) \/ Claim(w) \/ TakeFromSlow(w) \/ Proceed(w) \/ CommitUnseen(w) \/ Crash(w)
  PROVE  FilesArchived' /\ SealersAreComplete'
<1>w. worker \in [Workers -> WorkerStates] /\ engagement \in Engagements
  BY DEF FilesInv, TypeOK
<1>1. UNCHANGED content /\ (engagement.locked => engagement'.locked)
  BY <1>w DEF Sweep, Claim, TakeFromSlow, Taken, Proceed, Crash, SweepBatch, ReadFiles, ReadRecords, WriteZip,
     WriteManifest, ReadHead, CommitJob, CommitUnseen, Recorded, Seal, RecordFailure, RejectedJob,
     LockedEngagement, Engagements, rows
<1>2. \A v \in Workers \ {w} : worker'[v] = worker[v]
  BY <1>w, WorkerSteps
<1>3. Sealing(w)' => engagement'.locked /\ content' \cap Files \subseteq worker'[w].files
  <2>1. CASE \/ worker'[w].pc \in {"idle", "sweep", "files"}
             \/ worker'[w].pc = "head" /\ worker'[w].outcome = "FAIL"
    BY <2>1 DEF Sealing
  <2>2. CASE Ready /\ worker'[w].files = content \ Notes
    BY <1>1, <2>2, KindsAssumption DEF Ready
  <2>3. CASE (Sealing(w)' => Sealing(w)) /\ worker'[w].files = worker[w].files
    BY <1>1, <2>3 DEF FilesInv, SealersAreComplete
  <2> QED  BY <1>w, <2>1, <2>2, <2>3, WorkerSteps DEF Sealing
<1>4. SealersAreComplete'
  <2>1. seal' # NoSeal => engagement'.locked
    BY <1>1 DEF FilesInv, SealersAreComplete, Sealing, Sweep, Claim, TakeFromSlow, Taken, Proceed, Crash,
       SweepBatch, ReadFiles, ReadRecords, WriteZip, WriteManifest, ReadHead, CommitJob, CommitUnseen, Recorded,
       Seal, RecordFailure, RejectedJob, rows
  <2> QED  BY <2>1, <1>1, <1>2, <1>3 DEF FilesInv, SealersAreComplete, Sealing
<1>5. FilesArchived'
  <2>1. CASE Recorded(w) /\ Seal(w)
    <3>1. Sealing(w) /\ seal'.files = worker[w].files
      BY <2>1 DEF Recorded, Seal, Sealing
    <3> QED  BY <3>1, <1>1 DEF FilesInv, SealersAreComplete, FilesArchived
  <2>2. CASE ~(Recorded(w) /\ Seal(w))
    <3>1. UNCHANGED seal
      BY <2>2 DEF Sweep, Claim, TakeFromSlow, Taken, Proceed, Crash, SweepBatch, ReadFiles, ReadRecords,
         WriteZip, WriteManifest, ReadHead, CommitJob, CommitUnseen, Recorded, RecordFailure, RejectedJob, rows
    <3> QED  BY <3>1, <1>1 DEF FilesInv, FilesArchived
  <2> QED  BY <2>1, <2>2
<1> QED  BY <1>4, <1>5

(* Every file that file.commit committed to the engagement is in the        *)
(* archive that is sealed, whatever was committed while the job assembled   *)
(* it, and whichever attempt sealed it.                                     *)
THEOREM NoFileLeftOut == Spec => []FilesArchived
<1>1. Init => FilesInv
  BY InitTyped DEF Init, FilesInv, FilesArchived, SealersAreComplete, Sealing, Idle
<1>2. FilesInv /\ [Next]_vars => FilesArchived' /\ SealersAreComplete'
  <2> SUFFICES ASSUME FilesInv, [Next]_vars PROVE FilesArchived' /\ SealersAreComplete'
    OBVIOUS
  <2>1. CASE \E r \in Requests : Gate(r) \/ Plan(r) \/ Commit(r) \/ Rejected(r)
    BY <2>1, FilesKeptByRequests
  <2>4. CASE \E d \in Generated : Render(d)
    <3>1. content' \cap Files = content \cap Files /\ UNCHANGED <<engagement, worker, seal>>
      BY <2>4, KindsAssumption DEF Render, Requests
    <3> QED  BY <3>1 DEF FilesInv, FilesArchived, SealersAreComplete, Sealing
  <2>2. CASE DeadlinePasses \/ UNCHANGED vars
    BY <2>2 DEF DeadlinePasses, vars, rows, FilesInv, FilesArchived, SealersAreComplete, Sealing
  <2>3. CASE \E w \in Workers : Sweep(w) \/ Claim(w) \/ TakeFromSlow(w) \/ Proceed(w) \/ CommitUnseen(w) \/ Crash(w)
    BY <2>3, FilesKeptByWorkers
  <2> QED  BY <2>1, <2>2, <2>3, <2>4 DEF Next
<1> QED  BY <1>1, <1>2, TypeCorrect, PTL DEF Spec, FilesInv

----
(* The seal. *)

(* Worker w holds or held a lease of the job. *)
Busy(w) == worker[w].pc \notin {"idle", "sweep"}

(* No lease is held twice, and the job was queued before it was leased.     *)
LeasesApart ==
  /\ job.status = "ABSENT" => \A w \in Workers : ~Busy(w)
  /\ \A w \in Workers : Busy(w) => worker[w].lease <= job.attempts
  /\ \A v, w \in Workers : Busy(v) /\ Busy(w) /\ worker[v].lease = worker[w].lease => v = w

(* What a worker is about to record lies in the store, and nobody is left   *)
(* who writes or deletes under the key of the seal: keys are leases.        *)
ObjectsThere ==
  /\ \A w \in Workers :
       /\ worker[w].pc = "manifest" => Key(w) \in zips
       /\ worker[w].pc \in {"head", "batch"} /\ worker[w].outcome = "SEAL" => Key(w) \in zips \cap manifests
  /\ seal # NoSeal => \A w \in Workers :
       worker[w].pc \in {"files", "records", "zip", "manifest"} => Key(w) # seal.key

SealInv == LockInv /\ SealedTogether /\ LeasesApart /\ ObjectsThere

(* What a step of a worker does to the rows of the archive: nothing, it     *)
(* queues a run where there is none, takes the job, or records an outcome.  *)
LEMMA RowSteps ==
  ASSUME NEW w \in Workers,
         Sweep(w) \/ Claim(w) \/ TakeFromSlow(w) \/ Proceed(w) \/ CommitUnseen(w) \/ Crash(w)
  PROVE  /\ UNCHANGED content
         /\ \/ UNCHANGED <<engagement, run, job, seal>>
            \/ Unqueued /\ QueueSeal /\ engagement' \in {LockedEngagement, engagement} /\ UNCHANGED seal
            \/ /\ Taken(w) /\ job.status \in {"PENDING", "RUNNING", "RETRYABLE_FAILED"}
               /\ UNCHANGED <<engagement, run, seal, objects>>
            \/ Recorded(w) /\ UNCHANGED objects
BY DEF Sweep, Claim, Claimable, Lapsed, TakeFromSlow, Taken, Proceed, Crash, SweepBatch, ReadFiles, ReadRecords,
   WriteZip, WriteManifest, ReadHead, CommitJob, CommitUnseen, Recorded, RejectedJob, rows

(* And to its lease: the worker is without one, takes the next, or keeps    *)
(* the one it has.                                                          *)
LEMMA LeaseSteps ==
  ASSUME worker \in [Workers -> WorkerStates], NEW w \in Workers,
         Sweep(w) \/ Claim(w) \/ TakeFromSlow(w) \/ Proceed(w) \/ CommitUnseen(w) \/ Crash(w)
  PROVE  /\ \A v \in Workers \ {w} : worker'[v] = worker[v]
         /\ \/ ~Busy(w)'
            \/ Taken(w) /\ worker'[w].lease = job.attempts + 1 /\ worker'[w].pc = "files"
            \/ Busy(w) /\ worker'[w].lease = worker[w].lease
<1>0. worker[w] \in WorkerStates
  OBVIOUS
<1>i. Idle.pc = "idle" /\ Failing(w).lease = worker[w].lease
  BY DEF Idle, Failing
<1>1. CASE Sweep(w)
  BY <1>1 DEF Sweep, Idle, Busy
<1>2. CASE Claim(w) \/ TakeFromSlow(w)
  BY <1>2 DEF Claim, TakeFromSlow, Taken, Idle
<1>3. CASE SweepBatch(w) \/ CommitJob(w) \/ Crash(w)
  BY <1>3, <1>i DEF SweepBatch, CommitJob, Recorded, Crash, Busy
<1>4. CASE ReadFiles(w) \/ ReadRecords(w) \/ WriteZip(w) \/ WriteManifest(w) \/ ReadHead(w)
  <2>1. Busy(w) /\ \A v \in Workers \ {w} : worker'[v] = worker[v]
    BY <1>4 DEF ReadFiles, ReadRecords, WriteZip, WriteManifest, ReadHead, Busy
  <2>2. CASE worker' = [worker EXCEPT ![w] = Failing(w)]
    BY <2>1, <2>2, <1>i
  <2>3. CASE \E pc, files : worker' = [worker EXCEPT ![w] = [worker[w] EXCEPT !.pc = pc, !.files = files]]
    BY <2>1, <2>3, <1>0 DEF WorkerStates
  <2>4. CASE \E pc, notes : worker' = [worker EXCEPT ![w] = [worker[w] EXCEPT !.pc = pc, !.notes = notes]]
    BY <2>1, <2>4, <1>0 DEF WorkerStates
  <2>5. CASE \E pc : worker' = [worker EXCEPT ![w].pc = pc]
    BY <2>1, <2>5, <1>0 DEF WorkerStates
  <2> QED  BY <1>4, <2>2, <2>3, <2>4, <2>5 DEF ReadFiles, ReadRecords, WriteZip, WriteManifest, ReadHead
<1>5. CASE RejectedJob(w) \/ CommitUnseen(w)
  <2>1. Busy(w) /\ \E moved \in BOOLEAN : worker' = [worker EXCEPT ![w] = AfterError(w, moved)]
    BY <1>5 DEF RejectedJob, CommitUnseen, Recorded, Busy
  <2>2. \A moved \in BOOLEAN : AfterError(w, moved) = Idle \/ AfterError(w, moved).lease = worker[w].lease
    BY <1>0, <1>i DEF AfterError, WorkerStates
  <2> QED  BY <2>1, <2>2, <1>i DEF Busy
<1> QED  BY <1>1, <1>2, <1>3, <1>4, <1>5 DEF Proceed

(* A command leaves the seal alone: it cannot lock what is locked, and what *)
(* it writes is refused once there is a seal.                               *)
LEMMA SealKeptByRequests ==
  ASSUME SealInv, NEW r \in Requests, Gate(r) \/ Plan(r) \/ Commit(r) \/ Rejected(r)
  PROVE  SealedTogether' /\ LeasesApart' /\ ObjectsThere'
<1>1. UNCHANGED <<seal, zips, manifests, worker>>
  BY DEF Gate, Plan, Commit, Rejected, rows, objects
<1>2. CASE UNCHANGED <<engagement, run, job>>
  BY <1>1, <1>2 DEF SealInv, SealedTogether, LeasesApart, ObjectsThere, Busy, Key
<1>3. CASE ~UNCHANGED <<engagement, run, job>>
  <2>1. engagement' = LockedEngagement /\ QueueSeal /\ Unqueued
    BY <1>3 DEF Gate, Plan, Commit, Applies, Rejected, rows
  <2>2. job.status = "ABSENT" /\ seal = NoSeal
    BY <2>1 DEF Unqueued, SealInv, LockInv, RunIffLocked, SealedTogether
  <2>3. engagement'.state = engagement.state /\ job'.status = "PENDING" /\ run' = "QUEUED"
    BY <2>1 DEF LockedEngagement, SealInv, LockInv, TypeOK, Engagements, QueueSeal, QueuedRun
  <2>4. \A w \in Workers : ~Busy(w)
    BY <2>2 DEF SealInv, LeasesApart
  <2>5. SealedTogether'
    BY <1>1, <2>2, <2>3 DEF SealInv, SealedTogether
  <2>6. LeasesApart' /\ ObjectsThere'
    BY <1>1, <2>2, <2>4 DEF SealInv, LeasesApart, ObjectsThere, Busy, Key
  <2> QED  BY <2>5, <2>6
<1> QED  BY <1>2, <1>3

LEMMA LeasesKeptByWorkers ==
  ASSUME SealInv, NEW w \in Workers,
         Sweep(w) \/ Claim(w) \/ TakeFromSlow(w) \/ Proceed(w) \/ CommitUnseen(w) \/ Crash(w)
  PROVE  LeasesApart'
<1>w. /\ worker \in [Workers -> WorkerStates] /\ job \in Jobs /\ job.attempts \in Nat
      /\ \A v \in Workers : worker[v].lease \in Nat
  BY DEF SealInv, LockInv, TypeOK, Jobs, WorkerStates
<1>v. \A v \in Workers \ {w} : worker'[v] = worker[v]
  BY <1>w, LeaseSteps
<1>1. CASE Taken(w) /\ job.status # "ABSENT"
  <2>1. job'.status = "RUNNING" /\ job'.attempts = job.attempts + 1
    BY <1>1 DEF Taken
  <2>2. worker'[w].lease = job.attempts + 1
    BY <1>1, <1>w DEF Taken, Idle
  <2> QED  BY <1>w, <1>v, <2>1, <2>2 DEF SealInv, LeasesApart, Busy
<1>2. CASE Unqueued /\ QueueSeal
  <2>1. \A v \in Workers : ~Busy(v)
    BY <1>2 DEF Unqueued, SealInv, LockInv, RunIffLocked, LeasesApart
  <2>2. ~Taken(w)
    BY <1>2 DEF QueueSeal, Taken
  <2>3. \A v \in Workers : ~Busy(v)'
    BY <1>w, <1>v, <2>1, <2>2, LeaseSteps DEF Busy
  <2> QED  BY <2>3 DEF LeasesApart
<1>3. CASE ~Taken(w) /\ job'.attempts = job.attempts /\ (job'.status = "ABSENT" => job.status = "ABSENT")
  BY <1>w, <1>v, <1>3, LeaseSteps DEF SealInv, LeasesApart, Busy
<1>4. CASE Recorded(w)
  <2>1. job.status = "RUNNING"
    BY <1>4 DEF Recorded, Accepted, Leased
  <2>2. job'.attempts = job.attempts /\ job'.status # "ABSENT"
    BY <1>4, <1>w, <2>1 DEF Recorded, Seal, RecordFailure, Jobs
  <2>3. ~Taken(w)
    BY <1>4 DEF Recorded, Taken
  <2> QED  BY <1>3, <2>2, <2>3
<1>5. CASE UNCHANGED <<engagement, run, job, seal>>
  <2>1. ~Taken(w)
    BY <1>5, <1>w DEF Taken, Jobs
  <2> QED  BY <1>3, <1>5, <2>1
<1> QED  BY <1>1, <1>2, <1>4, <1>5, RowSteps

(* An object that a worker counts on is written before it goes on, and      *)
(* nobody deletes it: a failed attempt deletes under its own lease.         *)
LEMMA ObjectsKeptByWorkers ==
  ASSUME SealInv, NEW w \in Workers,
         Sweep(w) \/ Claim(w) \/ TakeFromSlow(w) \/ Proceed(w) \/ CommitUnseen(w) \/ Crash(w)
  PROVE  /\ \A v \in Workers :
              /\ worker'[v].pc = "manifest" => worker'[v].lease \in zips'
              /\ worker'[v].pc \in {"head", "batch"} /\ worker'[v].outcome = "SEAL"
                   => worker'[v].lease \in zips' \cap manifests'
         /\ seal # NoSeal => seal.key \in zips' \cap manifests'
<1>w. worker \in [Workers -> WorkerStates] /\ worker[w] \in WorkerStates
  BY DEF SealInv, LockInv, TypeOK
<1>v. \A v \in Workers \ {w} : worker'[v] = worker[v]
  BY <1>w, LeaseSteps
<1>i. Idle.pc = "idle" /\ Failing(w).pc = "head" /\ Failing(w).outcome = "FAIL"
  BY DEF Idle, Failing
<1>1. /\ \A v \in Workers :
           /\ worker[v].pc = "manifest" => worker[v].lease \in zips
           /\ worker[v].pc \in {"head", "batch"} /\ worker[v].outcome = "SEAL"
                => worker[v].lease \in zips \cap manifests
      /\ seal # NoSeal => seal.key \in zips \cap manifests
  BY DEF SealInv, SealedTogether, ObjectsThere, Key
(* What goes, and what comes. *)
<1>2. /\ \A k \in zips \ zips' : k = worker[w].lease /\ worker[w].pc \in {"zip", "manifest"}
      /\ manifests \subseteq manifests'
  BY DEF Sweep, Claim, TakeFromSlow, Taken, Proceed, Crash, SweepBatch, ReadFiles, ReadRecords, WriteZip,
     WriteManifest, ReadHead, CommitJob, CommitUnseen, Recorded, RejectedJob, objects, Key
<1>3. \A v \in Workers \ {w} : Busy(v) /\ worker[w].pc \in {"zip", "manifest"} => worker[v].lease # worker[w].lease
  BY DEF SealInv, LeasesApart, Busy
<1>4. seal # NoSeal /\ worker[w].pc \in {"zip", "manifest"} => worker[w].lease # seal.key
  BY DEF SealInv, ObjectsThere, Key
<1>5. \A v \in Workers \ {w} :
        /\ worker'[v].pc = "manifest" => worker'[v].lease \in zips'
        /\ worker'[v].pc \in {"head", "batch"} /\ worker'[v].outcome = "SEAL"
             => worker'[v].lease \in zips' \cap manifests'
  BY <1>v, <1>1, <1>2, <1>3 DEF Busy
<1>6. /\ worker'[w].pc = "manifest" => worker'[w].lease \in zips'
      /\ worker'[w].pc \in {"head", "batch"} /\ worker'[w].outcome = "SEAL"
           => worker'[w].lease \in zips' \cap manifests'
  <2>1. CASE worker'[w].pc \in {"idle", "sweep", "files", "records", "zip"}
    BY <2>1
  <2>2. CASE worker' = [worker EXCEPT ![w] = Failing(w)] \/ worker' = [worker EXCEPT ![w] = Idle]
    BY <2>2, <1>w, <1>i
  <2>3. CASE /\ worker[w].pc = "zip" /\ zips' = zips \cup {worker[w].lease}
             /\ worker' = [worker EXCEPT ![w].pc = "manifest"]
    BY <2>3, <1>w DEF WorkerStates
  <2>4. CASE /\ worker[w].pc = "manifest" /\ zips' = zips /\ manifests' = manifests \cup {worker[w].lease}
             /\ worker' = [worker EXCEPT ![w].pc = "head"]
    BY <2>4, <1>w, <1>1 DEF WorkerStates
  <2>5. CASE /\ worker[w].pc \in {"head", "batch"} /\ UNCHANGED objects
             /\ worker'[w].lease = worker[w].lease /\ worker'[w].outcome = worker[w].outcome
             /\ worker'[w].pc \in {"head", "batch"}
    BY <2>5, <1>1 DEF objects
  <2>6. CASE Sweep(w) \/ Claim(w) \/ TakeFromSlow(w)
    BY <2>1, <2>6, <1>w DEF Sweep, Claim, TakeFromSlow, Taken, Idle
  <2>7. CASE SweepBatch(w) \/ CommitJob(w) \/ Crash(w)
    BY <2>2, <2>7 DEF SweepBatch, CommitJob, Crash
  <2>8. CASE ReadFiles(w) \/ ReadRecords(w)
    <3>1. CASE worker'[w] = [worker[w] EXCEPT !.pc = "records", !.files = content \ Notes]
      BY <3>1, <2>1, <1>w DEF WorkerStates
    <3>2. CASE worker'[w] = [worker[w] EXCEPT !.pc = "zip", !.notes = content \cap Notes]
      BY <3>2, <2>1, <1>w DEF WorkerStates
    <3> QED  BY <2>2, <2>8, <3>1, <3>2, <1>w DEF ReadFiles, ReadRecords
  <2>9. CASE WriteZip(w) \/ WriteManifest(w)
    BY <2>2, <2>3, <2>4, <2>9 DEF WriteZip, WriteManifest, Key
  <2>10. CASE ReadHead(w)
    <3>1. worker'[w].pc = "batch" /\ worker'[w].lease = worker[w].lease /\ worker'[w].outcome = worker[w].outcome
      BY <2>10, <1>w DEF ReadHead, WorkerStates
    <3> QED  BY <3>1, <2>5, <2>10 DEF ReadHead
  <2>11. CASE RejectedJob(w) \/ CommitUnseen(w)
    <3>1. /\ worker[w].pc = "batch" /\ UNCHANGED objects
          /\ \E moved \in BOOLEAN : worker' = [worker EXCEPT ![w] = AfterError(w, moved)]
      BY <2>11 DEF RejectedJob, CommitUnseen, Recorded
    <3>2. CASE worker' = [worker EXCEPT ![w] = [worker[w] EXCEPT !.pc = "head", !.tries = worker[w].tries + 1]]
      <4>1. /\ worker'[w].pc = "head" /\ worker'[w].lease = worker[w].lease
            /\ worker'[w].outcome = worker[w].outcome
        BY <3>2, <1>w DEF WorkerStates
      <4> QED  BY <4>1, <3>1, <2>5
    <3> QED  BY <3>1, <3>2, <2>2 DEF AfterError
  <2> QED  BY <2>6, <2>7, <2>8, <2>9, <2>10, <2>11 DEF Proceed
<1>7. seal # NoSeal => seal.key \in zips' \cap manifests'
  BY <1>1, <1>2, <1>4
<1> QED  BY <1>5, <1>6, <1>7

(* A worker that has assembled its archive does not write objects again.    *)
LEMMA RecordingSteps ==
  ASSUME worker \in [Workers -> WorkerStates], NEW w \in Workers, worker[w].pc \in {"head", "batch"},
         Sweep(w) \/ Claim(w) \/ TakeFromSlow(w) \/ Proceed(w) \/ CommitUnseen(w) \/ Crash(w)
  PROVE  worker'[w].pc \in IF worker[w].pc = "batch" THEN {"idle", "head"} ELSE {"idle", "head", "batch"}
<1>0. worker[w] \in WorkerStates /\ Idle.pc = "idle" /\ Failing(w).pc = "head"
  BY DEF Idle, Failing
<1>1. ReadHead(w) \/ CommitJob(w) \/ RejectedJob(w) \/ CommitUnseen(w) \/ Crash(w)
  BY DEF Sweep, Claim, TakeFromSlow, Taken, Proceed, SweepBatch, ReadFiles, ReadRecords, WriteZip, WriteManifest
<1>2. CASE ReadHead(w)
  BY <1>0, <1>2 DEF ReadHead, WorkerStates
<1>3. CASE CommitJob(w) \/ Crash(w)
  BY <1>0, <1>3 DEF CommitJob, Crash
<1>4. CASE RejectedJob(w) \/ CommitUnseen(w)
  <2>1. \A moved : AfterError(w, moved).pc \in {"idle", "head"}
    BY <1>0 DEF AfterError, WorkerStates
  <2>2. \E moved : worker' = [worker EXCEPT ![w] = AfterError(w, moved)]
    BY <1>4 DEF RejectedJob, CommitUnseen
  <2> QED  BY <2>1, <2>2
<1> QED  BY <1>1, <1>2, <1>3, <1>4

(* The four rows change together: a run is sealed by the batch that also    *)
(* inserts the seal, archives the engagement and ends the job, under a      *)
(* lease that no other attempt has.                                         *)
LEMMA SealKeptByWorkers ==
  ASSUME SealInv, NEW w \in Workers,
         Sweep(w) \/ Claim(w) \/ TakeFromSlow(w) \/ Proceed(w) \/ CommitUnseen(w) \/ Crash(w)
  PROVE  SealedTogether' /\ ObjectsThere'
<1>w. worker \in [Workers -> WorkerStates] /\ worker[w] \in WorkerStates /\ engagement \in Engagements /\ job \in Jobs
  BY DEF SealInv, LockInv, TypeOK
<1>v. \A v \in Workers \ {w} : worker'[v] = worker[v]
  BY <1>w, LeaseSteps
<1>o. /\ \A v \in Workers :
           /\ worker'[v].pc = "manifest" => worker'[v].lease \in zips'
           /\ worker'[v].pc \in {"head", "batch"} /\ worker'[v].outcome = "SEAL"
                => worker'[v].lease \in zips' \cap manifests'
      /\ seal # NoSeal => seal.key \in zips' \cap manifests'
  BY ObjectsKeptByWorkers
(* Nobody starts on a job that is sealed. *)
<1>k. ASSUME seal # NoSeal, worker'[w].pc \in {"files", "records", "zip", "manifest"}
      PROVE  worker'[w].lease # seal.key
  <2>1. job.status = "SUCCEEDED" /\ run = "SEALED"
    BY <1>k DEF SealInv, SealedTogether
  <2>2. ~Taken(w) \/ job.status \in {"PENDING", "RUNNING", "RETRYABLE_FAILED"}
    <3>1. Taken(w) => job' # job
      BY <2>1 DEF Taken
    <3>2. ~Recorded(w)
      BY <2>1 DEF Recorded, Accepted, Leased
    <3> QED  BY <3>1, <3>2, <2>1, RowSteps DEF Unqueued
  <2>3. Busy(w) /\ worker'[w].lease = worker[w].lease
    BY <1>k, <1>w, <2>1, <2>2, LeaseSteps DEF Busy
  <2>4. worker[w].pc \in {"files", "records", "zip", "manifest"}
    <3>1. CASE worker[w].pc \in {"head", "batch"}
      BY <1>k, <1>w, <3>1, RecordingSteps
    <3> QED  BY <2>3, <3>1, <1>w DEF Busy, WorkerStates, Phases
  <2> QED  BY <1>k, <2>3, <2>4 DEF SealInv, ObjectsThere, Key
<1>1. CASE UNCHANGED <<engagement, run, job, seal>>
  <2>1. SealedTogether'
    BY <1>1, <1>o DEF SealInv, SealedTogether
  <2>2. ObjectsThere'
    BY <1>1, <1>o, <1>k, <1>v DEF SealInv, ObjectsThere, Key
  <2> QED  BY <2>1, <2>2
<1>2. CASE Unqueued /\ QueueSeal /\ engagement' \in {LockedEngagement, engagement} /\ UNCHANGED seal
  <2>1. seal = NoSeal
    BY <1>2 DEF Unqueued, SealInv, SealedTogether
  <2>2. engagement'.state = engagement.state /\ job'.status = "PENDING" /\ run' = "QUEUED"
    BY <1>2, <1>w DEF LockedEngagement, Engagements, QueueSeal, QueuedRun
  <2>3. SealedTogether'
    BY <1>2, <2>1, <2>2 DEF SealInv, SealedTogether
  <2>4. ObjectsThere'
    BY <1>2, <1>o, <2>1 DEF ObjectsThere, Key
  <2> QED  BY <2>3, <2>4
<1>3. CASE Taken(w) /\ job.status \in {"PENDING", "RUNNING", "RETRYABLE_FAILED"} /\ UNCHANGED <<engagement, run, seal, objects>>
  <2>1. seal = NoSeal /\ job'.status = "RUNNING"
    BY <1>3 DEF SealInv, SealedTogether, Taken
  <2>2. SealedTogether'
    BY <1>3, <2>1 DEF SealInv, SealedTogether
  <2>3. ObjectsThere'
    BY <1>3, <1>o, <2>1 DEF ObjectsThere, Key
  <2> QED  BY <2>2, <2>3
<1>4. CASE Recorded(w) /\ UNCHANGED objects
  <2>1. /\ job.status = "RUNNING" /\ seal = NoSeal /\ run # "SEALED" /\ engagement.state = "COMPLIANCE_COUNTDOWN"
        /\ engagement.locked /\ worker[w].pc = "batch" /\ Leased(w)
    BY <1>4, <1>w DEF Recorded, Accepted, Leased, SealInv, SealedTogether, LockInv, RunIffLocked, Engagements
  <2>2. CASE Seal(w)
    <3>1. /\ seal' # NoSeal /\ seal'.key = worker[w].lease
      <4>1. worker[w].files \in SUBSET CommittedFiles /\ worker[w].notes \in SUBSET Notes /\ worker[w].lease \in Nat
        BY <1>w DEF WorkerStates
      <4>2. seal' \in Seals /\ seal'.key = worker[w].lease
        BY <2>2, <4>1 DEF Seal, Seals, Key
      <4> QED  BY <4>2, NoSealAssumption
    <3>2. run' = "SEALED" /\ job'.status = "SUCCEEDED" /\ engagement'.state = "ARCHIVED_READ_ONLY"
      BY <2>1, <2>2, <1>w DEF Seal, Countdown, Engagements, Jobs
    <3>3. seal'.key \in zips' \cap manifests'
      BY <2>1, <2>2, <3>1, <1>4 DEF Seal, objects, SealInv, ObjectsThere, Key
    <3>4. SealedTogether'
      BY <3>1, <3>2, <3>3 DEF SealedTogether
    <3>5. worker'[w].pc \in {"idle", "head"}
      BY <1>w, <2>1, RecordingSteps
    <3>6. \A v \in Workers \ {w} : worker[v].pc \in {"files", "records", "zip", "manifest"} => worker[v].lease # worker[w].lease
      BY <2>1 DEF SealInv, LeasesApart, Busy
    <3>7. \A v \in Workers : worker'[v].pc \in {"files", "records", "zip", "manifest"} => worker'[v].lease # seal'.key
      BY <1>v, <3>1, <3>5, <3>6
    <3>8. ObjectsThere'
      BY <1>o, <3>7 DEF ObjectsThere, Key
    <3> QED  BY <3>4, <3>8
  <2>3. CASE RecordFailure(w)
    <3>1. seal' = NoSeal /\ run' = "FAILED" /\ engagement' = engagement
      BY <2>1, <2>3 DEF RecordFailure
    <3>2. job'.status \in {"RETRYABLE_FAILED", "PERMANENT_FAILED"}
      BY <2>1, <2>3, <1>w DEF RecordFailure, Jobs
    <3>3. SealedTogether'
      BY <2>1, <3>1, <3>2 DEF SealedTogether
    <3>4. ObjectsThere'
      BY <1>o, <3>1 DEF ObjectsThere, Key
    <3> QED  BY <3>3, <3>4
  <2> QED  BY <1>4, <2>2, <2>3 DEF Recorded
<1> QED  BY <1>1, <1>2, <1>3, <1>4, RowSteps

LEMMA SealAlways == Spec => []SealInv
<1>1. Init => SealedTogether /\ LeasesApart /\ ObjectsThere
  BY DEF Init, SealedTogether, LeasesApart, ObjectsThere, Busy, Idle
<1>2. SealInv /\ [Next]_vars => SealedTogether' /\ LeasesApart' /\ ObjectsThere'
  <2> SUFFICES ASSUME SealInv, [Next]_vars PROVE SealedTogether' /\ LeasesApart' /\ ObjectsThere'
    OBVIOUS
  <2>1. CASE \E r \in Requests : Gate(r) \/ Plan(r) \/ Commit(r) \/ Rejected(r)
    BY <2>1, SealKeptByRequests
  <2>2. CASE DeadlinePasses \/ (\E d \in Generated : Render(d)) \/ UNCHANGED vars
    BY <2>2 DEF DeadlinePasses, Render, vars, rows, objects, SealInv, SealedTogether, LeasesApart, ObjectsThere, Busy, Key
  <2>3. CASE \E w \in Workers : Sweep(w) \/ Claim(w) \/ TakeFromSlow(w) \/ Proceed(w) \/ CommitUnseen(w) \/ Crash(w)
    BY <2>3, SealKeptByWorkers, LeasesKeptByWorkers
  <2> QED  BY <2>1, <2>2, <2>3 DEF Next
<1> QED  BY <1>1, <1>2, LockAlways, PTL DEF Spec, SealInv

(* The outcome of the archive is one: run, job, engagement and seal agree,  *)
(* and the objects of the seal are in the store, for any number of          *)
(* attempts that overlap (sealArchive, commitJobMutation).                  *)
THEOREM SealedAsOne == Spec => []SealedTogether
<1>1. SealInv => SealedTogether
  BY DEF SealInv
<1> QED  BY <1>1, SealAlways, PTL

(* A step after the seal: nothing that is sealed moves, and only evidence   *)
(* of a payment and its receipt join.                                       *)
LEMMA SealedStays ==
  ASSUME SealInv, seal # NoSeal, [Next]_vars
  PROVE  /\ content \subseteq content' /\ content' \ content \subseteq Evidence \cup Receipts
         /\ engagement' = engagement
         /\ seal' = seal
<1>0. run = "SEALED" /\ job.status = "SUCCEEDED"
  BY DEF SealInv, SealedTogether
<1>1. ASSUME NEW r \in Requests, Gate(r) \/ Plan(r) \/ Commit(r) \/ Rejected(r)
      PROVE  /\ content \subseteq content' /\ content' \ content \subseteq Evidence \cup Receipts
             /\ engagement' = engagement
             /\ seal' = seal
  <2>1. CASE Commit(r)
    BY <1>0, <2>1 DEF Commit, Applies, Writable, Unqueued, Content, CommittedFiles, Generated
  <2>2. CASE Gate(r) \/ Plan(r) \/ Rejected(r)
    BY <2>2 DEF Gate, Plan, Rejected, rows
  <2> QED  BY <1>1, <2>1, <2>2
<1>2. ASSUME NEW w \in Workers,
             Sweep(w) \/ Claim(w) \/ TakeFromSlow(w) \/ Proceed(w) \/ CommitUnseen(w) \/ Crash(w)
      PROVE  UNCHANGED <<content, engagement, seal>>
  BY <1>0, <1>2, RowSteps DEF Unqueued, Recorded, Accepted, Leased
<1>3. CASE DeadlinePasses \/ UNCHANGED vars
  BY <1>3 DEF DeadlinePasses, vars, rows
<1>4. CASE \E d \in Generated : Render(d)
  BY <1>4 DEF Render, Writable, Generated
<1> QED  BY <1>1, <1>2, <1>3, <1>4 DEF Next

(* A sealed engagement is final, whatever was under way when it was sealed: *)
(* commands and renderings are refused by the triggers of migration 0026    *)
(* and by the run that exists, attempts by the job that has ended.          *)
THEOREM SealedForGood == Spec => SealedIsFinal
<1>1. SealInv /\ [Next]_vars =>
        [seal # NoSeal =>
           /\ content \subseteq content' /\ content' \ content \subseteq Evidence \cup Receipts
           /\ engagement' = engagement
           /\ seal' = seal]_vars
  BY SealedStays
<1> QED  BY <1>1, SealAlways, PTL DEF Spec, SealedIsFinal
================================================================================
