-------------------------------- MODULE Archive --------------------------------
(***************************************************************************)
(* The archive of one released engagement: the countdown of its assembly   *)
(* period, the lock that ends it (by a Partner's command or by the minute  *)
(* cron once the deadline has passed), and the job that assembles the      *)
(* sealed archive, in the object store, out of what is in the database.    *)
(*                                                                         *)
(* The sweep of due engagements is the one writer that does not move the   *)
(* head of the workspace's audit chain, so a command that read the head    *)
(* before the sweep is not made to plan again by it: what stops such a     *)
(* command is its own assertion, if it has one, or the triggers that make  *)
(* the content of a sealed engagement immutable.                           *)
(*                                                                         *)
(* Jobs write files, too: a document that is rendered for the engagement   *)
(* (the receipt voucher of a payment, a confirmation request queued before *)
(* the release) is committed with no question about its lock or its state. *)
(*                                                                         *)
(* Clocks are replaced by what they decide: the deadline passes, a backoff *)
(* ends and a lease lapses at some time.  A lease is named by the number   *)
(* of the claim that took it.  A worker is an invocation of the cron, and  *)
(* invocations overlap.  A command may read the head of the chain again 23 *)
(* times; there are never that many commits here, so it has no limit.      *)
(***************************************************************************)
EXTENDS Naturals

CONSTANTS
  Notes,          (* requests of archive.note                              *)
  Files,          (* requests of file.commit, for a file of the engagement *)
  Evidence,       (* requests of file.commit, for evidence of a payment    *)
  Receipts,       (* receipt vouchers that a job renders                   *)
  Letters,        (* other documents that a job renders                    *)
  Locks,          (* requests of archive.lock                              *)
  Policies,       (* requests of retention-policy.save                     *)
  Workers,        (* overlapping invocations of the cron                   *)
  NoSeal,         (* there is no row in archive_seals                      *)
  MaxAttempts,    (* MAX_JOB_ATTEMPTS, 5 in the code                       *)
  MaxTries,       (* tries of a job's batch, 4 in the code                 *)
  MaxFaults       (* bound: calls that fail, workers that die or are slow  *)

Generated == Receipts \cup Letters
CommittedFiles == Files \cup Evidence \cup Generated
Content == Notes \cup CommittedFiles
Requests == Notes \cup Files \cup Evidence \cup Locks \cup Policies

ASSUME KindsAssumption ==
  /\ Notes \cap (Files \cup Evidence \cup Locks \cup Policies) = {}
  /\ Files \cap (Evidence \cup Locks \cup Policies) = {}
  /\ Evidence \cap (Locks \cup Policies) = {}
  /\ Locks \cap Policies = {}
  /\ Receipts \cap Letters = {}
  /\ Generated \cap Requests = {}
  /\ Workers \cap Requests = {}
ASSUME LimitsAssumption == MaxAttempts \in Nat \ {0} /\ MaxTries \in Nat \ {0} /\ MaxFaults \in Nat

VARIABLES
  engagement,     (* its lifecycle state, locked_at, version               *)
  due,            (* archive_due_at has passed                             *)
  policy,         (* the workspace has a retention policy                  *)
  content,        (* notes and COMMITTED files of the engagement           *)
  run,            (* status of the engagement's row in archive_runs        *)
  job,            (* its SEAL_ARCHIVE job in outbox_jobs                   *)
  seal,           (* the engagement's row in archive_seals                 *)
  zips,           (* ZIP objects in the store, by the key they have        *)
  manifests,      (* manifest objects in the store                         *)
  req,            (* how far each request has come                         *)
  worker,         (* what each worker is doing                             *)
  fresh,          (* requests, workers whose audit head is still current   *)
  faults          (* faults so far                                         *)

rows == <<engagement, policy, content, run, job, seal>>
objects == <<zips, manifests>>
vars == <<rows, due, objects, req, worker, fresh, faults>>

----
JobStatuses == {"ABSENT", "PENDING", "RUNNING", "SUCCEEDED", "RETRYABLE_FAILED", "PERMANENT_FAILED"}
RunStatuses == {"ABSENT", "QUEUED", "FAILED", "SEALED"}
Phases == {"idle", "sweep", "files", "records", "zip", "manifest", "head", "batch"}

Engagements == [state : {"COMPLIANCE_COUNTDOWN", "ARCHIVED_READ_ONLY"}, locked : BOOLEAN, version : Nat]
Jobs == [status : JobStatuses, attempts : Nat]

(* What the manifest lists, and the key of the ZIP that goes with it. *)
Seals == [files : SUBSET CommittedFiles, notes : SUBSET Notes, key : Nat]
ASSUME NoSealAssumption == NoSeal \notin Seals

RequestStates == [pc : {"new", "plan", "batch", "done", "refused"}, seen : Nat]

(* A worker that sweeps has the engagement's version as it selected it; one *)
(* that seals has its lease, what it read, and what it is to record.        *)
WorkerStates ==
  [pc : Phases, seen : Nat, lease : Nat, files : SUBSET CommittedFiles, notes : SUBSET Notes,
   outcome : {"SEAL", "FAIL"}, tries : 0..(MaxTries - 1)]

Idle == [pc |-> "idle", seen |-> 0, lease |-> 0, files |-> {}, notes |-> {}, outcome |-> "SEAL", tries |-> 0]

TypeOK ==
  /\ engagement \in Engagements
  /\ due \in BOOLEAN
  /\ policy \in BOOLEAN
  /\ content \subseteq Content
  /\ run \in RunStatuses
  /\ job \in Jobs
  /\ seal \in Seals \cup {NoSeal}
  /\ zips \subseteq Nat
  /\ manifests \subseteq Nat
  /\ req \in [Requests -> RequestStates]
  /\ worker \in [Workers -> WorkerStates]
  /\ fresh \subseteq Requests \cup Workers
  /\ faults \in 0..MaxFaults

(* The Partner has just released the engagement; a release does not ask for *)
(* a retention policy.                                                      *)
Init ==
  /\ engagement = [state |-> "COMPLIANCE_COUNTDOWN", locked |-> FALSE, version |-> 1]
  /\ due = FALSE
  /\ policy \in BOOLEAN
  /\ content = {}
  /\ run = "ABSENT"
  /\ job = [status |-> "ABSENT", attempts |-> 0]
  /\ seal = NoSeal
  /\ zips = {}
  /\ manifests = {}
  /\ req = [r \in Requests |-> [pc |-> IF r \in Notes THEN "new" ELSE "plan", seen |-> 0]]
  /\ worker = [w \in Workers |-> Idle]
  /\ fresh = {}
  /\ faults = 0

----
(* The commands. *)

Countdown == engagement.state = "COMPLIANCE_COUNTDOWN"
Frozen == engagement.locked \/ ~Countdown \/ due

Refused == [pc |-> "refused", seen |-> 0]

(* A command that names the engagement is refused once it is read-only; of  *)
(* the commands here, only a note names it and is not exempt.  The question *)
(* is not asked again when the command plans again.                         *)
Gate(r) ==
  /\ req[r].pc = "new"
  /\ req' = [req EXCEPT ![r] = IF Frozen THEN Refused ELSE [pc |-> "plan", seen |-> 0]]
  /\ UNCHANGED <<rows, due, objects, worker, fresh, faults>>

(* What the builder of the command's statements asks of what it reads. *)
Admits(r) ==
  /\ r \in Notes \cup Locks => Countdown /\ ~engagement.locked
  /\ r \in Locks => policy
  /\ r \in Files => ~Frozen

(* The head of the chain is read, then the statements are built. *)
Plan(r) ==
  /\ req[r].pc = "plan"
  /\ \/ /\ Admits(r)
        /\ req' = [req EXCEPT ![r] = [pc |-> "batch", seen |-> engagement.version]]
        /\ fresh' = fresh \cup {r}
     \/ /\ ~Admits(r)
        /\ req' = [req EXCEPT ![r] = Refused]
        /\ UNCHANGED fresh
  /\ UNCHANGED <<rows, due, objects, worker, faults>>

(* Mutant: file.commit relies on what its builder read. *)
AssertedFileUnguarded(r) ==
  r \in Locks => Countdown /\ ~engagement.locked /\ engagement.version = req[r].seen

(* The assertions a batch carries: 73 of file.commit, 704 of archive.lock.  *)
(* A note carries none.                                                     *)
Asserted(r) ==
  /\ r \in Files => Countdown /\ ~engagement.locked
  /\ r \in Locks => Countdown /\ ~engagement.locked /\ engagement.version = req[r].seen

(* The triggers of migration 0026: once a seal exists, rows of notes and    *)
(* files do not change, save for evidence of a payment and its receipt.     *)
Writable(r) == r \in Notes \cup Files \cup Letters => seal = NoSeal

(* archive_runs and the deduplication key admit one run of an engagement. *)
Unqueued == run = "ABSENT"

Applies(r) == r \in fresh /\ Asserted(r) /\ Writable(r) /\ (r \in Locks => Unqueued)

(* Mutant: the run is not inserted. *)
NoRun == run

(* Locking an engagement queues its archive in the same batch. *)
QueuedRun == "QUEUED"
QueueSeal ==
  /\ run' = QueuedRun
  /\ job' = [status |-> "PENDING", attempts |-> 0]

LockedEngagement == [engagement EXCEPT !.locked = TRUE, !.version = engagement.version + 1]

Commit(r) ==
  /\ req[r].pc = "batch"
  /\ Applies(r)
  /\ \/ /\ r \in Content
        /\ content' = content \cup {r}
        /\ UNCHANGED <<engagement, policy, run, job>>
     \/ /\ r \in Locks
        /\ engagement' = LockedEngagement
        /\ QueueSeal
        /\ UNCHANGED <<policy, content>>
     \/ /\ r \in Policies
        /\ policy' = TRUE
        /\ UNCHANGED <<engagement, content, run, job>>
  /\ req' = [req EXCEPT ![r] = [pc |-> "done", seen |-> 0]]
  /\ fresh' = {}
  /\ UNCHANGED <<due, seal, objects, worker, faults>>

(* A batch that fails is planned again if the head has moved. *)
Rejected(r) ==
  /\ req[r].pc = "batch"
  /\ ~Applies(r)
  /\ req' = [req EXCEPT ![r] = IF r \in fresh THEN Refused ELSE [pc |-> "plan", seen |-> 0]]
  /\ fresh' = fresh \ {r}
  /\ UNCHANGED <<rows, due, objects, worker, faults>>

DeadlinePasses ==
  /\ ~due
  /\ due' = TRUE
  /\ UNCHANGED <<rows, objects, req, worker, fresh, faults>>

----
(* What jobs and the cron do. *)

Fault == faults < MaxFaults /\ faults' = faults + 1

(* A job renders a document: its batch asks for the lease of the job only,  *)
(* and whether it commits a file or records a failure, it moves the head.   *)
Render(d) ==
  /\ d \notin content
  /\ \/ Writable(d) /\ content' = content \cup {d} /\ UNCHANGED faults
     \/ Fault /\ UNCHANGED content
  /\ fresh' = {}
  /\ UNCHANGED <<engagement, policy, run, job, seal, due, objects, req, worker>>

SweepSelects == due /\ Countdown /\ ~engagement.locked /\ Unqueued

Sweep(w) ==
  /\ worker[w].pc = "idle"
  /\ SweepSelects
  /\ worker' = [worker EXCEPT ![w] = [Idle EXCEPT !.pc = "sweep", !.seen = engagement.version]]
  /\ UNCHANGED <<rows, due, objects, req, fresh, faults>>

(* The lock is guarded by the version selected, the insertions are not; all *)
(* of it is undone when the run exists.                                     *)
SweepBatch(w) ==
  /\ worker[w].pc = "sweep"
  /\ worker' = [worker EXCEPT ![w] = Idle]
  /\ \/ /\ Unqueued
        /\ engagement' = IF engagement.version = worker[w].seen /\ Countdown /\ ~engagement.locked
                         THEN LockedEngagement
                         ELSE engagement
        /\ QueueSeal
        /\ UNCHANGED faults
     \/ ~Unqueued /\ UNCHANGED <<engagement, run, job, faults>>
     \/ Fault /\ UNCHANGED <<engagement, run, job>>
  /\ UNCHANGED <<due, policy, content, seal, objects, req, fresh>>

----
(* The job that seals the archive. *)

Holds(w) == worker[w].pc \notin {"idle", "sweep"} /\ worker[w].lease = job.attempts

(* The job is taken when it is ready, and when its lease has lapsed, because *)
(* its worker is gone or, a fault, because it is slow.                       *)
Lapsed == job.status = "RUNNING" /\ \A w \in Workers : ~Holds(w)

Taken(w) ==
  /\ worker[w].pc = "idle"
  /\ job' = [status |-> "RUNNING", attempts |-> job.attempts + 1]
  /\ worker' = [worker EXCEPT ![w] = [Idle EXCEPT !.pc = "files", !.lease = job.attempts + 1]]
  /\ UNCHANGED <<engagement, due, policy, content, run, seal, objects, req, fresh>>

(* Mutant: a lapsed lease is never taken over, as for an email. *)
ClaimableOnce == job.status \in {"PENDING", "RETRYABLE_FAILED"}

Claimable == job.status \in {"PENDING", "RETRYABLE_FAILED"} \/ Lapsed

Claim(w) == Claimable /\ Taken(w) /\ UNCHANGED faults

TakeFromSlow(w) == job.status = "RUNNING" /\ ~Lapsed /\ Taken(w) /\ Fault

(* The error of a job goes into a batch of its own. *)
Failing(w) == [Idle EXCEPT !.pc = "head", !.lease = worker[w].lease, !.outcome = "FAIL"]

Ready == run # "ABSENT" /\ run # "SEALED" /\ Countdown /\ engagement.locked /\ policy

(* The run, the committed files and the objects that hold their bytes. *)
ReadFiles(w) ==
  /\ worker[w].pc = "files"
  /\ \/ /\ Ready
        /\ worker' = [worker EXCEPT ![w] = [worker[w] EXCEPT !.pc = "records", !.files = content \ Notes]]
        /\ UNCHANGED faults
     \/ /\ (~Ready /\ UNCHANGED faults) \/ Fault
        /\ worker' = [worker EXCEPT ![w] = Failing(w)]
  /\ UNCHANGED <<rows, due, objects, req, fresh>>

ReadRecords(w) ==
  /\ worker[w].pc = "records"
  /\ worker' = [worker EXCEPT ![w] = [worker[w] EXCEPT !.pc = "zip", !.notes = content \cap Notes]]
  /\ UNCHANGED <<rows, due, objects, req, fresh, faults>>

(* Every attempt has keys of its own. *)
Key(w) == worker[w].lease

(* A ZIP that is not read back as it was written is deleted. *)
WriteZip(w) ==
  /\ worker[w].pc = "zip"
  /\ \/ /\ zips' = zips \cup {Key(w)}
        /\ worker' = [worker EXCEPT ![w].pc = "manifest"]
        /\ UNCHANGED faults
     \/ /\ zips' = zips \ {Key(w)}
        /\ worker' = [worker EXCEPT ![w] = Failing(w)]
        /\ Fault
  /\ UNCHANGED <<rows, due, manifests, req, fresh>>

(* A manifest that is read back wrong takes the ZIP with it; a call that    *)
(* throws leaves the ZIP, the manifest written or not.                      *)
WriteManifest(w) ==
  /\ worker[w].pc = "manifest"
  /\ \/ /\ manifests' = manifests \cup {Key(w)}
        /\ worker' = [worker EXCEPT ![w].pc = "head"]
        /\ UNCHANGED <<faults, zips>>
     \/ /\ manifests' = manifests \cup {Key(w)}
        /\ zips' = zips \ {Key(w)}
        /\ worker' = [worker EXCEPT ![w] = Failing(w)]
        /\ Fault
     \/ /\ manifests' \in {manifests, manifests \cup {Key(w)}}
        /\ worker' = [worker EXCEPT ![w] = Failing(w)]
        /\ Fault
        /\ UNCHANGED zips
  /\ UNCHANGED <<rows, due, req, fresh>>

ReadHead(w) ==
  /\ worker[w].pc = "head"
  /\ worker' = [worker EXCEPT ![w].pc = "batch"]
  /\ fresh' = fresh \cup {w}
  /\ UNCHANGED <<rows, due, objects, req, faults>>

(* Mutant: the lease is not asserted and the seal is replaced, not inserted. *)
AcceptedOnHead(w) == w \in fresh

(* Mutant: the lease is not asserted, so a slow worker seals what another   *)
(* has been given.                                                          *)
AcceptedUnleased(w) == w \in fresh /\ (worker[w].outcome = "SEAL" => seal = NoSeal)

(* Assertion 989: the job is still running under the lease of this worker. *)
Leased(w) == job.status = "RUNNING" /\ job.attempts = worker[w].lease

Seal(w) ==
  /\ worker[w].outcome = "SEAL"
  /\ seal' = [files |-> worker[w].files, notes |-> worker[w].notes, key |-> Key(w)]
  /\ run' = "SEALED"
  /\ engagement' = IF Countdown /\ engagement.locked
                   THEN [engagement EXCEPT !.state = "ARCHIVED_READ_ONLY", !.version = engagement.version + 1]
                   ELSE engagement
  /\ job' = IF Leased(w) THEN [job EXCEPT !.status = "SUCCEEDED"] ELSE job

(* A run is FAILED by every failed attempt, the last or not. *)
RecordFailure(w) ==
  /\ worker[w].outcome = "FAIL"
  /\ run' = IF run = "SEALED" THEN run ELSE "FAILED"
  /\ job' = IF ~Leased(w) THEN job
            ELSE [job EXCEPT !.status = IF worker[w].lease < MaxAttempts THEN "RETRYABLE_FAILED" ELSE "PERMANENT_FAILED"]
  /\ UNCHANGED <<engagement, seal>>

(* Assertions 989 and 991, and the one seal that an engagement may have. *)
Accepted(w) == Leased(w) /\ w \in fresh /\ (worker[w].outcome = "SEAL" => seal = NoSeal)

Recorded(w) ==
  /\ worker[w].pc = "batch"
  /\ Accepted(w)
  /\ Seal(w) \/ RecordFailure(w)
  /\ fresh' = {}
  /\ UNCHANGED <<due, policy, content, objects, req>>

CommitJob(w) ==
  /\ Recorded(w)
  /\ worker' = [worker EXCEPT ![w] = Idle]
  /\ UNCHANGED faults

TriesLeft(w) == worker[w].tries + 1 < MaxTries

(* A batch is tried again if the head has moved.  The error of a seal is to *)
(* be recorded, that of a failure is only logged.                           *)
AfterError(w, moved) ==
  IF moved /\ TriesLeft(w)
  THEN [worker[w] EXCEPT !.pc = "head", !.tries = worker[w].tries + 1]
  ELSE IF worker[w].outcome = "SEAL" THEN Failing(w) ELSE Idle

(* The batch commits, the call reports an error: the head has moved.        *)
CommitUnseen(w) ==
  /\ Recorded(w)
  /\ worker' = [worker EXCEPT ![w] = AfterError(w, TRUE)]
  /\ Fault

(* With a fault, it may be the head that cannot be read. *)
RejectedJob(w) ==
  /\ worker[w].pc = "batch"
  /\ \E moved \in {FALSE, w \notin fresh} :
       /\ (~Accepted(w) /\ moved = (w \notin fresh) /\ UNCHANGED faults) \/ Fault
       /\ worker' = [worker EXCEPT ![w] = AfterError(w, moved)]
  /\ fresh' = fresh \ {w}
  /\ UNCHANGED <<rows, due, objects, req>>

Crash(w) ==
  /\ worker[w].pc # "idle"
  /\ Fault
  /\ worker' = [worker EXCEPT ![w] = Idle]
  /\ fresh' = fresh \ {w}
  /\ UNCHANGED <<rows, due, objects, req>>

----
Proceed(w) ==
  \/ SweepBatch(w) \/ ReadFiles(w) \/ ReadRecords(w) \/ WriteZip(w) \/ WriteManifest(w)
  \/ ReadHead(w) \/ CommitJob(w) \/ RejectedJob(w)

Next ==
  \/ \E r \in Requests : Gate(r) \/ Plan(r) \/ Commit(r) \/ Rejected(r)
  \/ \E d \in Generated : Render(d)
  \/ DeadlinePasses
  \/ \E w \in Workers : Sweep(w) \/ Claim(w) \/ TakeFromSlow(w) \/ Proceed(w) \/ CommitUnseen(w) \/ Crash(w)

Spec == Init /\ [][Next]_vars

(* The cron runs every minute, and an invocation that does not die goes on. *)
(* Nothing is asked of users.                                               *)
Fairness ==
  /\ WF_vars(\E w \in Workers : Sweep(w))
  /\ SF_vars(\E w \in Workers : Claim(w))
  /\ \A w \in Workers : WF_vars(Proceed(w))

FairSpec == Spec /\ Fairness

----
(* An engagement is locked exactly when its archive run and its seal job    *)
(* exist, whoever locks it and however lock and sweep overlap: the sweep    *)
(* looks no more at an engagement with a run, so one that had a run and no  *)
(* lock would stay open for ever.                                           *)
RunIffLocked ==
  /\ engagement.locked <=> run # "ABSENT"
  /\ engagement.locked <=> job.status # "ABSENT"

(* The job, the run, the engagement and the seal say the same of the        *)
(* outcome, however attempts of workers that lost their lease overlap; a    *)
(* job that is given up has left its run FAILED.  The objects that a seal   *)
(* names are in the store: no failed attempt of another worker deletes them *)
(* or replaces one of them.                                                 *)
SealedTogether ==
  /\ seal # NoSeal <=> run = "SEALED"
  /\ seal # NoSeal <=> job.status = "SUCCEEDED"
  /\ seal # NoSeal <=> engagement.state = "ARCHIVED_READ_ONLY"
  /\ job.status = "PERMANENT_FAILED" => run = "FAILED"
  /\ seal # NoSeal => seal.key \in zips \cap manifests

(* Every file that file.commit committed to the engagement, evidence of     *)
(* payments apart, is in the sealed archive, although the files are read    *)
(* long before the seal is committed and the sweep leaves the audit head    *)
(* alone.  Documents that jobs render may be missed, see                    *)
(* CommittedObjectsVerified.                                                *)
FilesArchived == seal # NoSeal => content \cap Files \subseteq seal.files

(* Once sealed, an engagement gains nothing but evidence of payments and    *)
(* their receipts, and neither it nor its seal changes, whatever commands,  *)
(* workers and renderings were under way when it was sealed.                *)
SealedIsFinal ==
  [][seal # NoSeal =>
       /\ content \subseteq content' /\ content' \ content \subseteq Evidence \cup Receipts
       /\ engagement' = engagement
       /\ seal' = seal]_vars

(* An engagement whose deadline has passed gets locked, "even if archive    *)
(* assembly is delayed" (businessReporting.ts:732), and a locked engagement *)
(* gets sealed, or its job is given up for an operator to see.              *)
DueIsSettled ==
  /\ due ~> engagement.locked
  /\ engagement.locked ~> (seal # NoSeal \/ job.status = "PERMANENT_FAILED")

(* "all committed objects were hash-verified, and the immutable archive     *)
(* manifest was sealed" (businessReportingJobs.ts:467, the reason recorded  *)
(* with the transition): the files that are committed when the seal is, are *)
(* among those that were verified.                                          *)
CommittedObjectsVerified ==
  [][seal = NoSeal /\ seal' # NoSeal => content \ Notes \subseteq seal'.files]_vars
================================================================================
