-------------------------------- MODULE Outbox --------------------------------
(***************************************************************************)
(* The background jobs of one workspace (worker/businessOutbox.ts) around  *)
(* the proposal of one engagement: jobs that render the PDF of a proposal  *)
(* revision and jobs that email it, the commands that queue and retry      *)
(* them, the email provider, and its status webhook.                       *)
(*                                                                         *)
(* A worker is an invocation of the minute cron; invocations overlap.  A   *)
(* worker claims a job under a lease, does the job's external work, and    *)
(* commits the outcome in a batch which requires that the job is still     *)
(* RUNNING under that lease and that the head of the audit chain is the    *)
(* one the worker read.  A batch that fails is tried again if another      *)
(* commit moved the head; otherwise the error is recorded, by a batch of   *)
(* the same kind, which is not recorded if it fails too.                   *)
(*                                                                         *)
(* Two abstractions: clocks are replaced by what they decide, that a lease *)
(* or a backoff has run out, which may happen at any time; and a lease is  *)
(* named by the number of the claim that took it, for two claims of a job  *)
(* never have the same lease_until.  Commands are atomic here: CommandBus  *)
(* shows that one commits only on the head that it read.                   *)
(***************************************************************************)
EXTENDS Naturals, Sequences, FiniteSets

CONSTANTS
  Workers,        (* overlapping invocations of the cron                   *)
  Routes,         (* PROPOSAL contact routes of the client                 *)
  NoRoute,        (* the route of a job that sends no email                *)
  MaxRevisions,   (* bound: revisions of the proposal                      *)
  MaxResends,     (* bound: new emails for a failed one, per route         *)
  MaxAttempts,    (* MAX_JOB_ATTEMPTS, 5 in the code                       *)
  MaxTries,       (* tries of a batch, 4 in the code                       *)
  MaxFaults,      (* bound: database calls that fail, workers that die     *)
  MaxRestarts     (* bound: generate.retry and unrelated commands          *)

ASSUME RouteAssumption == NoRoute \notin Routes
ASSUME LimitsAssumption == MaxAttempts \in Nat \ {0} /\ MaxTries \in Nat \ {0}
ASSUME OutboxBoundsAssumption ==
  MaxRevisions \in Nat \ {0} /\ MaxResends \in Nat /\ MaxFaults \in Nat /\ MaxRestarts \in Nat

VARIABLES
  job,            (* outbox_jobs, by deduplication key                     *)
  dispatch,       (* status of the dispatch of each email job              *)
  artifacts,      (* revisions with a generated artifact                   *)
  current,        (* proposals.current_version_id, as a revision number    *)
  approved,       (* revisions the Partner approved                        *)
  manual,         (* revisions with a manual dispatch record               *)
  engagement,     (* its lifecycle state, version, active proposal         *)
  transitions,    (* state_transitions of the engagement, oldest first     *)
  worker,         (* what each worker is doing                             *)
  fresh,          (* workers whose audit head is still the workspace's     *)
  mail,           (* mail[j]: times the provider accepted job j's email    *)
  faults,         (* faults so far                                         *)
  restarts        (* bounded commands so far                               *)

proposal == <<current, approved, manual, engagement, transitions>>
counters == <<faults, restarts>>
vars == <<job, dispatch, artifacts, proposal, worker, fresh, mail, counters>>

----
Revisions == 1..MaxRevisions

Generation(v) == [kind |-> "GENERATE", rev |-> v, route |-> NoRoute, resend |-> 0]
Email(v, r, n) == [kind |-> "EMAIL", rev |-> v, route |-> r, resend |-> n]

Generations == {Generation(v) : v \in Revisions}
Emails == {Email(v, r, n) : v \in Revisions, r \in Routes, n \in 0..MaxResends}
Jobs == Generations \cup Emails

JobStatuses == {"ABSENT", "PENDING", "RUNNING", "SUCCEEDED", "RETRYABLE_FAILED", "PERMANENT_FAILED", "UNKNOWN"}
DispatchStatuses == {"ABSENT", "QUEUED", "ACCEPTED", "DELIVERED", "BOUNCED", "FAILED", "UNKNOWN"}
LifecycleStates == {"PROPOSAL_GENERATION", "DUAL_KEY_PENDING", "ADVANCE_BILLING"}

JobRows == [status : JobStatuses, attempts : Nat, due : BOOLEAN, expired : BOOLEAN]
Absent == [status |-> "ABSENT", attempts |-> 0, due |-> FALSE, expired |-> FALSE]
Pending == [Absent EXCEPT !.status = "PENDING", !.due = TRUE]

(* What a batch is to record: the job's success, or how it failed; EXPIRED  *)
(* is an email whose worker was lost.                                       *)
Outcomes == {"SUCCESS", "RETRY", "FAIL", "UNKNOWN", "EXPIRED"}

(* A busy worker has a job, the lease it holds, the engagement's version as *)
(* it read it, an outcome to record, and the tries it has used.             *)
WorkerStates ==
  [pc : {"check", "work", "head", "batch", "again"}, job : Jobs, lease : Nat,
   seen : Nat, outcome : Outcomes, tries : 0..(MaxTries - 1)]
    \cup [pc : {"idle"}]
Idle == [pc |-> "idle"]

TypeOK ==
  /\ job \in [Jobs -> JobRows]
  /\ \A j \in Jobs : job[j].status = "RETRYABLE_FAILED" => job[j].attempts < MaxAttempts
  /\ \A j \in Emails : job[j].attempts <= MaxAttempts
  /\ dispatch \in [Emails -> DispatchStatuses]
  /\ artifacts \subseteq Revisions
  /\ current \in Revisions
  /\ approved \subseteq Revisions
  /\ manual \subseteq Revisions
  /\ engagement \in [state : LifecycleStates, version : Nat, active : Revisions \cup {0}]
  /\ transitions \in Seq(LifecycleStates \X LifecycleStates)
  /\ worker \in [Workers -> WorkerStates]
  /\ fresh \subseteq Workers
  /\ mail \in [Emails -> Nat]
  /\ faults \in 0..MaxFaults
  /\ restarts \in 0..MaxRestarts

(* The first revision has been drafted. *)
Init ==
  /\ job = [j \in Jobs |-> Absent]
  /\ dispatch = [j \in Emails |-> "ABSENT"]
  /\ artifacts = {}
  /\ current = 1
  /\ approved = {}
  /\ manual = {}
  /\ engagement = [state |-> "PROPOSAL_GENERATION", version |-> 1, active |-> 0]
  /\ transitions = <<>>
  /\ worker = [w \in Workers |-> Idle]
  /\ fresh = {}
  /\ mail = [j \in Emails |-> 0]
  /\ faults = 0
  /\ restarts = 0

----
(* Claiming a job, and the work done on it before its outcome is committed. *)

(* Mutants: an email whose lease ran out is claimed again; nothing is.      *)
ClaimableWhenExpired(j) ==
  \/ job[j].status \in {"PENDING", "RETRYABLE_FAILED"} /\ job[j].due
  \/ job[j].status = "RUNNING" /\ job[j].expired

ClaimableWhenDue(j) ==
  job[j].status \in {"PENDING", "RETRYABLE_FAILED"} /\ job[j].due

(* claimJob: an email is never claimed again once its lease has run out.    *)
Claimable(j) ==
  \/ job[j].status \in {"PENDING", "RETRYABLE_FAILED"} /\ job[j].due
  \/ job[j].status = "RUNNING" /\ job[j].expired /\ j \in Generations

Claim(w, j) ==
  /\ worker[w] = Idle
  /\ Claimable(j)
  /\ job' = [job EXCEPT ![j] =
       [status |-> "RUNNING", attempts |-> job[j].attempts + 1, due |-> FALSE, expired |-> FALSE]]
  /\ worker' = [worker EXCEPT ![w] =
       [pc |-> "check", job |-> j, lease |-> job[j].attempts + 1, seen |-> 0, outcome |-> "SUCCESS", tries |-> 0]]
  /\ UNCHANGED <<dispatch, artifacts, proposal, fresh, mail, counters>>

(* markExpiredEmailUnknown: the job is read with the lease that ran out.    *)
TakeExpired(w, j) ==
  /\ worker[w] = Idle
  /\ j \in Emails
  /\ job[j].status = "RUNNING" /\ job[j].expired
  /\ worker' = [worker EXCEPT ![w] =
       [pc |-> "head", job |-> j, lease |-> job[j].attempts, seen |-> 0, outcome |-> "EXPIRED", tries |-> 0]]
  /\ UNCHANGED <<job, dispatch, artifacts, proposal, fresh, mail, counters>>

(* The worker goes on to record an outcome. *)
Ends(w, outcome) ==
  worker' = [worker EXCEPT ![w] = [@ EXCEPT !.pc = "head", !.outcome = outcome, !.tries = 0,
                                            !.seen = IF outcome = "SUCCESS" THEN worker[w].seen ELSE 0]]

InGeneration == engagement.state = "PROPOSAL_GENERATION"

(* The states in which a further delivery of the active proposal is        *)
(* recorded without moving the engagement.                                  *)
FollowsUp(v) == engagement.active = v /\ engagement.state \in {"DUAL_KEY_PENDING", "ADVANCE_BILLING"}

(* An email needs the approved current revision of an engagement that can   *)
(* start or follow up its dispatch, and a queued dispatch; a rendering, the *)
(* current revision of an engagement in proposal generation.                *)
Workable(j) ==
  /\ current = j.rev
  /\ IF j \in Generations THEN InGeneration
     ELSE /\ j.rev \in approved
          /\ (InGeneration /\ engagement.active = 0) \/ FollowsUp(j.rev)
          /\ dispatch[j] = "QUEUED"

(* The reads that open dispatchProposal and renderAndStoreProposal; a       *)
(* pinned attachment may also be missing or altered.                        *)
Check(w) ==
  /\ worker[w].pc = "check"
  /\ \/ /\ Workable(worker[w].job)
        /\ worker' = [worker EXCEPT ![w] = [@ EXCEPT !.pc = "work", !.seen = engagement.version]]
     \/ Ends(w, "FAIL")
  /\ UNCHANGED <<job, dispatch, artifacts, proposal, fresh, mail, counters>>

(* The provider is called.  408 and 429 say that it did not take the        *)
(* message, other 4xx that it will not; 5xx, a broken connection and an     *)
(* answer without a message id leave the worker not knowing.                *)
Send(w) ==
  /\ worker[w].pc = "work" /\ worker[w].job \in Emails
  /\ \/ /\ mail' = [mail EXCEPT ![worker[w].job] = @ + 1]
        /\ \E known \in {"SUCCESS", "UNKNOWN"} : Ends(w, known)
     \/ /\ \E known \in {"RETRY", "FAIL", "UNKNOWN"} : Ends(w, known)
        /\ UNCHANGED mail
  /\ UNCHANGED <<job, dispatch, artifacts, proposal, fresh, counters>>

(* The PDF is rendered, put under a key made of its digest and read back:   *)
(* RETRY if the object store fails, FAIL if the terms do not render.        *)
Render(w) ==
  /\ worker[w].pc = "work" /\ worker[w].job \in Generations
  /\ \E outcome \in {"SUCCESS", "RETRY", "FAIL"} : Ends(w, outcome)
  /\ UNCHANGED <<job, dispatch, artifacts, proposal, fresh, mail, counters>>

----
(* Committing an outcome: commitJobMutation. *)

ReadHead(w) ==
  /\ worker[w].pc = "head"
  /\ worker' = [worker EXCEPT ![w] = [@ EXCEPT !.pc = "batch"]]
  /\ fresh' = fresh \cup {w}
  /\ UNCHANGED <<job, dispatch, artifacts, proposal, mail, counters>>

(* Mutant: assertion 990 does not join the proposal's current revision. *)
StillSendableWhateverIsCurrent(j, seen) ==
  /\ dispatch[j] = "QUEUED"
  /\ \/ InGeneration /\ engagement.version = seen /\ engagement.active = 0
     \/ FollowsUp(j.rev)

(* Assertion 990 of an accepted email. *)
StillSendable(j, seen) ==
  /\ dispatch[j] = "QUEUED"
  /\ current = j.rev
  /\ \/ InGeneration /\ engagement.version = seen /\ engagement.active = 0
     \/ FollowsUp(j.rev)

(* Assertion 990 of a rendering, and the uniqueness of its artifact. *)
StillRenderable(j) ==
  /\ current = j.rev
  /\ InGeneration
  /\ j.rev \notin artifacts

(* Assertion 989. *)
HoldsLease(w) ==
  /\ job[worker[w].job].status = "RUNNING"
  /\ job[worker[w].job].attempts = worker[w].lease

BatchHolds(w) ==
  /\ HoldsLease(w)
  /\ w \in fresh
  /\ worker[w].outcome = "SUCCESS" =>
       IF worker[w].job \in Emails
       THEN StillSendable(worker[w].job, worker[w].seen)
       ELSE StillRenderable(worker[w].job)

(* recordJobFailure: an exhausted job is not tried again. *)
StatusAfter(w) ==
  CASE worker[w].outcome = "SUCCESS" -> "SUCCEEDED"
    [] worker[w].outcome \in {"UNKNOWN", "EXPIRED"} -> "UNKNOWN"
    [] worker[w].outcome = "RETRY" /\ worker[w].lease < MaxAttempts -> "RETRYABLE_FAILED"
    [] OTHER -> "PERMANENT_FAILED"

(* Mutant: an expired email's dispatch is left queued. *)
DispatchAfterUnlessExpired(w) ==
  CASE worker[w].outcome = "SUCCESS" -> "ACCEPTED"
    [] worker[w].outcome = "UNKNOWN" -> "UNKNOWN"
    [] StatusAfter(w) = "PERMANENT_FAILED" -> "FAILED"
    [] OTHER -> "QUEUED"

(* What becomes of the dispatch, if it is still queued. *)
DispatchAfter(w) ==
  CASE worker[w].outcome = "SUCCESS" -> "ACCEPTED"
    [] worker[w].outcome \in {"UNKNOWN", "EXPIRED"} -> "UNKNOWN"
    [] StatusAfter(w) = "PERMANENT_FAILED" -> "FAILED"
    [] OTHER -> "QUEUED"

(* The engagement is moved first, and the row that records its transition   *)
(* is selected from the engagement as it then is.                           *)
Deliver(v, seen) ==
  /\ engagement' =
       IF InGeneration /\ engagement.version = seen
       THEN [state |-> "DUAL_KEY_PENDING", version |-> engagement.version + 1, active |-> v]
       ELSE engagement
  /\ transitions' =
       IF engagement'.version = seen /\ engagement'.state = "PROPOSAL_GENERATION" /\ engagement'.active = 0
       THEN Append(transitions, <<"PROPOSAL_GENERATION", "DUAL_KEY_PENDING">>)
       ELSE transitions

(* The assertions, and the statements each with its own WHERE clause. *)
CommitEffects(w) ==
  LET j == worker[w].job IN
  /\ BatchHolds(w)
  /\ job' = IF job[j].status = "RUNNING" /\ job[j].attempts = worker[w].lease
            THEN [job EXCEPT ![j] = [@ EXCEPT !.status = StatusAfter(w), !.expired = FALSE]] ELSE job
  /\ dispatch' = IF j \in Emails /\ dispatch[j] = "QUEUED"
                 THEN [dispatch EXCEPT ![j] = DispatchAfter(w)] ELSE dispatch
  /\ artifacts' = IF worker[w].outcome = "SUCCESS" /\ j \in Generations
                  THEN artifacts \cup {j.rev} ELSE artifacts
  /\ IF worker[w].outcome = "SUCCESS" /\ j \in Emails
     THEN Deliver(j.rev, worker[w].seen)
     ELSE UNCHANGED <<engagement, transitions>>
  /\ fresh' = {}
  /\ UNCHANGED <<current, approved, manual, mail>>

BatchCommits(w) ==
  /\ worker[w].pc = "batch"
  /\ CommitEffects(w)
  /\ worker' = [worker EXCEPT ![w] = Idle]
  /\ UNCHANGED counters

BatchAborts(w) ==
  /\ worker[w].pc = "batch"
  /\ ~BatchHolds(w)
  /\ worker' = [worker EXCEPT ![w] = [@ EXCEPT !.pc = "again"]]
  /\ UNCHANGED <<job, dispatch, artifacts, proposal, fresh, mail, counters>>

(* The error goes to the catch block of the job's processing: it is         *)
(* recorded as one to retry, unless it is recording an outcome that failed, *)
(* which is only logged.                                                    *)
Throws(w) ==
  /\ worker' = [worker EXCEPT ![w] =
       IF worker[w].outcome = "SUCCESS"
       THEN [@ EXCEPT !.pc = "head", !.outcome = "RETRY", !.tries = 0, !.seen = 0]
       ELSE Idle]
  /\ fresh' = fresh \ {w}

(* Mutant: tries are not bounded. *)
TryAgainWithoutEnd(w) ==
  /\ worker[w].pc = "again"
  /\ IF w \notin fresh
     THEN /\ worker' = [worker EXCEPT ![w] = [@ EXCEPT !.pc = "head", !.tries = worker[w].tries + 1]]
          /\ UNCHANGED fresh
     ELSE Throws(w)
  /\ UNCHANGED <<job, dispatch, artifacts, proposal, mail, counters>>

(* The head is read again: if another commit moved it the batch is retried. *)
TryAgain(w) ==
  /\ worker[w].pc = "again"
  /\ IF w \notin fresh /\ worker[w].tries + 1 < MaxTries
     THEN /\ worker' = [worker EXCEPT ![w] = [@ EXCEPT !.pc = "head", !.tries = worker[w].tries + 1]]
          /\ UNCHANGED fresh
     ELSE Throws(w)
  /\ UNCHANGED <<job, dispatch, artifacts, proposal, mail, counters>>

----
(* Faults.                                                                  *)

Fault == faults < MaxFaults /\ faults' = faults + 1

(* The batch fails, or it commits and the worker is told that it failed. *)
BatchFaults(w) ==
  /\ worker[w].pc = "batch"
  /\ Fault
  /\ worker' = [worker EXCEPT ![w] = [@ EXCEPT !.pc = "again"]]
  /\ UNCHANGED <<job, dispatch, artifacts, proposal, fresh, mail, restarts>>

BatchCommitsUnseen(w) ==
  /\ worker[w].pc = "batch"
  /\ Fault
  /\ CommitEffects(w)
  /\ worker' = [worker EXCEPT ![w] = [@ EXCEPT !.pc = "again"]]
  /\ UNCHANGED restarts

(* A read of the database fails. *)
ReadFails(w) ==
  /\ worker[w].pc \in {"check", "head", "again"}
  /\ Fault
  /\ Throws(w)
  /\ UNCHANGED <<job, dispatch, artifacts, proposal, mail, restarts>>

(* The invocation dies; its job keeps its lease until that runs out. *)
Die(w) ==
  /\ worker[w] # Idle
  /\ Fault
  /\ worker' = [worker EXCEPT ![w] = Idle]
  /\ fresh' = fresh \ {w}
  /\ UNCHANGED <<job, dispatch, artifacts, proposal, mail, restarts>>

HeldBy(w, j) == worker[w] # Idle /\ worker[w].job = j /\ worker[w].lease = job[j].attempts

(* A lease runs out after its worker was lost, or while it is still at work,*)
(* which counts as a fault.                                                 *)
LeaseExpires(j) ==
  /\ job[j].status = "RUNNING" /\ ~job[j].expired
  /\ IF \E w \in Workers : HeldBy(w, j) THEN Fault ELSE UNCHANGED faults
  /\ job' = [job EXCEPT ![j].expired = TRUE]
  /\ UNCHANGED <<dispatch, artifacts, proposal, worker, fresh, mail, restarts>>

BackoffEnds(j) ==
  /\ job[j].status = "RETRYABLE_FAILED" /\ ~job[j].due
  /\ job' = [job EXCEPT ![j].due = TRUE]
  /\ UNCHANGED <<dispatch, artifacts, proposal, worker, fresh, mail, counters>>

----
(* Commands (worker/business.ts); each moves the head.                      *)

Command ==
  /\ fresh' = {}
  /\ UNCHANGED <<worker, mail, faults>>

Restart == restarts < MaxRestarts /\ restarts' = restarts + 1

(* proposal.generate; if the job exists the command changes nothing.        *)
Generate ==
  LET j == Generation(current) IN
  /\ InGeneration
  /\ job[j] = Absent
  /\ job' = [job EXCEPT ![j] = Pending]
  /\ Command
  /\ UNCHANGED <<dispatch, artifacts, proposal, restarts>>

(* proposal.generate.retry: attempts are not reset. *)
RetryGeneration ==
  LET j == Generation(current) IN
  /\ InGeneration
  /\ job[j].status \in {"RETRYABLE_FAILED", "PERMANENT_FAILED"}
  /\ job' = [job EXCEPT ![j] = [@ EXCEPT !.status = "PENDING", !.due = TRUE]]
  /\ Command
  /\ Restart
  /\ UNCHANGED <<dispatch, artifacts, proposal>>

Rendered(v) == v \in artifacts /\ job[Generation(v)].status = "SUCCEEDED"

Approve ==
  /\ InGeneration
  /\ Rendered(current)
  /\ approved' = approved \cup {current}
  /\ current \notin approved
  /\ Command
  /\ UNCHANGED <<job, dispatch, artifacts, current, manual, engagement, transitions, restarts>>

(* The states in which the current revision may be emailed. *)
Emailable ==
  \/ InGeneration
  \/ engagement.state = "DUAL_KEY_PENDING" /\ engagement.active = current

Queue(j) ==
  /\ job[j] = Absent
  /\ job' = [job EXCEPT ![j] = Pending]
  /\ dispatch' = [dispatch EXCEPT ![j] = "QUEUED"]

(* proposal.dispatch: the deduplication key is that of revision and route.  *)
Dispatch(r) ==
  /\ Emailable
  /\ current \in approved
  /\ Rendered(current)
  /\ Queue(Email(current, r, 0))
  /\ Command
  /\ UNCHANGED <<artifacts, proposal, restarts>>

(* proposal.dispatch.retry of a failed dispatch: a new job and dispatch,    *)
(* numbered by those that the revision has on the route.                    *)
RetryDispatch(j) ==
  LET siblings == {e \in Emails : e.rev = j.rev /\ e.route = j.route /\ dispatch[e] # "ABSENT"} IN
  /\ dispatch[j] = "FAILED" /\ job[j].status = "PERMANENT_FAILED"
  /\ j.rev = current /\ current \in approved
  /\ Emailable
  /\ Cardinality(siblings) <= MaxResends
  /\ Queue(Email(j.rev, j.route, Cardinality(siblings)))
  /\ Command
  /\ UNCHANGED <<artifacts, proposal, restarts>>

(* proposal.dispatch.recordManual: the transition is recorded first. *)
RecordManual ==
  /\ current \in approved
  /\ Rendered(current)
  /\ (InGeneration /\ engagement.active = 0) \/ FollowsUp(current)
  /\ current \notin manual
  /\ manual' = manual \cup {current}
  /\ IF InGeneration
     THEN /\ engagement' = [state |-> "DUAL_KEY_PENDING", version |-> engagement.version + 1, active |-> current]
          /\ transitions' = Append(transitions, <<"PROPOSAL_GENERATION", "DUAL_KEY_PENDING">>)
     ELSE UNCHANGED <<engagement, transitions>>
  /\ Command
  /\ UNCHANGED <<job, dispatch, artifacts, current, approved, restarts>>

(* proposal.revise: from DUAL_KEY_PENDING the engagement is reopened. *)
Revise ==
  /\ Emailable
  /\ current < MaxRevisions
  /\ current' = current + 1
  /\ IF InGeneration THEN UNCHANGED <<engagement, transitions>>
     ELSE /\ engagement' = [state |-> "PROPOSAL_GENERATION", version |-> engagement.version + 1, active |-> 0]
          /\ transitions' = Append(transitions, <<"DUAL_KEY_PENDING", "PROPOSAL_GENERATION">>)
  /\ Command
  /\ UNCHANGED <<job, dispatch, artifacts, approved, manual, restarts>>

(* appendAdvanceIfReady: the client's acceptance and the Partner's risk     *)
(* clearance, for the active proposal, may be there at any time.            *)
Advance ==
  /\ engagement.state = "DUAL_KEY_PENDING" /\ engagement.active = current
  /\ engagement' = [engagement EXCEPT !.state = "ADVANCE_BILLING", !.version = engagement.version + 1]
  /\ transitions' = Append(transitions, <<"DUAL_KEY_PENDING", "ADVANCE_BILLING">>)
  /\ Command
  /\ UNCHANGED <<job, dispatch, artifacts, current, approved, manual, restarts>>

(* Any other command of the workspace: to the outbox, a head that moves. *)
OtherCommand ==
  /\ Restart
  /\ fresh # {}
  /\ Command
  /\ UNCHANGED <<job, dispatch, artifacts, proposal>>

(* Mutant: a later status replaces an earlier one. *)
WebhookOverwrites(j, status) ==
  /\ dispatch[j] \in {"ACCEPTED", "DELIVERED", "BOUNCED"}
  /\ mail[j] > 0
  /\ dispatch' = [dispatch EXCEPT ![j] = status]
  /\ UNCHANGED <<job, artifacts, proposal, worker, fresh, mail, counters>>

(* The provider reports a delivery or a bounce (emailStatusWebhook.ts); the *)
(* dispatch is found by the provider's message id, which only an accepted   *)
(* one has, and the first report counts.                                    *)
Webhook(j, status) ==
  /\ dispatch[j] = "ACCEPTED" /\ mail[j] > 0
  /\ dispatch' = [dispatch EXCEPT ![j] = status]
  /\ UNCHANGED <<job, artifacts, proposal, worker, fresh, mail, counters>>

----
Commit(w) == ReadHead(w) \/ BatchCommits(w) \/ BatchAborts(w) \/ TryAgain(w)

Proceed(w) == Check(w) \/ Send(w) \/ Render(w) \/ Commit(w)

Pick(w) == \/ \E j \in Jobs : Claim(w, j)
           \/ \E j \in Emails : TakeExpired(w, j)

Fails(w) == BatchFaults(w) \/ BatchCommitsUnseen(w) \/ ReadFails(w) \/ Die(w)

TimePasses(j) == LeaseExpires(j) \/ BackoffEnds(j)

Commands ==
  \/ Generate \/ RetryGeneration \/ Approve \/ RecordManual \/ Revise \/ Advance \/ OtherCommand
  \/ \E r \in Routes : Dispatch(r)
  \/ \E j \in Emails : RetryDispatch(j)

Next ==
  \/ \E w \in Workers : Pick(w) \/ Proceed(w) \/ Fails(w)
  \/ \E j \in Jobs : TimePasses(j)
  \/ Commands
  \/ \E j \in Emails, status \in {"DELIVERED", "BOUNCED"} : Webhook(j, status)

Spec == Init /\ [][Next]_vars

(* The cron comes back every minute, an invocation runs on unless it dies,  *)
(* clocks go on, and every due job is in time at the front of the queue.    *)
FairSpec ==
  /\ Spec
  /\ \A w \in Workers : WF_vars(Proceed(w))
  /\ \A j \in Jobs : WF_vars(TimePasses(j)) /\ SF_vars(\E w \in Workers : Claim(w, j))
  /\ \A j \in Emails : SF_vars(\E w \in Workers : TakeExpired(w, j))

----
Delivered(j) == dispatch[j] \in {"ACCEPTED", "DELIVERED", "BOUNCED"}

(* A job and the record its outcome is about never disagree, whoever        *)
(* records it: an email is queued while its job may still run, accepted     *)
(* with it, failed with it, and unknown with it; a revision has an artifact *)
(* exactly when its rendering succeeded, though a worker whose lease ran    *)
(* out may still finish while another renders.                              *)
RecordsMirrorJobs ==
  /\ \A v \in Revisions : v \in artifacts <=> job[Generation(v)].status = "SUCCEEDED"
  /\ \A j \in Emails :
       /\ (job[j].status = "ABSENT") <=> (dispatch[j] = "ABSENT")
       /\ (job[j].status \in {"PENDING", "RUNNING", "RETRYABLE_FAILED"}) <=> (dispatch[j] = "QUEUED")
       /\ (job[j].status = "SUCCEEDED") <=> Delivered(j)
       /\ (job[j].status = "UNKNOWN") <=> (dispatch[j] = "UNKNOWN")

(* An email is in the hands of one worker from its claim to the provider's  *)
(* answer, and is sent at most once per claim: a worker that hangs may be   *)
(* declared lost, but nobody else takes the email over.                     *)
OneSender ==
  \A j \in Emails :
    LET senders == {w \in Workers : worker[w].pc \in {"check", "work"} /\ worker[w].job = j} IN
    /\ Cardinality(senders) <= 1
    /\ Cardinality(senders) + mail[j] <= job[j].attempts

(* The engagement is where its proposal is: past proposal generation only   *)
(* with the current revision active, approved, and delivered by email or by *)
(* hand; an email of a superseded revision that comes back late moves       *)
(* nothing.                                                                 *)
LifecycleFollowsProposal ==
  IF InGeneration THEN engagement.active = 0
  ELSE /\ engagement.active = current
       /\ current \in approved
       /\ current \in manual \/ \E j \in Emails : j.rev = current /\ Delivered(j)

(* An outcome once recorded stays: what the provider reported is never      *)
(* downgraded or replaced, a failed or unknown dispatch never becomes       *)
(* another, and an artifact, an approval and a transition stay recorded.    *)
OutcomesAreFinal ==
  [][/\ \A j \in Emails :
          /\ dispatch[j] \in {"DELIVERED", "BOUNCED", "FAILED", "UNKNOWN"} => dispatch'[j] = dispatch[j]
          /\ Delivered(j) => Delivered(j)'
     /\ artifacts \subseteq artifacts' /\ approved \subseteq approved'
     /\ \E n \in 0..Len(transitions') : transitions = SubSeq(transitions', 1, n)]_vars

(* Every queued job comes to an end, whatever its workers do: it succeeds,  *)
(* fails for good, or is set aside as unknown.                              *)
Settled(j) == job[j].status \in {"SUCCEEDED", "PERMANENT_FAILED", "UNKNOWN"}

EveryJobSettles == \A j \in Jobs : job[j].status # "ABSENT" ~> Settled(j)
===============================================================================
