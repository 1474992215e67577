----------------------------- MODULE OutboxProofs -----------------------------
(***************************************************************************)
(* What holds of the outbox for any number of workers, routes, revisions,  *)
(* resends, faults and restarts, and any limits of attempts and tries.     *)
(***************************************************************************)
EXTENDS Outbox, FiniteSetTheorems, SequenceTheorems, TLAPS

(* A worker that has a job. *)
Busy ==
  [pc : {"check", "work", "head", "batch", "again"}, job : Jobs, lease : Nat,
   seen : Nat, outcome : Outcomes, tries : 0..(MaxTries - 1)]

----
(* Jobs, workers and their types. *)

LEMMA JobKinds ==
  /\ \A v \in Revisions : Generation(v) \in Generations /\ Generation(v).rev = v
  /\ \A v \in Revisions, r \in Routes, n \in 0..MaxResends :
       Email(v, r, n) \in Emails /\ Email(v, r, n).rev = v
  /\ \A j \in Generations : j \in Jobs /\ j.rev \in Revisions /\ j = Generation(j.rev) /\ j \notin Emails
  /\ \A j \in Emails : j \in Jobs /\ j.rev \in Revisions /\ j \notin Generations
  /\ \A j \in Jobs : j \in Generations \/ j \in Emails
<1>1. /\ \A v \in Revisions : Generation(v) \in Generations /\ Generation(v).rev = v
      /\ \A v \in Revisions, r \in Routes, n \in 0..MaxResends :
           Email(v, r, n) \in Emails /\ Email(v, r, n).rev = v
  BY DEF Generation, Generations, Email, Emails
<1>2. \A j \in Generations : j.kind = "GENERATE" /\ j.rev \in Revisions /\ j = Generation(j.rev)
  BY DEF Generation, Generations
<1>3. \A j \in Emails : j.kind = "EMAIL" /\ j.rev \in Revisions
  BY DEF Email, Emails
<1> QED  BY <1>1, <1>2, <1>3 DEF Jobs

(* A worker that is not idle is busy. *)
LEMMA BusyWorker ==
  ASSUME TypeOK, NEW w \in Workers
  PROVE  /\ worker[w] # Idle <=> worker[w] \in Busy
         /\ worker[w].pc # "idle" <=> worker[w] \in Busy
         /\ worker[w] = Idle <=> worker[w].pc = "idle"
<1>1. worker[w] \in Busy \/ worker[w] \in [pc : {"idle"}]
  BY DEF TypeOK, WorkerStates, Busy
<1>2. worker[w] \in [pc : {"idle"}] => worker[w] = Idle
  BY DEF Idle
<1>3. Idle.pc = "idle" /\ \A s \in Busy : s.pc # "idle"
  BY DEF Idle, Busy
<1> QED  BY <1>1, <1>2, <1>3

(* What a worker becomes that goes on to record an outcome. *)
LEMMA EndsRight ==
  ASSUME TypeOK, NEW w \in Workers, worker[w] \in Busy, NEW outcome \in Outcomes, Ends(w, outcome)
  PROVE  /\ worker' = [worker EXCEPT ![w] = worker'[w]]
         /\ worker'[w] \in Busy
         /\ worker'[w].pc = "head" /\ worker'[w].outcome = outcome
         /\ worker'[w].job = worker[w].job /\ worker'[w].lease = worker[w].lease
<1> DEFINE s == worker[w]
           new == [s EXCEPT !.pc = "head", !.outcome = outcome, !.tries = 0,
                            !.seen = IF outcome = "SUCCESS" THEN s.seen ELSE 0]
<1>1. worker \in [Workers -> WorkerStates]
  BY DEF TypeOK
<1>2. worker' = [worker EXCEPT ![w] = new]
  BY DEF Ends
<1>3. 0 \in 0..(MaxTries - 1)
  BY LimitsAssumption
<1>4. /\ new \in Busy /\ new.pc = "head" /\ new.outcome = outcome /\ new.job = s.job /\ new.lease = s.lease
  BY <1>3 DEF Busy
<1> HIDE DEF new
<1> QED  BY <1>1, <1>2, <1>4

(* What a worker becomes whose batch is not to be retried. *)
LEMMA ThrowsRight ==
  ASSUME TypeOK, NEW w \in Workers, worker[w] \in Busy, Throws(w)
  PROVE  /\ worker' = [worker EXCEPT ![w] = worker'[w]]
         /\ fresh' \subseteq Workers
         /\ \/ worker'[w] = Idle
            \/ /\ worker[w].outcome = "SUCCESS"
               /\ worker'[w] \in Busy
               /\ worker'[w].pc = "head" /\ worker'[w].outcome = "RETRY"
               /\ worker'[w].job = worker[w].job /\ worker'[w].lease = worker[w].lease
<1> DEFINE s == worker[w]
           new == [s EXCEPT !.pc = "head", !.outcome = "RETRY", !.tries = 0, !.seen = 0]
<1>1. worker \in [Workers -> WorkerStates] /\ fresh \subseteq Workers
  BY DEF TypeOK
<1>2. worker' = [worker EXCEPT ![w] = IF s.outcome = "SUCCESS" THEN new ELSE Idle] /\ fresh' = fresh \ {w}
  BY DEF Throws
<1>3. 0 \in 0..(MaxTries - 1)
  BY LimitsAssumption
<1>4. new \in Busy /\ new.pc = "head" /\ new.outcome = "RETRY" /\ new.job = s.job /\ new.lease = s.lease
  BY <1>3 DEF Busy, Outcomes
<1> HIDE DEF new
<1> QED  BY <1>1, <1>2, <1>4

(* How the step of a worker that has a job, or of nobody, changes workers:  *)
(* a job and its lease are kept or let go, a lost email stays a lost one,   *)
(* and only who was at the work is still at it.                             *)
MovesOn(w) ==
  \/ worker'[w] = worker[w]
  \/ worker'[w] = Idle
  \/ /\ worker[w] \in Busy /\ worker'[w] \in Busy
     /\ worker'[w].job = worker[w].job /\ worker'[w].lease = worker[w].lease
     /\ worker[w].outcome = "EXPIRED" => worker'[w].outcome = "EXPIRED"
     /\ worker'[w].pc \in {"check", "work"} => worker[w].pc \in {"check", "work"} /\ worker'[w].outcome = worker[w].outcome

WorkersMove ==
  /\ worker' \in [Workers -> WorkerStates]
  /\ \A w \in Workers : MovesOn(w)

(* One worker's own change is the change of all. *)
LEMMA OneMoves ==
  ASSUME TypeOK, NEW w \in Workers, NEW new, worker' = [worker EXCEPT ![w] = new],
         \/ new = Idle
         \/ /\ worker[w] \in Busy /\ new \in Busy
            /\ new.job = worker[w].job /\ new.lease = worker[w].lease
            /\ worker[w].outcome = "EXPIRED" => new.outcome = "EXPIRED"
            /\ new.pc \in {"check", "work"} => worker[w].pc \in {"check", "work"} /\ new.outcome = worker[w].outcome
  PROVE  WorkersMove
<1>1. worker \in [Workers -> WorkerStates]
  BY DEF TypeOK
<1>2. new \in WorkerStates
  BY DEF Idle, WorkerStates, Busy
<1>3. worker'[w] = new /\ \A x \in Workers \ {w} : worker'[x] = worker[x]
  BY <1>1
<1>4. ASSUME NEW x \in Workers PROVE MovesOn(x)
  <2>1. CASE x = w
    BY <1>3, <2>1 DEF MovesOn
  <2>2. CASE x # w
    BY <1>3, <2>2 DEF MovesOn
  <2> QED  BY <2>1, <2>2
<1> QED  BY <1>1, <1>2, <1>4 DEF WorkersMove

(* Changes of a few fields of a busy worker. *)
LEMMA FieldsRight ==
  ASSUME NEW s \in Busy
  PROVE  /\ \A pc \in {"batch", "again"} :
              LET new == [s EXCEPT !.pc = pc] IN
              new \in Busy /\ new.pc = pc /\ new.job = s.job /\ new.lease = s.lease /\ new.outcome = s.outcome
         /\ s.tries + 1 < MaxTries =>
              LET new == [s EXCEPT !.pc = "head", !.tries = s.tries + 1] IN
              new \in Busy /\ new.pc = "head" /\ new.job = s.job /\ new.lease = s.lease /\ new.outcome = s.outcome
<1>1. s.tries + 1 < MaxTries => s.tries + 1 \in 0..(MaxTries - 1)
  BY LimitsAssumption DEF Busy
<1> QED  BY <1>1 DEF Busy

(* While the work goes on its outcome is open. *)
WorkOpen == \A w \in Workers : worker[w].pc \in {"check", "work"} => worker[w].outcome = "SUCCESS"

(* The steps of a worker between its claim and its batch, and its failures. *)
Between(w) ==
  \/ Check(w) \/ Send(w) \/ Render(w) \/ ReadHead(w) \/ BatchAborts(w) \/ TryAgain(w)
  \/ BatchFaults(w) \/ ReadFails(w) \/ Die(w)

LEMMA BetweenMoves ==
  ASSUME TypeOK, WorkOpen, NEW w \in Workers, Between(w)
  PROVE  /\ WorkersMove
         /\ fresh' \subseteq Workers
         /\ UNCHANGED <<job, dispatch, artifacts, current, approved, manual, engagement, transitions, restarts>>
         /\ faults' \in 0..MaxFaults
         /\ \/ mail' = mail
            \/ /\ worker[w].pc = "work" /\ worker[w].job \in Emails /\ worker'[w].pc = "head"
               /\ mail' = [mail EXCEPT ![worker[w].job] = @ + 1]
<1> USE DEF proposal, counters
<1> DEFINE s == worker[w]
<1>1. s \in Busy
  <2>1. s.pc # "idle" \/ s # Idle
    BY DEF Between, Check, Send, Render, ReadHead, BatchAborts, TryAgain, BatchFaults, ReadFails, Die
  <2> QED  BY <2>1, BusyWorker
<1>2. faults \in 0..MaxFaults /\ fresh \subseteq Workers /\ engagement.version \in Nat
      /\ worker \in [Workers -> WorkerStates]
  BY DEF TypeOK
<1>3. ASSUME NEW outcome \in Outcomes, Ends(w, outcome), s.pc \in {"check", "work"}, s.outcome # "EXPIRED" \/ outcome = "EXPIRED"
      PROVE  WorkersMove /\ worker'[w].pc = "head"
  <2>1. /\ worker' = [worker EXCEPT ![w] = worker'[w]] /\ worker'[w] \in Busy
        /\ worker'[w].pc = "head" /\ worker'[w].outcome = outcome
        /\ worker'[w].job = s.job /\ worker'[w].lease = s.lease
    BY <1>1, <1>3, EndsRight
  <2> QED  BY <1>1, <1>3, <2>1, OneMoves
<1>4. ASSUME Throws(w) PROVE WorkersMove /\ fresh' \subseteq Workers
  <2>1. /\ worker' = [worker EXCEPT ![w] = worker'[w]] /\ fresh' \subseteq Workers
        /\ \/ worker'[w] = Idle
           \/ /\ s.outcome = "SUCCESS" /\ worker'[w] \in Busy
              /\ worker'[w].pc = "head" /\ worker'[w].job = s.job /\ worker'[w].lease = s.lease
    BY <1>1, <1>4, ThrowsRight
  <2> QED  BY <1>1, <2>1, OneMoves
<1>5. ASSUME NEW pc \in {"batch", "again"}, worker' = [worker EXCEPT ![w] = [s EXCEPT !.pc = pc]]
      PROVE  WorkersMove
  <2> DEFINE new == [s EXCEPT !.pc = pc]
  <2>1. new \in Busy /\ new.pc = pc /\ new.job = s.job /\ new.lease = s.lease /\ new.outcome = s.outcome
    BY <1>1, FieldsRight
  <2>2. worker' = [worker EXCEPT ![w] = new]
    BY <1>5
  <2> HIDE DEF new
  <2> QED  BY <1>1, <2>1, <2>2, OneMoves
<1>6. CASE Check(w)
  <2>1. s.outcome # "EXPIRED" /\ UNCHANGED <<job, dispatch, artifacts, proposal, fresh, mail, counters>> /\ s.pc = "check"
    BY <1>6 DEF Check, WorkOpen
  <2>2. CASE worker' = [worker EXCEPT ![w] = [s EXCEPT !.pc = "work", !.seen = engagement.version]]
    <3> DEFINE new == [s EXCEPT !.pc = "work", !.seen = engagement.version]
    <3>1. new \in Busy /\ new.pc = "work" /\ new.job = s.job /\ new.lease = s.lease /\ new.outcome = s.outcome
      BY <1>1, <1>2 DEF Busy
    <3>2. worker' = [worker EXCEPT ![w] = new]
      BY <2>2
    <3> HIDE DEF new
    <3>3. WorkersMove
      BY <1>1, <2>1, <3>1, <3>2, OneMoves
    <3> QED  BY <1>2, <2>1, <3>3
  <2>3. CASE Ends(w, "FAIL")
    BY <1>2, <1>3, <2>1, <2>3 DEF Outcomes
  <2> QED  BY <1>6, <2>2, <2>3 DEF Check
<1>7. CASE Send(w)
  <2>1. /\ UNCHANGED <<job, dispatch, artifacts, proposal, fresh, counters>>
        /\ s.pc = "work" /\ s.job \in Emails /\ s.outcome # "EXPIRED"
    BY <1>7 DEF Send, WorkOpen
  <2>2. PICK known \in {"SUCCESS", "UNKNOWN", "RETRY", "FAIL"} : Ends(w, known)
    BY <1>7 DEF Send
  <2>3. mail' = mail \/ mail' = [mail EXCEPT ![worker[w].job] = @ + 1]
    BY <1>7 DEF Send
  <2> QED  BY <1>2, <1>3, <2>1, <2>2, <2>3 DEF Outcomes
<1>8. CASE Render(w)
  <2>1. UNCHANGED <<job, dispatch, artifacts, proposal, fresh, mail, counters>> /\ s.pc = "work" /\ s.outcome # "EXPIRED"
    BY <1>8 DEF Render, WorkOpen
  <2>2. PICK known \in {"SUCCESS", "RETRY", "FAIL"} : Ends(w, known)
    BY <1>8 DEF Render
  <2> QED  BY <1>2, <1>3, <2>1, <2>2 DEF Outcomes
<1>9. CASE ReadHead(w) \/ BatchAborts(w) \/ BatchFaults(w)
  <2>1. \E pc \in {"batch", "again"} : worker' = [worker EXCEPT ![w] = [s EXCEPT !.pc = pc]]
    BY <1>9 DEF ReadHead, BatchAborts, BatchFaults
  <2>2. /\ UNCHANGED <<job, dispatch, artifacts, proposal, mail, restarts>>
        /\ fresh' = fresh \/ fresh' = fresh \cup {w}
        /\ faults' = faults \/ (faults < MaxFaults /\ faults' = faults + 1)
    BY <1>9 DEF ReadHead, BatchAborts, BatchFaults, Fault
  <2>3. faults' \in 0..MaxFaults
    BY <1>2, <2>2, OutboxBoundsAssumption
  <2> QED  BY <1>2, <1>5, <2>1, <2>2, <2>3
<1>10. CASE TryAgain(w)
  <2>1. UNCHANGED <<job, dispatch, artifacts, proposal, mail, counters>> /\ s.pc = "again"
    BY <1>10 DEF TryAgain
  <2>2. CASE /\ worker' = [worker EXCEPT ![w] = [s EXCEPT !.pc = "head", !.tries = s.tries + 1]]
             /\ s.tries + 1 < MaxTries /\ UNCHANGED fresh
    <3> DEFINE new == [s EXCEPT !.pc = "head", !.tries = s.tries + 1]
    <3>1. new \in Busy /\ new.pc = "head" /\ new.job = s.job /\ new.lease = s.lease /\ new.outcome = s.outcome
      BY <1>1, <2>2, FieldsRight
    <3>2. worker' = [worker EXCEPT ![w] = new]
      BY <2>2
    <3> HIDE DEF new
    <3>3. WorkersMove
      BY <1>1, <3>1, <3>2, OneMoves
    <3> QED  BY <1>2, <2>1, <2>2, <3>3
  <2>3. CASE Throws(w)
    BY <1>2, <1>4, <2>1, <2>3
  <2> QED  BY <1>10, <2>2, <2>3 DEF TryAgain
<1>11. CASE ReadFails(w)
  <2>1. faults' \in 0..MaxFaults
    BY <1>2, <1>11, OutboxBoundsAssumption DEF ReadFails, Fault
  <2> QED  BY <1>4, <1>11, <2>1 DEF ReadFails
<1>12. CASE Die(w)
  <2>1. faults' \in 0..MaxFaults
    BY <1>2, <1>12, OutboxBoundsAssumption DEF Die, Fault
  <2>2. WorkersMove
    BY <1>12, OneMoves DEF Die
  <2> QED  BY <1>2, <1>12, <2>1, <2>2 DEF Die
<1> QED  BY <1>6, <1>7, <1>8, <1>9, <1>10, <1>11, <1>12 DEF Between

(* A batch that commits: the job it was about, and what its records become. *)
LEMMA CommitMoves ==
  ASSUME TypeOK, NEW w \in Workers, BatchCommits(w) \/ BatchCommitsUnseen(w)
  PROVE  /\ WorkersMove
         /\ worker[w] \in Busy /\ worker'[w].pc \in {"idle", "again"}
         /\ \A x \in Workers \ {w} : worker'[x] = worker[x]
         /\ CommitEffects(w)
         /\ faults' \in 0..MaxFaults /\ restarts' = restarts
<1> DEFINE s == worker[w]
<1>1. s \in Busy
  <2>1. s.pc # "idle"
    BY DEF BatchCommits, BatchCommitsUnseen
  <2> QED  BY <2>1, BusyWorker
<1>2. faults \in 0..MaxFaults /\ worker \in [Workers -> WorkerStates]
  BY DEF TypeOK
<1>3. CASE BatchCommits(w)
  <2>1. worker' = [worker EXCEPT ![w] = Idle] /\ CommitEffects(w) /\ UNCHANGED <<faults, restarts>>
    BY <1>3 DEF BatchCommits, counters
  <2>2. Idle.pc = "idle"
    BY DEF Idle
  <2> QED  BY <1>1, <1>2, <2>1, <2>2, OneMoves
<1>4. CASE BatchCommitsUnseen(w)
  <2> DEFINE new == [s EXCEPT !.pc = "again"]
  <2>1. new \in Busy /\ new.pc = "again" /\ new.job = s.job /\ new.lease = s.lease /\ new.outcome = s.outcome
    BY <1>1, FieldsRight
  <2>2. worker' = [worker EXCEPT ![w] = new] /\ CommitEffects(w) /\ restarts' = restarts
    BY <1>4 DEF BatchCommitsUnseen
  <2> HIDE DEF new
  <2>3. faults' \in 0..MaxFaults
    BY <1>2, <1>4, OutboxBoundsAssumption DEF BatchCommitsUnseen, Fault
  <2> QED  BY <1>1, <1>2, <2>1, <2>2, <2>3, OneMoves
<1> QED  BY <1>3, <1>4

LEMMA CommitRecords ==
  ASSUME TypeOK, NEW w \in Workers, worker[w] \in Busy, CommitEffects(w)
  PROVE  LET j == worker[w].job IN
         /\ j \in Jobs /\ HoldsLease(w)
         /\ job' \in [Jobs -> JobRows]
         /\ \A i \in Jobs : job'[i].attempts = job[i].attempts
         /\ \A i \in Jobs \ {j} : job'[i] = job[i]
         /\ job'[j].status = StatusAfter(w)
         /\ StatusAfter(w) \in {"SUCCEEDED", "UNKNOWN", "RETRYABLE_FAILED", "PERMANENT_FAILED"}
         /\ StatusAfter(w) = "SUCCEEDED" <=> worker[w].outcome = "SUCCESS"
         /\ StatusAfter(w) = "UNKNOWN" <=> worker[w].outcome \in {"UNKNOWN", "EXPIRED"}
         /\ StatusAfter(w) = "RETRYABLE_FAILED" => job[j].attempts < MaxAttempts
<1> DEFINE j == worker[w].job
           row == [job[j] EXCEPT !.status = StatusAfter(w), !.expired = FALSE]
<1>1. j \in Jobs /\ worker[w].lease \in Nat /\ worker[w].outcome \in Outcomes
  BY DEF Busy
<1>2. job \in [Jobs -> JobRows] /\ job[j] \in JobRows
  BY <1>1 DEF TypeOK
<1>3. HoldsLease(w) /\ job[j].attempts = worker[w].lease /\ job[j].status = "RUNNING"
  BY DEF CommitEffects, BatchHolds, HoldsLease
<1>4. /\ StatusAfter(w) \in {"SUCCEEDED", "UNKNOWN", "RETRYABLE_FAILED", "PERMANENT_FAILED"}
      /\ StatusAfter(w) = "SUCCEEDED" <=> worker[w].outcome = "SUCCESS"
      /\ StatusAfter(w) = "UNKNOWN" <=> worker[w].outcome \in {"UNKNOWN", "EXPIRED"}
      /\ StatusAfter(w) = "RETRYABLE_FAILED" => worker[w].lease < MaxAttempts
  <2>1. StatusAfter(w) = IF worker[w].outcome = "SUCCESS" THEN "SUCCEEDED"
                         ELSE IF worker[w].outcome \in {"UNKNOWN", "EXPIRED"} THEN "UNKNOWN"
                         ELSE IF worker[w].outcome = "RETRY" /\ worker[w].lease < MaxAttempts THEN "RETRYABLE_FAILED"
                         ELSE "PERMANENT_FAILED"
    BY DEF StatusAfter
  <2> QED  BY <2>1
<1>5. row \in JobRows /\ row.status = StatusAfter(w) /\ row.attempts = job[j].attempts
  BY <1>2, <1>4 DEF JobRows, JobStatuses
<1>6. job' = [job EXCEPT ![j] = row]
  BY <1>3 DEF CommitEffects
<1> HIDE DEF row
<1>7. job'[j] = row /\ \A i \in Jobs \ {j} : job'[i] = job[i]
  BY <1>1, <1>2, <1>6
<1> QED  BY <1>1, <1>2, <1>3, <1>4, <1>5, <1>6, <1>7

(* What the dispatch of the job's email becomes. *)
LEMMA CommitDispatch ==
  ASSUME TypeOK, NEW w \in Workers, worker[w] \in Busy, CommitEffects(w)
  PROVE  LET j == worker[w].job IN
         /\ dispatch' \in [Emails -> DispatchStatuses]
         /\ \A i \in Emails \ {j} : dispatch'[i] = dispatch[i]
         /\ j \in Emails /\ dispatch[j] # "QUEUED" => dispatch'[j] = dispatch[j]
         /\ j \in Emails /\ dispatch[j] = "QUEUED" =>
              dispatch'[j] = IF StatusAfter(w) = "SUCCEEDED" THEN "ACCEPTED"
                             ELSE IF StatusAfter(w) = "UNKNOWN" THEN "UNKNOWN"
                             ELSE IF StatusAfter(w) = "PERMANENT_FAILED" THEN "FAILED" ELSE "QUEUED"
<1> DEFINE j == worker[w].job
<1>1. dispatch \in [Emails -> DispatchStatuses]
  BY DEF TypeOK
<1>2. dispatch' = IF j \in Emails /\ dispatch[j] = "QUEUED" THEN [dispatch EXCEPT ![j] = DispatchAfter(w)] ELSE dispatch
  BY DEF CommitEffects
<1>3. /\ StatusAfter(w) = "SUCCEEDED" <=> worker[w].outcome = "SUCCESS"
      /\ StatusAfter(w) = "UNKNOWN" <=> worker[w].outcome \in {"UNKNOWN", "EXPIRED"}
  BY CommitRecords
<1>4. DispatchAfter(w) = IF worker[w].outcome = "SUCCESS" THEN "ACCEPTED"
                         ELSE IF worker[w].outcome \in {"UNKNOWN", "EXPIRED"} THEN "UNKNOWN"
                         ELSE IF StatusAfter(w) = "PERMANENT_FAILED" THEN "FAILED" ELSE "QUEUED"
  BY <1>3 DEF DispatchAfter
<1>5. DispatchAfter(w) \in DispatchStatuses
  BY <1>4 DEF DispatchStatuses
<1> HIDE DEF j
<1> QED  BY <1>1, <1>2, <1>3, <1>4, <1>5 DEF j

----
(* Who holds an email. *)

(* No lease is ahead of its job's claims; of two workers with one lease on  *)
(* an email, one is there to declare it lost; who is at the work on an      *)
(* email holds its last lease, and has not sent it yet.                     *)
LeasesPast == \A w \in Workers : worker[w] \in Busy => worker[w].lease <= job[worker[w].job].attempts

OneHolder ==
  \A w, x \in Workers :
    /\ w # x /\ worker[w] \in Busy /\ worker[x] \in Busy
    /\ worker[w].job \in Emails /\ worker[x].job = worker[w].job /\ worker[x].lease = worker[w].lease
    => worker[w].outcome = "EXPIRED" \/ worker[x].outcome = "EXPIRED"

HasEmail(w) == worker[w].pc \in {"check", "work"} /\ worker[w].job \in Emails

SendersHold ==
  /\ \A w \in Workers : HasEmail(w) =>
       LET j == worker[w].job IN
       /\ worker[w].lease = job[j].attempts
       /\ job[j].status \in {"RUNNING", "UNKNOWN"}
       /\ mail[j] < job[j].attempts
  /\ \A j \in Emails : mail[j] <= job[j].attempts

(* An email is first claimed when it was queued: its attempts start at 0. *)
FirstClaims == \A j \in Emails : job[j].status = "PENDING" => job[j].attempts = 0

OutboxInv ==
  /\ TypeOK
  /\ WorkOpen /\ LeasesPast /\ OneHolder /\ SendersHold /\ FirstClaims
  /\ RecordsMirrorJobs
  /\ \A j \in Emails : job[j].status # "ABSENT" => j.rev \in approved
  /\ LifecycleFollowsProposal

(* Steps in which no job is claimed. *)
LEMMA HoldersKept ==
  ASSUME OutboxInv, WorkersMove, \A i \in Jobs : job'[i].attempts = job[i].attempts
  PROVE  WorkOpen' /\ LeasesPast' /\ OneHolder'
<1>1. \A w \in Workers : MovesOn(w)
  BY DEF WorkersMove
<1>2. Idle.pc = "idle" /\ Idle \notin Busy
  BY DEF Idle, Busy
<1>3. \A w \in Workers : worker'[w] \in Busy =>
        /\ worker[w] \in Busy /\ worker'[w].job = worker[w].job /\ worker'[w].lease = worker[w].lease
        /\ worker[w].outcome = "EXPIRED" => worker'[w].outcome = "EXPIRED"
  BY <1>1, <1>2 DEF MovesOn
<1>4. WorkOpen'
  BY <1>1, <1>2 DEF MovesOn, OutboxInv, WorkOpen
<1>5. LeasesPast'
  <2> SUFFICES ASSUME NEW w \in Workers, worker'[w] \in Busy PROVE worker'[w].lease <= job'[worker'[w].job].attempts
    BY DEF LeasesPast
  <2>1. worker[w].job \in Jobs
    BY <1>3 DEF Busy
  <2> QED  BY <1>3, <2>1 DEF OutboxInv, LeasesPast
<1>6. OneHolder'
  <2> SUFFICES ASSUME NEW w \in Workers, NEW x \in Workers, w # x, worker'[w] \in Busy, worker'[x] \in Busy,
                      worker'[w].job \in Emails, worker'[x].job = worker'[w].job, worker'[x].lease = worker'[w].lease
               PROVE  worker'[w].outcome = "EXPIRED" \/ worker'[x].outcome = "EXPIRED"
    BY DEF OneHolder
  <2>1. worker[w].outcome = "EXPIRED" \/ worker[x].outcome = "EXPIRED"
    BY <1>3 DEF OutboxInv, OneHolder
  <2> QED  BY <1>3, <2>1
<1> QED  BY <1>4, <1>5, <1>6

(* Who is at the work on an email was at it before. *)
LEMMA SendersBefore ==
  ASSUME OutboxInv, WorkersMove, NEW w \in Workers, HasEmail(w)'
  PROVE  /\ HasEmail(w) /\ worker[w] \in Busy /\ worker[w].outcome = "SUCCESS"
         /\ worker'[w].job = worker[w].job /\ worker'[w].lease = worker[w].lease
<1>1. MovesOn(w)
  BY DEF WorkersMove
<1>2. Idle.pc = "idle"
  BY DEF Idle
<1>3. HasEmail(w) /\ worker'[w].job = worker[w].job /\ worker'[w].lease = worker[w].lease
  BY <1>1, <1>2 DEF MovesOn, HasEmail
<1>4. worker[w].pc # "idle" /\ worker[w].outcome = "SUCCESS"
  BY <1>3 DEF HasEmail, OutboxInv, WorkOpen
<1> QED  BY <1>3, <1>4, BusyWorker DEF OutboxInv

(* Two workers are never at the work on one email. *)
LEMMA SendersApart ==
  ASSUME OutboxInv, NEW w \in Workers, NEW x \in Workers, HasEmail(w), HasEmail(x), worker[w].job = worker[x].job
  PROVE  w = x
<1>1. worker[w].lease = worker[x].lease
  BY DEF OutboxInv, SendersHold
<1>2. worker[w].outcome = "SUCCESS" /\ worker[x].outcome = "SUCCESS"
  BY DEF HasEmail, OutboxInv, WorkOpen
<1>3. worker[w] \in Busy /\ worker[x] \in Busy
  BY BusyWorker DEF HasEmail, OutboxInv
<1> QED  BY <1>1, <1>2, <1>3 DEF HasEmail, OutboxInv, OneHolder

(* Steps in which no job is claimed and no email is sent. *)
LEMMA SendersKept ==
  ASSUME OutboxInv, WorkersMove, mail' = mail, \A i \in Jobs : job'[i].attempts = job[i].attempts,
         \A w \in Workers : HasEmail(w)' => job'[worker[w].job].status \in {"RUNNING", "UNKNOWN"}
  PROVE  SendersHold'
<1>1. ASSUME NEW w \in Workers, HasEmail(w)'
      PROVE  LET j == worker'[w].job IN
             /\ worker'[w].lease = job'[j].attempts
             /\ job'[j].status \in {"RUNNING", "UNKNOWN"}
             /\ mail'[j] < job'[j].attempts
  <2>1. /\ HasEmail(w) /\ worker[w] \in Busy
        /\ worker'[w].job = worker[w].job /\ worker'[w].lease = worker[w].lease
    BY <1>1, SendersBefore
  <2>2. worker[w].job \in Jobs
    BY <2>1 DEF Busy
  <2> QED  BY <1>1, <2>1, <2>2 DEF OutboxInv, SendersHold
<1>2. \A j \in Emails : mail'[j] <= job'[j].attempts
  BY JobKinds DEF OutboxInv, SendersHold
<1> QED  BY <1>1, <1>2 DEF SendersHold

(* What is sent is the work of the one worker that is at it. *)
LEMMA SentOnce ==
  ASSUME OutboxInv, WorkersMove, NEW w \in Workers, worker[w].pc = "work", worker[w].job \in Emails,
         worker'[w].pc = "head", UNCHANGED job, mail' = [mail EXCEPT ![worker[w].job] = @ + 1]
  PROVE  SendersHold' /\ mail' \in [Emails -> Nat]
<1> DEFINE j == worker[w].job
<1>1. mail \in [Emails -> Nat] /\ j \in Emails /\ mail[j] < job[j].attempts /\ job[j].attempts \in Nat
  BY JobKinds DEF OutboxInv, TypeOK, JobRows, SendersHold, HasEmail
<1>2. mail'[j] = mail[j] + 1 /\ (\A i \in Emails \ {j} : mail'[i] = mail[i]) /\ mail' \in [Emails -> Nat]
  BY <1>1
<1>3. ASSUME NEW x \in Workers, HasEmail(x)'
      PROVE  LET i == worker'[x].job IN
             /\ worker'[x].lease = job'[i].attempts
             /\ job'[i].status \in {"RUNNING", "UNKNOWN"}
             /\ mail'[i] < job'[i].attempts
  <2>1. /\ HasEmail(x) /\ worker'[x].job = worker[x].job /\ worker'[x].lease = worker[x].lease
    BY <1>3, SendersBefore
  <2>2. x # w
    BY <1>3 DEF HasEmail
  <2>3. worker[x].job # j
    BY <2>1, <2>2, SendersApart DEF HasEmail
  <2> QED  BY <1>2, <2>1, <2>3 DEF OutboxInv, SendersHold, HasEmail
<1>4. ASSUME NEW i \in Emails PROVE mail'[i] <= job'[i].attempts
  BY <1>1, <1>2 DEF OutboxInv, SendersHold
<1> QED  BY <1>2, <1>3, <1>4 DEF SendersHold

----
(* Every step keeps the invariant. *)

(* A new outbox. *)
LEMMA InitHolds == Init => OutboxInv
<1> SUFFICES ASSUME Init PROVE OutboxInv
  OBVIOUS
<1>1. Absent \in JobRows /\ Absent.status = "ABSENT" /\ Absent.attempts = 0
  BY DEF Absent, JobRows, JobStatuses
<1>2. \A j \in Jobs : job[j] = Absent
  BY DEF Init
<1>3. Idle \in WorkerStates /\ Idle.pc = "idle" /\ Idle \notin Busy
  BY DEF Idle, WorkerStates, Busy
<1>4. \A w \in Workers : worker[w] = Idle
  BY DEF Init
<1>5. TypeOK
  <2>1. 1 \in Revisions /\ 0 \in 0..MaxFaults /\ 0 \in 0..MaxRestarts
    BY OutboxBoundsAssumption DEF Revisions
  <2>2. engagement \in [state : LifecycleStates, version : Nat, active : Revisions \cup {0}]
    BY DEF Init, LifecycleStates
  <2>3. \A j \in Jobs : job[j].status # "RETRYABLE_FAILED" /\ job[j].attempts <= MaxAttempts
    BY <1>1, <1>2, LimitsAssumption
  <2>4. transitions \in Seq(LifecycleStates \X LifecycleStates)
    BY DEF Init
  <2> QED  BY <1>1, <1>3, <2>1, <2>2, <2>3, <2>4, JobKinds DEF Init, TypeOK, DispatchStatuses
<1>6. WorkOpen /\ LeasesPast /\ OneHolder
  BY <1>3, <1>4 DEF WorkOpen, LeasesPast, OneHolder
<1>7. SendersHold
  BY <1>1, <1>2, <1>3, <1>4, JobKinds DEF Init, SendersHold, HasEmail
<1>8. FirstClaims /\ \A j \in Emails : job[j].status = "ABSENT"
  BY <1>1, <1>2, JobKinds DEF FirstClaims
<1>9. RecordsMirrorJobs
  <2>1. \A v \in Revisions : job[Generation(v)].status = "ABSENT"
    BY <1>1, <1>2, JobKinds
  <2> QED  BY <1>8, <2>1 DEF Init, RecordsMirrorJobs, Delivered
<1>10. LifecycleFollowsProposal
  BY DEF Init, LifecycleFollowsProposal, InGeneration
<1> QED  BY <1>5, <1>6, <1>7, <1>8, <1>9, <1>10 DEF OutboxInv

(* A worker between its claim and its batch. *)
LEMMA BetweenKeeps ==
  ASSUME OutboxInv, NEW w \in Workers, Between(w)
  PROVE  OutboxInv'
<1>1. /\ WorkersMove /\ fresh' \subseteq Workers /\ faults' \in 0..MaxFaults
      /\ UNCHANGED <<job, dispatch, artifacts, current, approved, manual, engagement, transitions, restarts>>
      /\ \/ mail' = mail
         \/ /\ worker[w].pc = "work" /\ worker[w].job \in Emails /\ worker'[w].pc = "head"
            /\ mail' = [mail EXCEPT ![worker[w].job] = @ + 1]
  BY BetweenMoves DEF OutboxInv
<1>2. WorkOpen' /\ LeasesPast' /\ OneHolder'
  BY <1>1, HoldersKept
<1>3. SendersHold' /\ mail' \in [Emails -> Nat]
  <2>1. CASE mail' = mail
    <3>1. \A x \in Workers : HasEmail(x)' => job'[worker[x].job].status \in {"RUNNING", "UNKNOWN"}
      BY <1>1, SendersBefore DEF OutboxInv, SendersHold
    <3>2. \A i \in Jobs : job'[i].attempts = job[i].attempts
      BY <1>1
    <3>3. SendersHold'
      BY <1>1, <2>1, <3>1, <3>2, SendersKept
    <3> QED  BY <2>1, <3>3 DEF OutboxInv, TypeOK
  <2> QED  BY <1>1, <2>1, SentOnce
<1>4. TypeOK'
  BY <1>1, <1>3 DEF OutboxInv, TypeOK, WorkersMove
<1>5. /\ FirstClaims' /\ RecordsMirrorJobs' /\ LifecycleFollowsProposal'
      /\ \A j \in Emails : job'[j].status # "ABSENT" => j.rev \in approved'
  BY <1>1 DEF OutboxInv, FirstClaims, RecordsMirrorJobs, Delivered, LifecycleFollowsProposal, InGeneration
<1> QED  BY <1>2, <1>3, <1>4, <1>5 DEF OutboxInv

(* A job is claimed: an email's claim finds nobody at the work on it. *)
LEMMA ClaimKeeps ==
  ASSUME OutboxInv, NEW w \in Workers, NEW j \in Jobs, Claim(w, j)
  PROVE  OutboxInv'
<1> DEFINE n == job[j].attempts + 1
           row == [status |-> "RUNNING", attempts |-> n, due |-> FALSE, expired |-> FALSE]
           new == [pc |-> "check", job |-> j, lease |-> n, seen |-> 0, outcome |-> "SUCCESS", tries |-> 0]
<1>1. /\ job \in [Jobs -> JobRows] /\ worker \in [Workers -> WorkerStates] /\ mail \in [Emails -> Nat]
      /\ job[j].attempts \in Nat /\ n \in Nat /\ n > job[j].attempts
  BY DEF OutboxInv, TypeOK, JobRows
<1>2. row \in JobRows /\ row.status = "RUNNING" /\ row.attempts = n
  BY <1>1 DEF JobRows, JobStatuses
<1>3. /\ new \in Busy /\ new \in WorkerStates
      /\ new.pc = "check" /\ new.job = j /\ new.lease = n /\ new.outcome = "SUCCESS"
  BY <1>1, LimitsAssumption DEF Busy, WorkerStates, Outcomes
<1>4. /\ job' = [job EXCEPT ![j] = row] /\ worker' = [worker EXCEPT ![w] = new]
      /\ UNCHANGED <<dispatch, artifacts, current, approved, manual, engagement, transitions, fresh, mail, faults, restarts>>
  BY DEF Claim, proposal, counters
<1>5. /\ job[j].status \in {"PENDING", "RETRYABLE_FAILED"} \/ (job[j].status = "RUNNING" /\ j \in Generations)
  BY DEF Claim, Claimable
<1> HIDE DEF row, new, n
<1>6. job'[j] = row /\ (\A i \in Jobs \ {j} : job'[i] = job[i]) /\ job' \in [Jobs -> JobRows]
  BY <1>1, <1>2, <1>4
<1>7. worker'[w] = new /\ (\A x \in Workers \ {w} : worker'[x] = worker[x]) /\ worker' \in [Workers -> WorkerStates]
  BY <1>1, <1>3, <1>4
<1>8. j \in Emails => job[j].status \in {"PENDING", "RETRYABLE_FAILED"} /\ n <= MaxAttempts
  <2>1. j \in Emails => job[j].status \in {"PENDING", "RETRYABLE_FAILED"}
    BY <1>5, JobKinds
  <2>2. j \in Emails /\ job[j].status = "PENDING" => n = 1
    BY DEF OutboxInv, FirstClaims, n
  <2>3. job[j].status = "RETRYABLE_FAILED" => job[j].attempts < MaxAttempts
    BY DEF OutboxInv, TypeOK
  <2> QED  BY <1>1, <2>1, <2>2, <2>3, LimitsAssumption DEF n
<1>9. TypeOK'
  <2>1. \A i \in Jobs : job'[i].status = "RETRYABLE_FAILED" => job'[i].attempts < MaxAttempts
    BY <1>2, <1>6 DEF OutboxInv, TypeOK
  <2>2. \A i \in Emails : job'[i].attempts <= MaxAttempts
    BY <1>2, <1>6, <1>8, JobKinds DEF OutboxInv, TypeOK
  <2> QED  BY <1>4, <1>6, <1>7, <2>1, <2>2 DEF OutboxInv, TypeOK
<1>10. WorkOpen'
  BY <1>3, <1>7 DEF OutboxInv, WorkOpen
<1>11. \A x \in Workers \ {w} : worker[x] \in Busy /\ worker[x].job = j => worker[x].lease < n /\ worker[x].lease \in Nat
  BY <1>1 DEF OutboxInv, LeasesPast, Busy, n
<1>12. LeasesPast'
  <2> SUFFICES ASSUME NEW x \in Workers, worker'[x] \in Busy PROVE worker'[x].lease <= job'[worker'[x].job].attempts
    BY DEF LeasesPast
  <2>1. CASE x = w
    BY <1>1, <1>2, <1>3, <1>6, <1>7, <2>1
  <2>2. CASE x # w /\ worker[x].job = j
    BY <1>1, <1>2, <1>6, <1>7, <1>11, <2>2
  <2>3. CASE x # w /\ worker[x].job # j
    <3>1. worker[x] \in Busy /\ worker[x].job \in Jobs
      BY <1>7, <2>3 DEF Busy
    <3> QED  BY <1>6, <1>7, <2>3, <3>1 DEF OutboxInv, LeasesPast
  <2> QED  BY <2>1, <2>2, <2>3
<1>13. OneHolder'
  <2> SUFFICES ASSUME NEW x \in Workers, NEW y \in Workers, x # y, worker'[x] \in Busy, worker'[y] \in Busy,
                      worker'[x].job \in Emails, worker'[y].job = worker'[x].job, worker'[y].lease = worker'[x].lease
               PROVE  worker'[x].outcome = "EXPIRED" \/ worker'[y].outcome = "EXPIRED"
    BY DEF OneHolder
  <2>1. x # w /\ y # w
    BY <1>1, <1>3, <1>7, <1>11
  <2> QED  BY <1>7, <2>1 DEF OutboxInv, OneHolder
<1>14. SendersHold'
  <2>1. ASSUME NEW x \in Workers, HasEmail(x)'
        PROVE  LET i == worker'[x].job IN
               /\ worker'[x].lease = job'[i].attempts
               /\ job'[i].status \in {"RUNNING", "UNKNOWN"}
               /\ mail'[i] < job'[i].attempts
    <3>1. CASE x = w
      <4>1. j \in Emails /\ mail[j] <= job[j].attempts /\ mail[j] \in Nat
        BY <1>1, <1>3, <1>7, <2>1, <3>1 DEF HasEmail, OutboxInv, SendersHold
      <4>2. mail[j] < n
        BY <1>1, <4>1
      <4> QED  BY <1>2, <1>3, <1>4, <1>6, <1>7, <3>1, <4>2
    <3>2. CASE x # w
      <4>1. HasEmail(x) /\ worker'[x] = worker[x]
        BY <1>7, <2>1, <3>2 DEF HasEmail
      <4>2. worker[x].job # j /\ worker[x].job \in Jobs
        BY <1>8, <4>1, JobKinds DEF HasEmail, OutboxInv, SendersHold
      <4> QED  BY <1>4, <1>6, <4>1, <4>2 DEF OutboxInv, SendersHold
    <3> QED  BY <3>1, <3>2
  <2>2. ASSUME NEW i \in Emails PROVE mail'[i] <= job'[i].attempts
    <3>1. mail[i] <= job[i].attempts /\ i \in Jobs /\ mail[i] \in Nat
      BY <1>1, JobKinds DEF OutboxInv, SendersHold
    <3> QED  BY <1>1, <1>2, <1>4, <1>6, <3>1
  <2> QED  BY <2>1, <2>2 DEF SendersHold
<1>15. FirstClaims' /\ \A i \in Emails : job'[i].status # "ABSENT" => i.rev \in approved'
  BY <1>2, <1>4, <1>5, <1>6, JobKinds DEF OutboxInv, FirstClaims
<1>16. RecordsMirrorJobs'
  <2>1. ASSUME NEW v \in Revisions PROVE job'[Generation(v)].status = "SUCCEEDED" <=> job[Generation(v)].status = "SUCCEEDED"
    BY <1>2, <1>5, <1>6, JobKinds
  <2>2. ASSUME NEW i \in Emails
        PROVE  /\ job'[i].status = job[i].status
                  \/ (job'[i].status = "RUNNING" /\ job[i].status \in {"PENDING", "RETRYABLE_FAILED"})
    BY <1>2, <1>6, <1>8, JobKinds
  <2> QED  BY <1>4, <2>1, <2>2 DEF OutboxInv, RecordsMirrorJobs, Delivered
<1>17. LifecycleFollowsProposal'
  BY <1>4 DEF OutboxInv, LifecycleFollowsProposal, InGeneration, Delivered
<1> QED  BY <1>9, <1>10, <1>12, <1>13, <1>14, <1>15, <1>16, <1>17 DEF OutboxInv

(* An email's lost job is taken, to be declared lost: with the lease of its *)
(* last worker, who may still be there.                                     *)
LEMMA TakeKeeps ==
  ASSUME OutboxInv, NEW w \in Workers, NEW j \in Emails, TakeExpired(w, j)
  PROVE  OutboxInv'
<1> DEFINE new == [pc |-> "head", job |-> j, lease |-> job[j].attempts, seen |-> 0, outcome |-> "EXPIRED", tries |-> 0]
<1>1. worker \in [Workers -> WorkerStates] /\ job[j].attempts \in Nat /\ j \in Jobs
  BY JobKinds DEF OutboxInv, TypeOK, JobRows
<1>2. /\ new \in Busy /\ new \in WorkerStates
      /\ new.pc = "head" /\ new.job = j /\ new.lease = job[j].attempts /\ new.outcome = "EXPIRED"
  BY <1>1, LimitsAssumption DEF Busy, WorkerStates, Outcomes
<1>3. /\ worker' = [worker EXCEPT ![w] = new]
      /\ UNCHANGED <<job, dispatch, artifacts, current, approved, manual, engagement, transitions, fresh, mail, faults, restarts>>
  BY DEF TakeExpired, proposal, counters
<1> HIDE DEF new
<1>4. worker'[w] = new /\ (\A x \in Workers \ {w} : worker'[x] = worker[x]) /\ worker' \in [Workers -> WorkerStates]
  BY <1>1, <1>2, <1>3
<1>5. TypeOK'
  BY <1>3, <1>4 DEF OutboxInv, TypeOK
<1>6. WorkOpen' /\ SendersHold'
  BY <1>2, <1>3, <1>4 DEF OutboxInv, WorkOpen, SendersHold, HasEmail
<1>7. LeasesPast'
  <2> SUFFICES ASSUME NEW x \in Workers, worker'[x] \in Busy PROVE worker'[x].lease <= job'[worker'[x].job].attempts
    BY DEF LeasesPast
  <2>1. CASE x = w
    BY <1>1, <1>2, <1>3, <1>4, <2>1
  <2>2. CASE x # w
    BY <1>3, <1>4, <2>2 DEF OutboxInv, LeasesPast
  <2> QED  BY <2>1, <2>2
<1>8. OneHolder'
  BY <1>2, <1>4 DEF OutboxInv, OneHolder
<1>9. /\ FirstClaims' /\ RecordsMirrorJobs' /\ LifecycleFollowsProposal'
      /\ \A i \in Emails : job'[i].status # "ABSENT" => i.rev \in approved'
  BY <1>3 DEF OutboxInv, FirstClaims, RecordsMirrorJobs, Delivered, LifecycleFollowsProposal, InGeneration
<1> QED  BY <1>5, <1>6, <1>7, <1>8, <1>9 DEF OutboxInv

(* The transitions recorded stay recorded, if another one is or none. *)
TransitionsKept ==
  /\ transitions' \in Seq(LifecycleStates \X LifecycleStates)
  /\ \E n \in 0..Len(transitions') : transitions = SubSeq(transitions', 1, n)

LEMMA Recorded ==
  ASSUME TypeOK,
         \/ UNCHANGED transitions
         \/ \E from, to \in LifecycleStates : transitions' = Append(transitions, <<from, to>>)
  PROVE  TransitionsKept
<1> DEFINE S == LifecycleStates \X LifecycleStates
           n == Len(transitions)
<1>1. transitions \in Seq(S) /\ n \in Nat
  BY LenProperties DEF TypeOK
<1>2. CASE UNCHANGED transitions
  <2>1. SubSeq(transitions, 1, n) = transitions
    BY <1>1, SubSeqFull
  <2>2. n \in 0..Len(transitions')
    BY <1>1, <1>2
  <2> QED  BY <1>1, <1>2, <2>1, <2>2 DEF TransitionsKept
<1>3. ASSUME NEW from \in LifecycleStates, NEW to \in LifecycleStates, transitions' = Append(transitions, <<from, to>>)
      PROVE  TransitionsKept
  <2> DEFINE t == Append(transitions, <<from, to>>)
  <2>1. t \in Seq(S) /\ Len(t) = n + 1 /\ \A i \in 1..n : t[i] = transitions[i]
    BY <1>1, AppendProperties
  <2> HIDE DEF S, t
  <2>2. n \in 0..Len(t)
    BY <1>1, <2>1
  <2>3. SubSeq(t, 1, n) = transitions
    <3>1. \A i \in 1..n : t[i] \in S
      BY <1>1, <2>1, ElementOfSeq
    <3> QED  BY <1>1, <2>1, <3>1, SubSeqProperties, SeqEqual
  <2>4. transitions' = t
    BY <1>3 DEF t
  <2> QED  BY <2>1, <2>2, <2>3, <2>4 DEF TransitionsKept, S
<1> QED  BY <1>2, <1>3

(* What an accepted email does to the engagement. *)
LEMMA DeliverMoves ==
  ASSUME OutboxInv, NEW j \in Emails, NEW seen, Deliver(j.rev, seen), StillSendable(j, seen), j.rev \in approved,
         UNCHANGED <<current, approved, manual>>, dispatch'[j] = "ACCEPTED"
  PROVE  /\ engagement' \in [state : LifecycleStates, version : Nat, active : Revisions \cup {0}]
         /\ TransitionsKept
         /\ LifecycleFollowsProposal'
<1>1. /\ engagement \in [state : LifecycleStates, version : Nat, active : Revisions \cup {0}]
      /\ j.rev \in Revisions
  BY JobKinds DEF OutboxInv, TypeOK
<1>2. engagement' \in [state : LifecycleStates, version : Nat, active : Revisions \cup {0}]
  BY <1>1 DEF Deliver, LifecycleStates
<1>3. TransitionsKept
  BY Recorded DEF Deliver, LifecycleStates, OutboxInv
<1>4. /\ engagement'.state # "PROPOSAL_GENERATION" /\ engagement'.active = j.rev
  BY <1>1 DEF StillSendable, Deliver, InGeneration, FollowsUp
<1>5. LifecycleFollowsProposal'
  BY <1>4 DEF StillSendable, LifecycleFollowsProposal, InGeneration, Delivered
<1> QED  BY <1>2, <1>3, <1>5

(* A batch commits. *)
LEMMA CommitKeeps ==
  ASSUME OutboxInv, NEW w \in Workers, BatchCommits(w) \/ BatchCommitsUnseen(w)
  PROVE  OutboxInv' /\ TransitionsKept
<1> DEFINE j == worker[w].job
<1>1. /\ WorkersMove /\ worker[w] \in Busy /\ worker'[w].pc \in {"idle", "again"} /\ CommitEffects(w)
      /\ faults' \in 0..MaxFaults /\ restarts' = restarts
      /\ \A x \in Workers \ {w} : worker'[x] = worker[x]
  BY CommitMoves DEF OutboxInv
<1>2. /\ j \in Jobs /\ HoldsLease(w)
      /\ job' \in [Jobs -> JobRows]
      /\ \A i \in Jobs : job'[i].attempts = job[i].attempts
      /\ \A i \in Jobs \ {j} : job'[i] = job[i]
      /\ job'[j].status = StatusAfter(w)
      /\ StatusAfter(w) \in {"SUCCEEDED", "UNKNOWN", "RETRYABLE_FAILED", "PERMANENT_FAILED"}
      /\ StatusAfter(w) = "SUCCEEDED" <=> worker[w].outcome = "SUCCESS"
      /\ StatusAfter(w) = "UNKNOWN" <=> worker[w].outcome \in {"UNKNOWN", "EXPIRED"}
      /\ StatusAfter(w) = "RETRYABLE_FAILED" => job[j].attempts < MaxAttempts
  BY <1>1, CommitRecords DEF OutboxInv
<1>3. /\ dispatch' \in [Emails -> DispatchStatuses]
      /\ \A i \in Emails \ {j} : dispatch'[i] = dispatch[i]
      /\ j \in Emails /\ dispatch[j] # "QUEUED" => dispatch'[j] = dispatch[j]
      /\ j \in Emails /\ dispatch[j] = "QUEUED" =>
           dispatch'[j] = IF StatusAfter(w) = "SUCCEEDED" THEN "ACCEPTED"
                          ELSE IF StatusAfter(w) = "UNKNOWN" THEN "UNKNOWN"
                          ELSE IF StatusAfter(w) = "PERMANENT_FAILED" THEN "FAILED" ELSE "QUEUED"
  BY <1>1, CommitDispatch DEF OutboxInv
<1>4. /\ fresh' = {} /\ UNCHANGED <<current, approved, manual, mail>>
      /\ artifacts' = IF worker[w].outcome = "SUCCESS" /\ j \in Generations THEN artifacts \cup {j.rev} ELSE artifacts
      /\ IF worker[w].outcome = "SUCCESS" /\ j \in Emails THEN Deliver(j.rev, worker[w].seen)
         ELSE UNCHANGED <<engagement, transitions>>
      /\ worker[w].outcome = "SUCCESS" /\ j \in Emails => StillSendable(j, worker[w].seen)
      /\ job[j].status = "RUNNING" /\ worker[w].lease = job[j].attempts
  BY <1>1, <1>2 DEF CommitEffects, BatchHolds, HoldsLease
<1> HIDE DEF j
<1>5. j \in Emails => dispatch[j] = "QUEUED" /\ j.rev \in approved
  BY <1>4 DEF OutboxInv, RecordsMirrorJobs
<1>6. WorkOpen' /\ LeasesPast' /\ OneHolder'
  BY <1>1, <1>2, HoldersKept
<1>7. SendersHold'
  <2>0. SUFFICES ASSUME NEW x \in Workers, HasEmail(x)' PROVE job'[worker[x].job].status \in {"RUNNING", "UNKNOWN"}
    BY <1>1, <1>2, <1>4, SendersKept
  <2>1. /\ HasEmail(x) /\ worker[x] \in Busy /\ worker[x].outcome = "SUCCESS"
        /\ worker[x].lease = job[worker[x].job].attempts /\ job[worker[x].job].status \in {"RUNNING", "UNKNOWN"}
    BY <1>1, <2>0, SendersBefore DEF OutboxInv, SendersHold
  <2>2. CASE worker[x].job # j
    BY <1>2, <2>1, <2>2, JobKinds DEF HasEmail
  <2>3. CASE worker[x].job = j
    <3>1. x # w
      BY <1>1, <2>0 DEF HasEmail
    <3>2. worker[w].outcome = "EXPIRED"
      BY <1>1, <1>4, <2>1, <2>3, <3>1 DEF OutboxInv, OneHolder, HasEmail, j
    <3> QED  BY <1>2, <2>3, <3>2
  <2> QED  BY <2>2, <2>3
<1>8. FirstClaims' /\ \A i \in Emails : job'[i].status # "ABSENT" => i.rev \in approved'
  BY <1>2, <1>4, <1>5, JobKinds DEF OutboxInv, FirstClaims
<1>9. /\ engagement' \in [state : LifecycleStates, version : Nat, active : Revisions \cup {0}]
      /\ TransitionsKept
      /\ LifecycleFollowsProposal'
  <2>1. CASE worker[w].outcome = "SUCCESS" /\ j \in Emails
    BY <1>2, <1>3, <1>4, <1>5, <2>1, DeliverMoves
  <2>2. CASE ~(worker[w].outcome = "SUCCESS" /\ j \in Emails)
    <3>1. UNCHANGED <<engagement, transitions>>
      BY <1>4, <2>2
    <3>2. TransitionsKept
      BY <3>1, Recorded DEF OutboxInv
    <3>3. \A i \in Emails : Delivered(i) => Delivered(i)'
      BY <1>3, <1>5 DEF Delivered
    <3>4. LifecycleFollowsProposal'
      BY <1>4, <3>1, <3>3 DEF OutboxInv, LifecycleFollowsProposal, InGeneration
    <3> QED  BY <3>1, <3>2, <3>4 DEF OutboxInv, TypeOK
  <2> QED  BY <2>1, <2>2
<1>10. RecordsMirrorJobs'
  <2>1. ASSUME NEW v \in Revisions PROVE v \in artifacts' <=> job'[Generation(v)].status = "SUCCEEDED"
    <3>1. v \in artifacts <=> job[Generation(v)].status = "SUCCEEDED"
      BY DEF OutboxInv, RecordsMirrorJobs
    <3>2. CASE j = Generation(v)
      <4>1. j \in Generations /\ j.rev = v
        BY <3>2, JobKinds
      <4> QED  BY <1>2, <1>4, <3>1, <3>2, <4>1
    <3>3. CASE j # Generation(v)
      <4>1. Generation(v) \in Jobs /\ (j \in Generations => j.rev # v)
        BY <3>3, JobKinds
      <4> QED  BY <1>2, <1>4, <3>1, <3>3, <4>1
    <3> QED  BY <3>2, <3>3
  <2>2. ASSUME NEW i \in Emails
        PROVE  /\ (job'[i].status = "ABSENT") <=> (dispatch'[i] = "ABSENT")
               /\ (job'[i].status \in {"PENDING", "RUNNING", "RETRYABLE_FAILED"}) <=> (dispatch'[i] = "QUEUED")
               /\ (job'[i].status = "SUCCEEDED") <=> Delivered(i)'
               /\ (job'[i].status = "UNKNOWN") <=> (dispatch'[i] = "UNKNOWN")
    <3>1. CASE i = j
      BY <1>2, <1>3, <1>5, <3>1 DEF Delivered
    <3>2. CASE i # j
      <4>1. job'[i] = job[i] /\ dispatch'[i] = dispatch[i]
        BY <1>2, <1>3, <3>2, JobKinds
      <4> QED  BY <4>1 DEF OutboxInv, RecordsMirrorJobs, Delivered
    <3> QED  BY <3>1, <3>2
  <2> QED  BY <2>1, <2>2 DEF RecordsMirrorJobs
<1>11. TypeOK'
  <2>1. \A i \in Jobs : job'[i].status = "RETRYABLE_FAILED" => job'[i].attempts < MaxAttempts
    BY <1>2 DEF OutboxInv, TypeOK
  <2>2. \A i \in Emails : job'[i].attempts <= MaxAttempts
    BY <1>2, JobKinds DEF OutboxInv, TypeOK
  <2>3. artifacts' \subseteq Revisions /\ fresh' \subseteq Workers
    BY <1>4, JobKinds DEF OutboxInv, TypeOK
  <2> QED  BY <1>1, <1>2, <1>3, <1>4, <1>9, <2>1, <2>2, <2>3 DEF OutboxInv, TypeOK, WorkersMove, TransitionsKept
<1> QED  BY <1>6, <1>7, <1>8, <1>9, <1>10, <1>11 DEF OutboxInv

(* Steps of nobody at work: what workers hold is theirs if their jobs keep  *)
(* their attempts, and those in hand stay so.                               *)
LEMMA NobodyMoves ==
  ASSUME OutboxInv, UNCHANGED <<worker, mail>>,
         \A i \in Jobs : job'[i].attempts = job[i].attempts,
         \A i \in Emails : job[i].status \in {"RUNNING", "UNKNOWN"} => job'[i].status = job[i].status
  PROVE  WorkOpen' /\ LeasesPast' /\ OneHolder' /\ SendersHold'
<1>1. WorkersMove
  BY DEF OutboxInv, TypeOK, WorkersMove, MovesOn
<1>2. WorkOpen' /\ LeasesPast' /\ OneHolder'
  BY <1>1, HoldersKept
<1>3. ASSUME NEW x \in Workers, HasEmail(x)' PROVE job'[worker[x].job].status \in {"RUNNING", "UNKNOWN"}
  <2>1. HasEmail(x) /\ worker[x].job \in Emails
    BY <1>1, <1>3, SendersBefore DEF HasEmail
  <2> QED  BY <2>1 DEF OutboxInv, SendersHold
<1>4. SendersHold'
  BY <1>1, <1>3, SendersKept
<1> QED  BY <1>2, <1>4

(* A lease or a backoff runs out. *)
LEMMA TimeKeeps ==
  ASSUME OutboxInv, NEW j \in Jobs, TimePasses(j)
  PROVE  OutboxInv'
<1>1. /\ job \in [Jobs -> JobRows] /\ faults \in 0..MaxFaults
  BY DEF OutboxInv, TypeOK
<1>2. /\ UNCHANGED <<dispatch, artifacts, current, approved, manual, engagement, transitions, worker, fresh, mail, restarts>>
      /\ faults' = faults \/ (faults < MaxFaults /\ faults' = faults + 1)
      /\ \/ job' = [job EXCEPT ![j] = [job[j] EXCEPT !.expired = TRUE]]
         \/ job' = [job EXCEPT ![j] = [job[j] EXCEPT !.due = TRUE]]
  BY DEF TimePasses, LeaseExpires, BackoffEnds, Fault, proposal, counters
<1>3. /\ job' \in [Jobs -> JobRows]
      /\ \A i \in Jobs : job'[i].attempts = job[i].attempts /\ job'[i].status = job[i].status
  <2>1. ASSUME NEW new \in JobRows, new.attempts = job[j].attempts, new.status = job[j].status, job' = [job EXCEPT ![j] = new]
        PROVE  /\ job' \in [Jobs -> JobRows]
               /\ \A i \in Jobs : job'[i].attempts = job[i].attempts /\ job'[i].status = job[i].status
    BY <1>1, <2>1
  <2>2. LET new == [job[j] EXCEPT !.expired = TRUE] IN
        new \in JobRows /\ new.attempts = job[j].attempts /\ new.status = job[j].status
    BY <1>1 DEF JobRows
  <2>3. LET new == [job[j] EXCEPT !.due = TRUE] IN
        new \in JobRows /\ new.attempts = job[j].attempts /\ new.status = job[j].status
    BY <1>1 DEF JobRows
  <2> QED  BY <1>2, <2>1, <2>2, <2>3
<1>4. faults' \in 0..MaxFaults
  BY <1>1, <1>2, OutboxBoundsAssumption
<1>5. WorkOpen' /\ LeasesPast' /\ OneHolder' /\ SendersHold'
  BY <1>2, <1>3, JobKinds, NobodyMoves
<1>6. TypeOK'
  BY <1>2, <1>3, <1>4, JobKinds DEF OutboxInv, TypeOK
<1>7. /\ FirstClaims' /\ RecordsMirrorJobs' /\ LifecycleFollowsProposal'
      /\ \A i \in Emails : job'[i].status # "ABSENT" => i.rev \in approved'
  BY <1>2, <1>3, JobKinds DEF OutboxInv, FirstClaims, RecordsMirrorJobs, Delivered, LifecycleFollowsProposal, InGeneration
<1> QED  BY <1>5, <1>6, <1>7 DEF OutboxInv

(* A rendering is queued, for the first time or again. *)
LEMMA GenerationQueued ==
  ASSUME OutboxInv, Generate \/ RetryGeneration
  PROVE  OutboxInv'
<1> DEFINE j == Generation(current)
           row == [job[j] EXCEPT !.status = "PENDING", !.due = TRUE]
<1>1. /\ job \in [Jobs -> JobRows] /\ restarts \in 0..MaxRestarts
      /\ j \in Jobs /\ j \in Generations /\ j \notin Emails /\ job[j] \in JobRows
  BY JobKinds DEF OutboxInv, TypeOK
<1>2. /\ UNCHANGED <<dispatch, artifacts, current, approved, manual, engagement, transitions, worker, mail, faults>>
      /\ fresh' = {}
      /\ restarts' = restarts \/ (restarts < MaxRestarts /\ restarts' = restarts + 1)
      /\ job[j].status \in {"ABSENT", "RETRYABLE_FAILED", "PERMANENT_FAILED"}
      /\ job' = [job EXCEPT ![j] = row]
  <2>1. CASE Generate
    <3>1. job[j] = Absent /\ Absent.status = "ABSENT" /\ job' = [job EXCEPT ![j] = Pending] /\ Pending = row
      BY <2>1 DEF Generate, Pending, Absent
    <3> QED  BY <2>1, <3>1 DEF Generate, Command, proposal
  <2>2. CASE RetryGeneration
    BY <2>2 DEF RetryGeneration, Command, Restart, proposal
  <2> QED  BY <2>1, <2>2
<1>3. row \in JobRows /\ row.status = "PENDING" /\ row.attempts = job[j].attempts
  BY <1>1 DEF JobRows, JobStatuses
<1> HIDE DEF j, row
<1>4. /\ job' \in [Jobs -> JobRows] /\ job'[j] = row /\ \A i \in Jobs \ {j} : job'[i] = job[i]
  BY <1>1, <1>2, <1>3
<1>5. \A i \in Jobs : job'[i].attempts = job[i].attempts
  BY <1>3, <1>4
<1>6. \A i \in Emails : job'[i] = job[i]
  BY <1>1, <1>4, JobKinds
<1>7. WorkOpen' /\ LeasesPast' /\ OneHolder' /\ SendersHold'
  BY <1>2, <1>5, <1>6, NobodyMoves
<1>8. TypeOK'
  <2>1. restarts' \in 0..MaxRestarts
    BY <1>1, <1>2, OutboxBoundsAssumption
  <2>2. \A i \in Jobs : job'[i].status = "RETRYABLE_FAILED" => job'[i].attempts < MaxAttempts
    BY <1>3, <1>4 DEF OutboxInv, TypeOK
  <2> QED  BY <1>2, <1>4, <1>6, <2>1, <2>2 DEF OutboxInv, TypeOK
<1>9. RecordsMirrorJobs'
  <2>1. ASSUME NEW v \in Revisions PROVE job'[Generation(v)].status = "SUCCEEDED" <=> job[Generation(v)].status = "SUCCEEDED"
    BY <1>2, <1>3, <1>4, JobKinds
  <2> QED  BY <1>2, <1>6, <2>1 DEF OutboxInv, RecordsMirrorJobs, Delivered
<1>10. /\ FirstClaims' /\ LifecycleFollowsProposal'
       /\ \A i \in Emails : job'[i].status # "ABSENT" => i.rev \in approved'
  BY <1>2, <1>6 DEF OutboxInv, FirstClaims, LifecycleFollowsProposal, InGeneration, Delivered
<1> QED  BY <1>7, <1>8, <1>9, <1>10 DEF OutboxInv

(* An email of the approved current revision is queued. *)
LEMMA EmailQueued ==
  ASSUME OutboxInv, NEW j \in Emails, Queue(j), j.rev \in approved,
         fresh' = {}, UNCHANGED <<artifacts, proposal, worker, mail, counters>>
  PROVE  OutboxInv'
<1>1. job \in [Jobs -> JobRows] /\ j \in Jobs /\ dispatch \in [Emails -> DispatchStatuses]
  BY JobKinds DEF OutboxInv, TypeOK
<1>2. /\ Pending \in JobRows /\ Pending.status = "PENDING" /\ Pending.attempts = 0
      /\ Absent.status = "ABSENT" /\ Absent.attempts = 0 /\ "QUEUED" \in DispatchStatuses
  BY DEF Pending, Absent, JobRows, JobStatuses, DispatchStatuses
<1>3. /\ job[j] = Absent
      /\ job' \in [Jobs -> JobRows] /\ job'[j] = Pending /\ \A i \in Jobs \ {j} : job'[i] = job[i]
      /\ dispatch' \in [Emails -> DispatchStatuses] /\ dispatch'[j] = "QUEUED"
      /\ \A i \in Emails \ {j} : dispatch'[i] = dispatch[i]
  BY <1>1, <1>2 DEF Queue
<1>4. UNCHANGED <<current, approved, manual, engagement, transitions, faults, restarts>>
  BY DEF proposal, counters
<1>5. \A i \in Jobs : job'[i].attempts = job[i].attempts
  BY <1>2, <1>3
<1>6. dispatch[j] = "ABSENT"
  BY <1>2, <1>3 DEF OutboxInv, RecordsMirrorJobs
<1>7. WorkOpen' /\ LeasesPast' /\ OneHolder' /\ SendersHold'
  <2>1. \A i \in Emails : job[i].status \in {"RUNNING", "UNKNOWN"} => job'[i].status = job[i].status
    BY <1>2, <1>3, JobKinds
  <2> QED  BY <1>5, <2>1, NobodyMoves
<1>8. TypeOK'
  <2>1. \A i \in Jobs : job'[i].status = "RETRYABLE_FAILED" => job'[i].attempts < MaxAttempts
    BY <1>2, <1>3 DEF OutboxInv, TypeOK
  <2>2. \A i \in Emails : job'[i].attempts <= MaxAttempts
    BY <1>5, JobKinds DEF OutboxInv, TypeOK
  <2> QED  BY <1>3, <1>4, <2>1, <2>2 DEF OutboxInv, TypeOK
<1>9. FirstClaims' /\ \A i \in Emails : job'[i].status # "ABSENT" => i.rev \in approved'
  BY <1>2, <1>3, <1>4, JobKinds DEF OutboxInv, FirstClaims
<1>10. RecordsMirrorJobs'
  <2>1. \A v \in Revisions : job'[Generation(v)] = job[Generation(v)]
    BY <1>3, JobKinds
  <2>2. ASSUME NEW i \in Emails
        PROVE  /\ (job'[i].status = "ABSENT") <=> (dispatch'[i] = "ABSENT")
               /\ (job'[i].status \in {"PENDING", "RUNNING", "RETRYABLE_FAILED"}) <=> (dispatch'[i] = "QUEUED")
               /\ (job'[i].status = "SUCCEEDED") <=> Delivered(i)'
               /\ (job'[i].status = "UNKNOWN") <=> (dispatch'[i] = "UNKNOWN")
    <3>1. CASE i = j
      BY <1>2, <1>3, <3>1 DEF Delivered
    <3>2. CASE i # j
      <4>1. job'[i] = job[i] /\ dispatch'[i] = dispatch[i]
        BY <1>3, <3>2, JobKinds
      <4> QED  BY <4>1 DEF OutboxInv, RecordsMirrorJobs, Delivered
    <3> QED  BY <3>1, <3>2
  <2> QED  BY <2>1, <2>2 DEF OutboxInv, RecordsMirrorJobs
<1>11. LifecycleFollowsProposal'
  <2>1. \A i \in Emails : Delivered(i) => Delivered(i)'
    BY <1>3, <1>6 DEF Delivered
  <2> QED  BY <1>4, <2>1 DEF OutboxInv, LifecycleFollowsProposal, InGeneration
<1> QED  BY <1>7, <1>8, <1>9, <1>10, <1>11 DEF OutboxInv

(* The number of a new email of a failed one is that of a job: its          *)
(* siblings are not more than the resends.                                  *)
LEMMA ResendNumber ==
  ASSUME OutboxInv, NEW j \in Emails, RetryDispatch(j)
  PROVE  LET siblings == {e \in Emails : e.rev = j.rev /\ e.route = j.route /\ dispatch[e] # "ABSENT"} IN
         Email(j.rev, j.route, Cardinality(siblings)) \in Emails
<1> DEFINE siblings == {e \in Emails : e.rev = j.rev /\ e.route = j.route /\ dispatch[e] # "ABSENT"}
           number == [e \in siblings |-> e.resend]
<1>1. \A e \in Emails : e.resend \in 0..MaxResends /\ e = Email(e.rev, e.route, e.resend)
  BY DEF Emails, Email
<1>2. number \in Injection(siblings, 0..MaxResends)
  <2>1. number \in [siblings -> 0..MaxResends]
    BY <1>1
  <2>2. \A d, e \in siblings : number[d] = number[e] => d = e
    BY <1>1
  <2> QED  BY <2>1, <2>2 DEF Injection, IsInjective
<1> HIDE DEF number
<1>3. IsFiniteSet(siblings)
  BY <1>2, FS_Interval, FS_Injection, OutboxBoundsAssumption
<1>4. Cardinality(siblings) \in Nat
  BY <1>3, FS_CardinalityType
<1>5. Cardinality(siblings) <= MaxResends
  BY DEF RetryDispatch
<1> HIDE DEF siblings
<1>6. Cardinality(siblings) \in 0..MaxResends
  BY <1>4, <1>5, OutboxBoundsAssumption
<1>7. j.rev \in Revisions /\ j.route \in Routes
  BY DEF Emails, Email
<1>8. Email(j.rev, j.route, Cardinality(siblings)) \in Emails
  BY <1>6, <1>7, JobKinds
<1> QED  BY <1>8 DEF siblings

(* The commands that change the proposal or its engagement, or neither. *)
LEMMA ProposalMoves ==
  ASSUME OutboxInv, Approve \/ RecordManual \/ Revise \/ Advance \/ OtherCommand
  PROVE  OutboxInv' /\ TransitionsKept /\ approved \subseteq approved'
<1>1. /\ engagement \in [state : LifecycleStates, version : Nat, active : Revisions \cup {0}]
      /\ engagement.version \in Nat /\ current \in Revisions /\ restarts \in 0..MaxRestarts
  BY DEF OutboxInv, TypeOK
<1>2. /\ UNCHANGED <<job, dispatch, artifacts, worker, mail, faults>> /\ fresh' = {}
      /\ restarts' \in 0..MaxRestarts
  BY <1>1, OutboxBoundsAssumption DEF Approve, RecordManual, Revise, Advance, OtherCommand, Command, Restart
<1>3. WorkOpen' /\ LeasesPast' /\ OneHolder' /\ SendersHold' /\ FirstClaims' /\ RecordsMirrorJobs'
  BY <1>2, NobodyMoves DEF OutboxInv, FirstClaims, RecordsMirrorJobs, Delivered
<1>4. approved \subseteq approved' /\ approved' \subseteq Revisions /\ manual \subseteq manual' /\ manual' \subseteq Revisions
  BY DEF OutboxInv, TypeOK, Approve, RecordManual, Revise, Advance, OtherCommand, proposal
<1>5. TransitionsKept
  <2>1. \/ UNCHANGED transitions
        \/ \E from, to \in LifecycleStates : transitions' = Append(transitions, <<from, to>>)
    BY DEF LifecycleStates, Approve, RecordManual, Revise, Advance, OtherCommand, proposal
  <2> QED  BY <2>1, Recorded DEF OutboxInv
<1>6. /\ current' \in Revisions
      /\ engagement' \in [state : LifecycleStates, version : Nat, active : Revisions \cup {0}]
      /\ LifecycleFollowsProposal'
  <2>1. CASE Approve \/ OtherCommand
    BY <1>1, <1>2, <1>4, <2>1 DEF OutboxInv, Approve, OtherCommand, proposal, LifecycleFollowsProposal, InGeneration, Delivered
  <2>2. CASE RecordManual
    BY <1>1, <1>2, <1>4, <2>2 DEF OutboxInv, RecordManual, LifecycleStates, FollowsUp, LifecycleFollowsProposal, InGeneration, Delivered
  <2>3. CASE Revise
    <3>1. current' \in Revisions
      BY <1>1, <2>3, OutboxBoundsAssumption DEF Revise, Revisions
    <3>2. CASE InGeneration
      BY <1>1, <1>2, <2>3, <3>1, <3>2 DEF OutboxInv, Revise, LifecycleFollowsProposal, InGeneration
    <3>3. CASE ~InGeneration
      BY <1>1, <1>2, <2>3, <3>1, <3>3 DEF Revise, LifecycleStates, LifecycleFollowsProposal, InGeneration
    <3> QED  BY <3>2, <3>3
  <2>4. CASE Advance
    <3> DEFINE new == [engagement EXCEPT !.state = "ADVANCE_BILLING", !.version = engagement.version + 1]
    <3>0. new.state = "ADVANCE_BILLING" /\ new.active = engagement.active
          /\ new \in [state : LifecycleStates, version : Nat, active : Revisions \cup {0}]
      <4>1. "ADVANCE_BILLING" \in LifecycleStates /\ engagement.version + 1 \in Nat
        BY <1>1 DEF LifecycleStates
      <4> QED  BY <1>1, <4>1
    <3>1. /\ engagement'.state = "ADVANCE_BILLING" /\ engagement'.active = engagement.active
          /\ engagement' \in [state : LifecycleStates, version : Nat, active : Revisions \cup {0}]
      <4>1. engagement' = new
        BY <2>4 DEF Advance
      <4> QED  BY <3>0, <4>1
    <3> QED  BY <1>1, <1>2, <2>4, <3>1 DEF OutboxInv, Advance, LifecycleFollowsProposal, InGeneration, Delivered
  <2> QED  BY <2>1, <2>2, <2>3, <2>4
<1>7. TypeOK'
  BY <1>2, <1>4, <1>5, <1>6 DEF OutboxInv, TypeOK, TransitionsKept
<1>8. \A i \in Emails : job'[i].status # "ABSENT" => i.rev \in approved'
  BY <1>2, <1>4 DEF OutboxInv
<1> QED  BY <1>3, <1>4, <1>5, <1>6, <1>7, <1>8 DEF OutboxInv

(* The provider's report of an accepted email. *)
LEMMA ReportKeeps ==
  ASSUME OutboxInv, NEW j \in Emails, NEW status \in {"DELIVERED", "BOUNCED"}, Webhook(j, status)
  PROVE  OutboxInv'
<1>1. /\ dispatch \in [Emails -> DispatchStatuses] /\ dispatch[j] = "ACCEPTED" /\ status \in DispatchStatuses
      /\ dispatch' = [dispatch EXCEPT ![j] = status]
      /\ UNCHANGED <<job, artifacts, current, approved, manual, engagement, transitions, worker, fresh, mail, faults, restarts>>
  BY DEF OutboxInv, TypeOK, Webhook, proposal, counters, DispatchStatuses
<1>2. dispatch' \in [Emails -> DispatchStatuses] /\ dispatch'[j] = status /\ \A i \in Emails \ {j} : dispatch'[i] = dispatch[i]
  BY <1>1
<1>3. \A i \in Emails : dispatch'[i] = dispatch[i] \/ (dispatch[i] = "ACCEPTED" /\ dispatch'[i] \in {"DELIVERED", "BOUNCED"})
  BY <1>1, <1>2
<1>4. WorkOpen' /\ LeasesPast' /\ OneHolder' /\ SendersHold' /\ FirstClaims'
  BY <1>1, NobodyMoves DEF OutboxInv, FirstClaims
<1>5. TypeOK'
  BY <1>1, <1>2 DEF OutboxInv, TypeOK
<1>6. /\ RecordsMirrorJobs' /\ LifecycleFollowsProposal'
      /\ \A i \in Emails : job'[i].status # "ABSENT" => i.rev \in approved'
  BY <1>1, <1>3 DEF OutboxInv, RecordsMirrorJobs, LifecycleFollowsProposal, InGeneration, Delivered
<1> QED  BY <1>4, <1>5, <1>6 DEF OutboxInv

(* The emails that are queued, by a first dispatch or for a failed one. *)
LEMMA EmailsQueued ==
  ASSUME OutboxInv, NEW j \in Emails, NEW r \in Routes, Dispatch(r) \/ RetryDispatch(j)
  PROVE  /\ OutboxInv'
         /\ \E i \in Emails : Queue(i)
         /\ UNCHANGED <<artifacts, approved, transitions>>
<1>1. CASE Dispatch(r)
  <2>1. Email(current, r, 0) \in Emails /\ Email(current, r, 0).rev = current
    BY JobKinds, OutboxBoundsAssumption DEF OutboxInv, TypeOK
  <2>2. /\ current \in approved /\ Queue(Email(current, r, 0)) /\ fresh' = {}
        /\ UNCHANGED <<artifacts, proposal, worker, mail, counters>>
    BY <1>1 DEF Dispatch, Command, counters
  <2> QED  BY <2>1, <2>2, EmailQueued DEF proposal
<1>2. CASE RetryDispatch(j)
  <2> DEFINE n == Cardinality({e \in Emails : e.rev = j.rev /\ e.route = j.route /\ dispatch[e] # "ABSENT"})
  <2>1. Email(j.rev, j.route, n) \in Emails
    BY <1>2, ResendNumber
  <2>2. Email(j.rev, j.route, n).rev = j.rev
    BY DEF Email
  <2>3. /\ j.rev = current /\ current \in approved /\ Queue(Email(j.rev, j.route, n)) /\ fresh' = {}
        /\ UNCHANGED <<artifacts, proposal, worker, mail, counters>>
    BY <1>2 DEF RetryDispatch, Command, counters
  <2> HIDE DEF n
  <2> QED  BY <2>1, <2>2, <2>3, EmailQueued DEF proposal
<1> QED  BY <1>1, <1>2

(* What a step may not do to what is recorded. *)
OutcomesStayed ==
  /\ \A j \in Emails :
       /\ dispatch[j] \in {"DELIVERED", "BOUNCED", "FAILED", "UNKNOWN"} => dispatch'[j] = dispatch[j]
       /\ Delivered(j) => Delivered(j)'
  /\ artifacts \subseteq artifacts' /\ approved \subseteq approved'
  /\ \E n \in 0..Len(transitions') : transitions = SubSeq(transitions', 1, n)

LEMMA NothingRecorded ==
  ASSUME OutboxInv, UNCHANGED <<dispatch, artifacts, approved, transitions>>
  PROVE  OutcomesStayed
<1>1. TransitionsKept
  BY Recorded DEF OutboxInv
<1> QED  BY <1>1 DEF OutcomesStayed, TransitionsKept, Delivered

LEMMA Inductive == OutboxInv /\ [Next]_vars => OutboxInv' /\ OutcomesStayed
<1> SUFFICES ASSUME OutboxInv, [Next]_vars PROVE OutboxInv' /\ OutcomesStayed
  OBVIOUS
<1> USE DEF proposal, counters
<1>1. ASSUME NEW w \in Workers, Between(w) PROVE OutboxInv' /\ OutcomesStayed
  <2>1. UNCHANGED <<dispatch, artifacts, approved, transitions>>
    BY <1>1, BetweenMoves DEF OutboxInv
  <2> QED  BY <1>1, <2>1, BetweenKeeps, NothingRecorded
<1>2. ASSUME NEW w \in Workers, NEW j \in Jobs, Claim(w, j) PROVE OutboxInv' /\ OutcomesStayed
  <2>1. UNCHANGED <<dispatch, artifacts, approved, transitions>>
    BY <1>2 DEF Claim
  <2> QED  BY <1>2, <2>1, ClaimKeeps, NothingRecorded
<1>3. ASSUME NEW w \in Workers, NEW j \in Emails, TakeExpired(w, j) PROVE OutboxInv' /\ OutcomesStayed
  <2>1. UNCHANGED <<dispatch, artifacts, approved, transitions>>
    BY <1>3 DEF TakeExpired
  <2> QED  BY <1>3, <2>1, TakeKeeps, NothingRecorded
<1>4. ASSUME NEW w \in Workers, BatchCommits(w) \/ BatchCommitsUnseen(w) PROVE OutboxInv' /\ OutcomesStayed
  <2>1. OutboxInv' /\ TransitionsKept
    BY <1>4, CommitKeeps
  <2>2. CommitEffects(w) /\ worker[w] \in Busy
    BY <1>4, CommitMoves DEF OutboxInv
  <2>3. \A j \in Emails : dispatch'[j] = dispatch[j] \/ dispatch[j] = "QUEUED"
    BY <2>2, CommitDispatch DEF OutboxInv
  <2>4. artifacts \subseteq artifacts' /\ approved' = approved
    BY <2>2 DEF CommitEffects
  <2> QED  BY <2>1, <2>3, <2>4 DEF OutcomesStayed, TransitionsKept, Delivered
<1>5. ASSUME NEW j \in Jobs, TimePasses(j) PROVE OutboxInv' /\ OutcomesStayed
  <2>1. UNCHANGED <<dispatch, artifacts, approved, transitions>>
    BY <1>5 DEF TimePasses, LeaseExpires, BackoffEnds
  <2> QED  BY <1>5, <2>1, TimeKeeps, NothingRecorded
<1>6. CASE Generate \/ RetryGeneration
  <2>1. UNCHANGED <<dispatch, artifacts, approved, transitions>>
    BY <1>6 DEF Generate, RetryGeneration
  <2> QED  BY <1>6, <2>1, GenerationQueued, NothingRecorded
<1>7. CASE Approve \/ RecordManual \/ Revise \/ Advance \/ OtherCommand
  <2>1. OutboxInv' /\ TransitionsKept /\ approved \subseteq approved'
    BY <1>7, ProposalMoves
  <2>2. UNCHANGED <<dispatch, artifacts>>
    BY <1>7 DEF Approve, RecordManual, Revise, Advance, OtherCommand
  <2> QED  BY <2>1, <2>2 DEF OutcomesStayed, TransitionsKept, Delivered
<1>8. CASE (\E r \in Routes : Dispatch(r)) \/ (\E j \in Emails : RetryDispatch(j))
  <2>1. \E j \in Emails, r \in Routes : Dispatch(r) \/ RetryDispatch(j)
    <3>1. \A r \in Routes : Email(current, r, 0) \in Emails
      BY JobKinds, OutboxBoundsAssumption DEF OutboxInv, TypeOK
    <3>2. \A j \in Emails : j.route \in Routes
      BY DEF Emails, Email
    <3> QED  BY <1>8, <3>1, <3>2
  <2>2. /\ OutboxInv' /\ UNCHANGED <<artifacts, approved, transitions>>
        /\ \E i \in Emails : Queue(i)
    BY <2>1, EmailsQueued
  <2>3. \A j \in Emails : dispatch'[j] = dispatch[j] \/ dispatch[j] = "ABSENT"
    <3>1. PICK i \in Emails : Queue(i)
      BY <2>2
    <3>2. dispatch[i] = "ABSENT"
      BY <3>1 DEF Queue, Absent, OutboxInv, RecordsMirrorJobs
    <3> QED  BY <3>1, <3>2 DEF Queue, OutboxInv, TypeOK
  <2>4. TransitionsKept
    BY <2>2, Recorded DEF OutboxInv
  <2> QED  BY <2>2, <2>3, <2>4 DEF OutcomesStayed, TransitionsKept, Delivered
<1>9. ASSUME NEW j \in Emails, NEW status \in {"DELIVERED", "BOUNCED"}, Webhook(j, status)
      PROVE  OutboxInv' /\ OutcomesStayed
  <2>1. TransitionsKept
    BY <1>9, Recorded DEF Webhook, OutboxInv
  <2>2. \A i \in Emails : dispatch'[i] = dispatch[i] \/ (dispatch[i] = "ACCEPTED" /\ dispatch'[i] \in {"DELIVERED", "BOUNCED"})
    BY <1>9 DEF Webhook, OutboxInv, TypeOK
  <2>3. UNCHANGED <<artifacts, approved>>
    BY <1>9 DEF Webhook
  <2> QED  BY <1>9, <2>1, <2>2, <2>3, ReportKeeps DEF OutcomesStayed, TransitionsKept, Delivered
<1>10. CASE UNCHANGED vars
  <2>1. UNCHANGED <<dispatch, artifacts, approved, transitions>>
    BY <1>10 DEF vars
  <2>2. OutboxInv'
    BY <1>10 DEF vars, OutboxInv, TypeOK, WorkOpen, LeasesPast, OneHolder, SendersHold, HasEmail, FirstClaims,
                 RecordsMirrorJobs, LifecycleFollowsProposal, InGeneration, Delivered
  <2> QED  BY <2>1, <2>2, NothingRecorded
<1> QED
  BY <1>1, <1>2, <1>3, <1>4, <1>5, <1>6, <1>7, <1>8, <1>9, <1>10
     DEF Next, Pick, Proceed, Commit, Fails, Commands, Between

LEMMA InvariantHolds == Spec => []OutboxInv
<1> QED  BY InitHolds, Inductive, PTL DEF Spec

----
(* What the outbox promises. *)

(* Every value has its type, a failed job that is to be retried has         *)
(* attempts left, and no email is claimed more often than attempts allow.   *)
THEOREM TypeCorrect == Spec => []TypeOK
<1>1. OutboxInv => TypeOK
  BY DEF OutboxInv
<1> QED  BY <1>1, InvariantHolds, PTL

(* A job and the record its outcome is about never disagree, whichever      *)
(* worker commits the outcome and however often its batch is tried.         *)
THEOREM RecordsMirror == Spec => []RecordsMirrorJobs
<1>1. OutboxInv => RecordsMirrorJobs
  BY DEF OutboxInv
<1> QED  BY <1>1, InvariantHolds, PTL

(* An email is in the hands of one worker at a time, however many run, and  *)
(* is sent at most once per claim, a worker that hangs and one that is dead *)
(* included.                                                                *)
THEOREM OneSenderOnly == Spec => []OneSender
<1>1. OutboxInv => OneSender
  <2> SUFFICES ASSUME OutboxInv, NEW j \in Emails
               PROVE  LET senders == {w \in Workers : worker[w].pc \in {"check", "work"} /\ worker[w].job = j} IN
                      /\ Cardinality(senders) <= 1
                      /\ Cardinality(senders) + mail[j] <= job[j].attempts
    BY DEF OneSender
  <2> DEFINE senders == {w \in Workers : worker[w].pc \in {"check", "work"} /\ worker[w].job = j}
  <2>1. mail[j] \in Nat /\ job[j].attempts \in Nat /\ mail[j] <= job[j].attempts
    BY JobKinds DEF OutboxInv, TypeOK, JobRows, SendersHold
  <2>2. CASE senders = {}
    <3>1. Cardinality(senders) = 0
      BY <2>2, FS_EmptySet
    <3> QED  BY <2>1, <3>1
  <2>3. CASE senders # {}
    <3>1. PICK w \in senders : TRUE
      BY <2>3
    <3>2. \A x \in senders : x = w
      BY <3>1, SendersApart DEF HasEmail
    <3>3. senders = {w}
      BY <3>1, <3>2
    <3>4. Cardinality(senders) = 1
      BY <3>3, FS_Singleton
    <3>5. mail[j] < job[j].attempts
      BY <3>1 DEF OutboxInv, SendersHold, HasEmail
    <3> QED  BY <2>1, <3>4, <3>5
  <2> QED  BY <2>2, <2>3
<1> QED  BY <1>1, InvariantHolds, PTL

(* The engagement is past proposal generation only with its approved        *)
(* current revision active and delivered.                                   *)
THEOREM LifecycleFollows == Spec => []LifecycleFollowsProposal
<1>1. OutboxInv => LifecycleFollowsProposal
  BY DEF OutboxInv
<1> QED  BY <1>1, InvariantHolds, PTL

(* No report, outcome, artifact, approval or transition is ever undone.     *)
THEOREM OutcomesStay == Spec => OutcomesAreFinal
<1>1. OutboxInv /\ [Next]_vars => [OutcomesStayed]_vars
  BY Inductive
<1>2. Spec => [][OutcomesStayed]_vars
  BY <1>1, InvariantHolds, PTL DEF Spec
<1> QED  BY <1>2 DEF OutcomesAreFinal, OutcomesStayed

===============================================================================
