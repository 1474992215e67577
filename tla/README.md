# AuditSphere: formal models of the business Worker

AuditSphere is an audit-practice application: a Cloudflare Worker (`src/worker/`) over a
D1 (SQLite) database and an R2 object store, with a browser client (`src/src/`). Its
business rules live in the Worker. This directory holds TLA+ models of the parts of it
whose correctness depends on the order of things: HTTP handlers that interleave between
database calls, cron invocations that overlap, an email provider and an object store that
fail, batches that commit while the caller is told that they did not, and long chains of
approvals each of which must still be of what it approved when the next one rests on it.

Paths below are relative to `src/`.

## 1. Inventory

### How the parts interact

A **command** arrives at `index.ts`/`router.ts`, is parsed and authorised, and enters the
**command bus** (`runBusinessDirectoryCommand`, `worker/business.ts:4694`), which asks the
builder of its domain (`business*.ts`) for a mutation: a list of SQL statements, often
guarded by *assertions* (rows of `command_assertions` that abort the batch). The bus commits receipt,
mutation and audit rows in one D1 batch. There are no interactive transactions: the only
atomic unit is a statement or a batch, so everything read before the batch may be stale in it.

Mutations that need a slow or external act insert an **outbox job**. The minute **cron**
(`worker/index.ts:842`) sweeps stale files, locks engagements whose archive deadline has
passed, and claims and runs jobs: rendering documents, sending emails, importing trial
balances, sealing archives. Job results are committed by a batch of the same kind as a
command's, with the system as actor. The **email provider** is a second Worker that answers
sends, and calls a **webhook** with delivery events.

Shared state: the workspace's audit chain head (every audited writer moves it), the
engagement row (lifecycle, version, `locked_at`), `outbox_jobs`, and the objects in R2.

An **engagement** walks through ten lifecycle states. Every domain reads the state before it
writes; few commands move it, and each of those rests on work done in an earlier one: the two
keys on the proposal and the risk dossier, fieldwork on the approved plan, the Manager's review on
reviewed procedures, the Partner's approval on a summary memorandum (SRM), the release on
five papers of one day. The same records stay editable for longer than the approvals they support.

### Components

| component | state | operations | what is hard | what makes it correct | here |
|---|---|---|---|---|---|
| Command bus | receipts, audit events and head, workspace revision | run a command, replay a receipt | handlers interleave; a commit whose answer is lost; 24 attempts on a moving head; the sweep, which does not move the head | one unbroken chain; a key executes once and whole; true answers; no lost update | `CommandBus`, `CommandLog` |
| Outbox and proposal dispatch | jobs, leases, dispatches, artifacts, proposal, engagement | claim, render, send, commit, fail, expire; generate, approve, send, retry, revise, record by hand; webhook | overlapping invocations, lapsed leases, a worker that dies after the provider accepted, late results of superseded revisions | one sender; outcome and record agree; every job settles; outcomes are final | `Outbox` |
| Archive | engagement countdown and lock, run, seal, ZIP and manifest objects | release, note, file commit, rendering of documents, lock, retention policy, sweep, seal | a seal that reads for minutes and commits once; two locks with no common head; overlapping attempts over immutable objects | locked iff queued; a final seal that is complete and whose objects exist; every due engagement is resolved | `Archive` |
| Business files, PBC portal | file rows, their objects, requests for evidence, submissions, reviews | reserve, upload, stage, commit, reject; request, submit, review; sweep | rows and objects change in separate steps; the sweep and the cron's lock do not move the head; a sweep is bounded | a staged or committed file has its bytes; answers are true and form a chain; locked content stays; what is abandoned is cleared | `BusinessFiles` |
| Clients, contacts, routes; client import | clients, contacts, routes, affiliations, import runs | create, update, deactivate, route; validate and apply a file in batches | a batch applied twice or after the directory moved; a primary route for every document | clients form a forest; one first recipient; a row is imported once | `Clients` |
| Staff and actor profiles | staff, profiles | bootstrap, create, assign, deactivate | grades and profiles change apart | an approver always remains | `Directory` |
| Public lead intake | visits, forms, submissions, leads | the web form, triage, leads, conversion | the form is no command and runs in separate statements; a counter per hour | the limit holds; work keeps its client | `Intake` |
| Practice ledger | periods, journals, expenses | record, post, reverse, close | a journal posted into a period that closed meanwhile | closed periods stay closed | `Ledger` |
| Invoices, payments, allocations | invoices, payments, allocations, credit notes, receipts | issue, record, allocate, reverse, credit, recognise | two allocations of one amount; a reversal of what was returned | never over-allocated | `Billing` |
| Time, rates, budgets, policies | policy activations, time entries, corrections, snapshots | set, retire, regrade, record, submit, approve, correct, capture | corrections of a day that a report covers; receipts and credit notes dated into it | the work of a snapshot reproduces; past rates are fixed; what is billed and collected by closed periods is final | `Practice` |
| Dual-key acceptance, engagement letters | assessment, owners, dossier, clearance, acceptances, letters | assess, submit, escalate, decide, accept, revoke, issue | two keys turned for different revisions; owners changed from another engagement | both keys on the same facts | `Acceptance` |
| Staffing | availability, leave, exceptions, assignments, milestones | record, approve, assign, set | sums over a day from four commands | only leave overloads; reports meet the cutoff | `Staffing` |
| Trial balance, mapping, materiality, plan | imports, versions, mappings, risks, plans | import in chunks, activate, map, set, compile, approve | two workers on one import; sources that move below a compiled plan | fieldwork rests on current sources | `Planning` |
| Fieldwork, review, adjustments | procedures, evidence, submissions, samples, findings, adjustments, reviews, SRM | perform, link, submit, decide, sample, adjust, hand over, clear, compile | evidence replaced below a review; reviewers who are writers; a chain of approvals of versions | a handover is earned; statements are settled | `Evidence`, `Sampling`, `Statements`, `Fieldwork` |
| External confirmations | confirmations, holding letters | draft, queue, send, return, verify, cancel | an answer verified by its recorder | as a part of handover and release | `Confirmations` |
| Report candidates, consents, release | statement draft, reports, letters, requests, bundles, dispatches | prepare, render, consent, release, deliver | five papers rendered apart, on days that pass | released papers are of one day and of one set of sources | `Release` |
| HTTP routing, queries, rendering, SharePoint, verification runs, browser | none of their own | validation, projection, layout, transport | nothing that interleaves here | - | not modelled |

`PROJECT.json` lists all 27 with their sources, and under `hazards` what is hard to test in
them, each at its line. The six hazards without a property say why.

## 2. Modules

A module is a component; a name of the code is kept where it can be. Commands outside `CommandBus`, `Archive` and
`BusinessFiles` are **one step**: a command commits only on the audit head that it read, and every other audited
writer moves that head, so whatever a builder read still holds in its batch (`NoLostUpdate`). What is not a command or
does not move the head (the web form, the cron's lock and sweep, an import's chunks, jobs) is modelled in its steps.

```
CommandLog <- CommandBus (implements it)        Outbox      Archive      BusinessFiles
Ledger <- Billing <- Practice   Clients <- Directory <- Intake          composed in MCFirm
Lifecycle <- Acceptance         Lifecycle <- Staffing <- Planning       composed in MCEngagement
Lifecycle <- Confirmations <- Evidence <- Sampling, Statements <- Fieldwork <- Release   explored by MCAudit
```

`A <- B` reads: `B` extends `A`.

### CommandLog, CommandBus

`CommandLog` is the promise: an append-only log; a key executes at most one command, whose
events enter the log together; who is told "done" or "refused" is told the truth; who is
told nothing knows nothing. `CommandBus` is the code.

* **State.** `req[r]` is a handler, its `pc` the next database call; `receipts`, `head`,
  `audit` are `command_receipts`, `audit_chain_heads`, `audit_events`; `clients`, `records`,
  `lock`, `sealJobs`, `due` are the data that the five represented commands touch.
* **Actions.** `Lookup`, `Gate`, `ReadHead`, `Build` are the awaits of the handler, in order;
  `BatchCommits`, `BatchAborts`, `BatchFaults`, `BatchCommitsUnseen` the four ends of its
  batch; `ReadReceiptAgain`, `ReadHeadAgain` the catch block; `Crash` a killed isolate.
  `JobCommit` is another audited writer, `DeadlineLock` the sweep.
* **Abstractions.** A hash is the sequence of events that it covers, hence injective.
  Five commands stand for the many: one with several audit rows, one with an expected version,
  three on an engagement that differ in whether they are gated and asserted. Authorisation
  is left out; a request is one that the actor may make.

### Outbox

* **State.** `job[j]` by deduplication key, `dispatch`, `artifacts`, the proposal's
  revisions (`current`, `approved`, `manual`), the engagement with its `transitions`, what each
  `worker` does, `fresh` (workers whose audit head is current), and `mail`, the provider's own
  count of accepted emails, which the code cannot see.
* **Actions.** `Claim`, the checks before a dispatch, rendering, `Send`, the head read, the batch with
  its failures, the recording of a failure, the taking of expired emails, worker death, all
  proposal commands, and the webhook.
* **Abstractions.** A lease is named by the number of the claim. Clocks are what they decide:
  a lease or a backoff has run out, at any time. Lifecycle states from ADVANCE_BILLING on are one.

### Archive

* **State.** One released engagement: `engagement` (state, locked, version), `due`, `policy`,
  `content` (notes and committed files, those that jobs generate included), `run` (`archive_runs`), `job`, `seal`
  (`archive_seals` with what its manifest lists), the objects `zips` and `manifests` by attempt,
  the requests `req` and the workers.
* **Actions.** `Gate`, `Plan`, `Commit`, `Rejected` are the bus seen from one engagement,
  with each command's builder checks (`Admits`), assertions (`Asserted`) and
  triggers of migration 0026 (`Writable`). `Render` is a job that commits a document (`renderAndStoreCommercialDocument`): its batch
  asserts its lease and nothing of the engagement. `Sweep` and `SweepBatch` are
  `queueDueBusinessArchives`; `ReadFiles` to `WriteManifest` are `sealArchive`; `ReadHead`,
  `CommitJob`, `CommitUnseen`, `RejectedJob` are `commitJobMutation`; `Crash` and `TakeFromSlow` are the
  ways a lease outlives its worker or a worker its lease.
* **Abstractions.** A payment's evidence is a file that may be committed after the lock; the
  consumption of its reservation is left out. A receipt is the voucher of a payment, which the triggers exempt after the seal; a letter is any
  other document that was queued before the lock and is rendered at any time. Their own jobs are `Outbox`'s. The 24 attempts of a command are unlimited, since the
  instance has fewer commits than that. Files have no bytes: a missing object is a fault of `ReadFiles`.

### BusinessFiles

* **State.** One engagement as its `phase`; the request `pbc` with its `answers` (submissions and their reviews); `file`, the rows
  of `file_versions`; `objects`, the keys in R2; `order` and `aged`, what `updated_at` tells a sweep; `receipts`, what commands
  answered; `req` and `sweep`, what invocations are doing; `fresh`, whose audit head is still current.
* **Actions.** `Upload`, `Put`, `Plan`, `Commit`, `Refused` are `runBusinessFileContent` and the bus; `Begin` is any other
  command. What builders ask is `Admits`, what batches assert is `Asserted`, what triggers of migration 0026 add is `Permitted`,
  and the three differ, which is the subject. `Select`, `SweepRow`, `SweepList`, `SweepDelete`, `SweepFails` are
  `sweepStaleBusinessFiles`, a database or store call each.
* **Abstractions.** Three purposes stand for those that differ in what is asked: a client's answer, evidence of a payment, and the staff's
  other files. `updated_at` is a position in `order`. A payment's reservation can be consumed only once its file is
  committed, so what staging and committing ask of it always holds and is left out. Receipts and replay are `CommandBus`'s.

### Clients, Directory, Intake

* **State.** `clients`, `contacts`, `routes`, `affiliations`, `runs` (imports with the row map), `engagements`, `profiles`;
  `staff`; and of the web form `visits`, `forms`, `submissions`, with `leads`. A row is its position in a sequence; a visit has no identity
  that anything reads, so `visits` is a set.
* **Actions.** A command each: `ClientCreate`, `ContactUpdate`, `ContactRoute` and the like, `ImportValidate`, `ImportApply` (a batch of
  `BatchSize` rows, parents first), `StaffUpdate`, `ProfileDeactivate`, `LeadConvert`. The form is modelled statement by
  statement: it counts its visit, reads what it repeats, and records its submission, with commands in between.
* **Abstractions.** A contact always has a telephone number; names and addresses are members of small sets; who may give a
  command is left out. Sets of purposes are those of the code's routing table.

### Ledger, Billing, Practice

* **State.** `today`, `periods`, `journals` (by `source_event_key`, which is unique), `expenses`; of an engagement `invoices`,
  `payments` with reversal and voucher, `allocations`, `returns`, `credits`; `activations` of a charge-out rate, the `rank` (grade) of a member
  of staff, time `entries` with corrections, `budgets`, `snapshots`.
* **Actions.** A command each, and the day that passes. A journal is its effect on every account, in minor units; every command that
  books asks `OpenOn` of the day that it books on, which is not always today. `BillingNext` has the commands of periods beside its own.
  A snapshot has what `profitability` returns: the work it counts, the grade this is grouped under, what is billed and what is collected.
* **Abstractions.** One engagement with its two invoices; one member of staff and one phase; the rates of one grade are set and retired, whoever is
  of another is charged the bootstrap's rate of it. Money is minutes times the
  number of the rate. Amounts beyond totals, tax in basis points and balances are left out.

### Lifecycle, Acceptance, Staffing, Planning

* **State.** `stage`, the engagement's lifecycle state, is shared by all. `Acceptance`: `revision` of the proposal, `register` of owners,
  `assessment`, `dossier`, `clearance` with the `facts` that it was given on, `acceptances` per revision, letters. `Staffing`:
  `availability` with leave, `exceptions`, `assignments`, `milestones`. `Planning`: `imports` with the lines staged so far, `importer`
  (what each worker of the job has written), the versions of trial balance, mapping, materiality, `risks`, `plans`, and `active`, the pins of the engagement row.
* **Actions.** A command each; the import job in chunks, with the death of its worker and a second worker that goes on.
* **Abstractions.** A hash of several rows is those rows. The score of a dossier is one fact, whether it has an issue. One work date
  stands for all, since every guard sums over one member of staff and one date.

### Confirmations, Evidence, Sampling, Statements, Fieldwork, Release

* **State.** `confirmations`; `evidence` by family of versions, `submissions` to a reviewer with what they pin, `notes`; the sampling `policy`,
  `population` and `plans` with draws, tests and evaluations; `findings`, `adjustments`, `differences`, `snapshots` of the adjusted statements,
  `analyses`; the `program` of an area with its `procedures`, `assessments` of going concern, `clearances`, `srms` with the
  inputs they were made of; and of the release `draft` (with its preparer and its approver), `reports`, `letters`, `requests`, `bundles`, `dispatches`,
  `deliveries`, each with its date and its pins.
* **Actions.** A command each, with every check of the builder, plus the jobs that render or mail a document, and the passing of a day.
* **Abstractions.** A version stands for the text of a row, a set of pins for a hash. One area with one workprogram template. The trial
  balance is fixed after planning, so the set of adjustments included stands for the statements. Statistics of samples, lines and
  amounts of adjustments, follow-ups of confirmations and the signature register are left out.

### Composition

`MCFirm`, `MCEngagement` and `MCAudit` extend all modules of their group and explore the composition **a part at a time**: a constant
`part` says which modules' commands a behaviour takes, from the state that the parts before it leave. Commands of other parts that touch the same
rows are in the part (a contact leaves while a lead is converted; a milestone moves while a plan waits). What is left out this way
is only the interleaving of commands that read nothing that the other writes.

The proofs do without this reduction. `FirmSpec` and `EngagementSpec` (in `FirmProofs` and `EngagementProofs`) let all parts of their group
interleave freely, and what TLC explores is shown to be behaviours of them (`PartsAreOfTheFirm`, `PartsAreOfTheEngagement`).
`AuditSpec` (in `Release`) does so from the approved plan on; `MCAudit` starts its parts from states in the middle of such a
behaviour, so that it can reach what lies far from the beginning, and is no part of it in that sense.

### Proofs

`CommandBusProofs`, `OutboxProofs`, `ArchiveProofs` and `BusinessFilesProofs` prove theorems of one component each, `FirmProofs` of all
that `MCFirm` composes (`Clients`, `Directory`, `Intake`, `Ledger`, `Billing`, `Practice`), `EngagementProofs` of all that `MCEngagement`
composes (`Acceptance`, `Staffing`, `Planning`), `AuditProofs` of `Release` with everything that it extends. `Sums` proves what the
others need about sums over finite sets. See section 5.

## 3. Runs

All parameters are in the `.cfg` files. `CHECK_DEADLOCK FALSE` everywhere: requests, jobs and bounded commands are finite,
and the system may come to rest.

| run | question | bounds | size |
|---|---|---|---|
| `CommandBus` | is the chain unbroken, a command atomic and executed once, no update lost, an answer honest; does every request end, does the bus implement `CommandLog`? | 2 requests, 2 keys, 1 client, 2 attempts, 1 job commit, fair | about 256,000 states |
| `Outbox` | do dispatches and artifacts say what their jobs came to, is there one sender, does every job settle? | 2 workers, 1 revision, 2 attempts, 2 tries, 1 fault, fair | about 86,000 |
| `OutboxRevisions` | do late results of a superseded revision leave the engagement alone; are outcomes final? | 2 workers, 2 revisions, 1 resend, 1 restart, no faults | about 711,000 |
| `Archive` | do lock, run, job and seal agree; are the objects of the seal kept; has it every file of `file.commit`; is what is sealed final? | a note, a file, evidence, a receipt, a letter, a lock; 2 workers, 2 attempts, 2 tries, 2 faults (one beside a rendered document, none beside two) | about 3,366,000 |
| `ArchiveLive` | does the cron lock what is due and resolve what is locked? | a note, a lock, a policy; 2 workers, 1 fault, fair | about 89,000 |
| `ArchiveEvidence` | are all files that are committed at the seal in it, rendered documents and evidence included? **no** | no faults | finding |
| `BusinessFiles` | have staged and committed files their bytes; are answers true; do submissions form a chain; does locked content stay? | 2 files of any purpose, 1 digest, 1 request at a time, 1 sweeper, 1 fault | about 2,901,000 |
| `BusinessFilesSwept` | is what is abandoned cleared, while a sweep takes all candidates? | 2 staff files, sweep of 2, 1 fault, fair | about 467,000 |
| `Firm` | does the directory hold together; are closed periods final, also in what a report says of them; is money applied once; are past rates and the work of reports fixed? | 3 clients, 4 contacts, 2 import files, 2 visitors, 2 leads; 2 days, 2 payments, 2 time entries, 2 rates, 2 grades | about 406,000 |
| `Engagement` | do the keys turn on the same facts, does fieldwork rest on the plan, do reports meet the cutoff, does only leave overload? | 2 proposals, 2 changes of each kind, 2 staff, 2 minutes, 2 rows, 2 importers whose import is activated, too | about 1,534,000 |
| `Audit` | is a handover earned, are the statements settled before the SRM, is a release of one day? | 2 staff, 2 procedures, 2 families of evidence, 5 submissions, 2 bundles, 2 days | about 556,000 |
| `AuditDrift` | is a report released on a current SRM? **no** | 1 of each | finding |

**Why the bounds suffice.** Two contenders and a third party that moves the head are what the
protocols are about: with two requests under two keys there is a retry that races with its original,
a key used for another command, or two strangers, and the job's commit makes both plan again. Two attempts (or tries) are a first and
a last; the code's 24, 4 and 5 only lengthen the middle. Two workers are the holder of a lease
and its successor, and with two attempts the second is the exhausted one. Each fault can strike at any call, so one or two
reach each error path and its own failure. Two revisions are a current and a superseded one. In `BusinessFiles` one command at a time is
enough: two commands that overlap are serialised by the audit head, so the second is planned again on what the first left, and
any change by another that the first must survive is made by the sweep, the cron's lock or the engagement's own moves, all of which
stay concurrent. Two files are an answer and its replacement, or a candidate that a sweep takes and one that it does not;
an object budget of one is exhausted by the first file. In `Firm`, two days are one that is over and one that is not, and two payments or entries are
what a sum can confuse. Three clients are the shortest cycle that is not between neighbours. In `Engagement` and `Audit`, two
of a kind are the one that was approved and the one that replaced it; the versions allowed (`MaxVersion`, `MaxRevision`, `MaxSubmissions`) are enough to
walk each chain of approvals once and to return from each of its steps. `Bounded` names what a part leaves unexplored. Where the
state is proved about, the bounds do not matter (section 5).

**Fairness.** `CommandBus`: a handler that is not killed runs on, `WF(Step(r))`. `Outbox`: an invocation
that does not die runs on, clocks advance, and claims are strongly fair: the cron recurs every
minute (`worker/index.ts:842`) and takes jobs by `next_attempt_at`, so a job that is ready again
and again is reached. `Archive`: the same, and `WF` of the sweep. Nothing is ever assumed of users,
of the provider, or of a worker that has died. `BusinessFiles`: time passes, the sweep recurs every minute and goes on unless it fails, a
request that is not killed goes on. The faults that a run bounds are finite in number;
a system in which every call fails for ever settles nothing. The other modules state no liveness: their steps are commands of users, who owe the system nothing.

## 4. Findings

Each is a run that TLC finds violated; `PROJECT.json` quotes the lines.

1. `ArchiveEvidence`: evidence of a payment that is committed while the archive is assembled is in no
   archive, though the recorded reason says that all committed objects were verified. The same goes for documents that jobs render
   meanwhile: the voucher of a receipt, or a confirmation request that was queued before the lock (`worker/businessOutbox.ts:578-583`).
   A letter that is rendered after the seal is refused by a trigger; a receipt's voucher is not.
2. `AuditDrift`: the release asks whether its SRM is the latest cleared one and not whether it still is what the fieldwork says. Evidence
   created in PARTNER_APPROVAL makes the SRM stale, and the report is released on it.

### Divergences and observations without a run

Seen while modelling; the models reproduce the behaviour where it is in their scope.

* **Bus, outbox, files.** The freeze is checked before the batch and a note's batch asserts nothing of it: a note can be recorded after the sweep's lock
  (`worker/businessReporting.ts:697-708`). When an accepted email moves the engagement to DUAL_KEY_PENDING, the batch updates it first and then inserts the transition by a
  SELECT that needs the old state, so none is recorded (`worker/businessOutbox.ts:850-860`). An email that the provider accepted but whose commit keeps failing ends as
  FAILED and may be sent again (`worker/businessOutbox.ts:1088-1092`, `worker/business.ts:4615`). Rejected files stay candidates of the bounded sweep; 200 old ones starve
  it (`worker/businessFileSweep.ts:20-42`), which is why `BusinessFilesSwept` sweeps as many as there are.
* **Archive.** A release asks for no retention policy, and a seal needs one: after a deadline lock in a workspace without one the job
  fails five times and stays PERMANENT_FAILED, which `DueIsSettled` allows (`docs/ops/alerting.md` leaves it to an operator). `pbc.review` asks nothing of the
  engagement: a request may be reviewed between lock and seal.
* **Directory.** An import's explicit route purposes can make a first recipient of another role; a deactivated contact keeps its primary routes; `actor-profile.assign` for
  a client asks for an active contact and not for an active client; an import whose parent left or whose code was taken between batches stays stuck; two web submissions of one sender that race are both RECEIVED.
* **Books.** What a snapshot says is billed and collected goes by the dates of documents, and `payment.record` and `credit-note.issue` accept
  days that are over, so a past day's report comes out differently afterwards until every period up to it is closed
  (`worker/businessPractice.ts:585-591`; `SettledFiguresAreFinal` is what remains). The grade that time is grouped under is the member's present
  one (`:560`), which no closing fixes. No document promises more, so neither is a finding. Corrections of time count approved minutes only, so a day may exceed 1,440 (`worker/businessPractice.ts:348`, `:422`). A payment may be reversed after `ledger.reverse` reversed its
  journal (`worker/businessDelivery.ts:717`), and the aging report may then fail (`:866`).
* **Keys and plan.** Clearing again, or accepting again after a revocation, at ADVANCE_BILLING allows a second letter and a second advance invoice; a stale clearance cannot be revoked.
  `planning_stale_events` is read and never written. Leave approved after an assignment overloads a day (`worker/businessPlanning.ts:248`), hence `OnlyLeaveOverloads`. A transient failure of the store makes an import INVALID for good.
* **Audit.** Unlinking evidence after the workprogram's review makes the area's clearance impossible; unlinking it from a submitted procedure leaves the submission undecidable; a procedure that is not applicable never
  becomes so again; approving an adjustment after the analytical review makes the SRM impossible; who revises an analysis is not among its contributors; a new assessment of going concern in
  PARTNER_APPROVAL makes the report impossible; repeated retries of one failed delivery queue several mails.

## 5. Proofs

`tlapm` checks these for every value of the constants, from the named `ASSUME`s of the modules alone: limits are positive, other
bounds are natural numbers, names that stand for "none" are no members of the sets that they are compared with, grades are
disjoint, payments are positive, a template lists a step once, the rows of an import file are at least one, the engagement that
is planned from the middle has a Partner and a Manager. TLC evaluates the same assumptions in every run. A strengthening was tried by TLC, as an invariant on the
instances of section 3, except where it speaks of a set that TLC cannot enumerate (how far an import's run has come, in `RunsInv`).

| theorem | states | the inductive invariant, and what the argument turns on |
|---|---|---|
| `CommandBusProofs!TypeCorrect` | `TypeOK` | inductive by itself |
| `AuditChainUnbroken` | `ChainIntact` | `TypeOK /\ ChainIntact`: only a batch on the current head appends, and `ChainExtends` says what a linked block adds to an intact chain |
| `ReceiptsAlwaysHonest` | `ReceiptsHonest` | inductive with `TypeOK`: a handler before its batch has no receipt |
| `EffectsAreAtomic` | `AtomicEffects` | `EffectsInv`: a receipt, its records and its events come with one batch |
| `NoUpdateIsLost` | `NoLostUpdate` | `VersionsInv`, `ContentionInv`: a handler whose head moved has lost a race, unless its own commit moved it |
| `BusImplementsLog` | `ImplementsCommandLog` | each step of the bus is a step of `CommandLog` or a stutter; `ReceiptsHonest` makes refusals true |
| `OutboxProofs!TypeCorrect`, `RecordsMirror`, `OneSenderOnly`, `LifecycleFollows` | `TypeOK`, `RecordsMirrorJobs`, `OneSender`, `LifecycleFollowsProposal` | one invariant, `OutboxInv`: open work has its row, leases are past claims, a lease has one holder, who sends holds it, first claims are first, a queued email is of an approved revision; a number of a resend is in reach because its siblings inject into `0..MaxResends` |
| `OutcomesStay` | `OutcomesAreFinal` | an action property from `OutboxInv`: a worker that lost its lease can only find a row that moved on |
| `ArchiveProofs!TypeCorrect` | `TypeOK` | inductive by itself; the tries of a worker are bounded by its loop. No run checks it beside the proof |
| `LockedWithRun` | `RunIffLocked` | `SweepersAreCurrent`: the sweep inserts run and job whether or not its guarded update hits, so while there is no run the version that it selected must still be the engagement's |
| `NoFileLeftOut` | `FilesArchived` | `SealersAreComplete`: files are read of an engagement that is locked, which nothing unlocks and in which `file.commit` fails; documents that jobs render are no part of it (section 4) |
| `SealedAsOne`, `SealedForGood` | `SealedTogether`, `SealedIsFinal` | `SealInv`: of the attempts that overlap each writes under its own lease (`LeasesApart`), and what a worker is about to seal is in the store (`ObjectsThere`). After the seal the triggers leave only evidence and receipt vouchers to be committed, by a command or by a job |
| `BusinessFilesProofs!TypeCorrect`, `BytesKept` | `TypeOK`, `BytesAreThere` | `FilesInv`: REJECTED is final, so a sweep past its update has a rejected file and deletes only below its prefix; a stage in its batch has its object as long as its file is INITIALIZED; a reservation is claimed by one request |
| `AnswersAreTrue`, `LockedStays` | `ReceiptsAreTrue`, `LockedContentStays` | by `StepRows`, which lists the ways in which a row moves: a batch that asserts the state it expects also hits the row |
| `AnswersChained` | `AnswersFormAChain` | `ChainInv`: a file that answers is COMMITTED and reserved for an earlier version of the request |
| `FirmProofs!LedgerClosesForGood`, `BillingClosesForGood` | `ClosedPeriodsAreFinal` | `LedgerInv`: periods do not overlap, so the open period that a command finds on a day is not a closed one of that day; under billing, while periods open and close |
| `MoneyIsAppliedOnce` | `NeverOverAllocated` | `MoneyInv`: nothing is allocated of, or reversed on, a payment that is not recorded; a step changes one term of each sum (`SumChanges`) |
| `ReportsReproduce`, `HistoryKeepsItsRate` | `SnapshotsReproduce`, `PastRatesAreFixed` | `PracticeInv`: a command makes an entry today, has it approved today at the earliest, or strikes it today, and a rate starts today at the earliest; a snapshot is of a day before today. Only the work of a report is reproduced, not what is billed and collected |
| `SettledFiguresStay` | `SettledFiguresAreFinal` | `CreditsInv` beside `FirmInv`: credit notes are numbered in turn and each is booked under its number, so a new one never finds its journal booked already; hence whatever changes a figure of a day books a journal on that day or an earlier one, which asks for an open period |
| `JournalsBalance`, `DocumentsAreBooked` | `LedgerTypeOK`, `BillingTypeOK` | `BooksInv`: what a command books sums to nothing over all accounts, as does the negative of what did, and what a reversal names stays posted; `BillingInv`: each document has a journal of its own key, and keys of documents, reversals and entries are apart, so that none is posted for another |
| `DirectoryTogether`, `IntakeTypes` | `DirectoryHolds`, `IntakeTypeOK` | `IntakeInv`: `Grounded` says that no set of clients has all its parents inside, and a parent is set only when it is no descendant; a run's map is one to one and its rows are applied in order; each form counted a visit, of which a window holds no more than the limit; the last approver stays because every command that takes a grade or a profile away counts those that are left |
| `FirmTypes`, `FirmHolds`, `FirmKeepsItsPast` | `TypeOK` of `MCFirm` and all its properties | `FirmInv`, of `FirmSpec`: `BillingInv /\ PracticeInv /\ IntakeInv`, and each part's commands leave the others' rows as these need them: the manual ledger may reverse a payment's journal, and knows nothing of payments |
| `PartsAreOfTheFirm` | - | `Spec => FirmSpec` |
| `EngagementProofs!KeysAlwaysTurnTogether` | `KeysTurnTogether` | `KeysInv`: the dossier is the current assessment's until something moves below it, and a clearance is of the dossier as it was submitted |
| `EngagementProofs!TypeCorrect`, `CutoffIsMet`, `FieldworkRests` | `ReportsMeetTheCutoff`, `FieldworkRestsOnThePlan` | `PlanInv`: an import that has as many staged lines as its file has rows staged them all (a cardinality argument), an approved plan's sources are active, and a risk has one latest version |
| `OnlyLeave` | `OnlyLeaveOverloads` | the same with the finiteness of the assignments, and `Sums` |
| `EngagementHolds`, `EngagementMoves` | `TypeOK` of `MCEngagement` and all its properties | `EngagementInv`, of `EngagementSpec`: the above with `KeyTypes`. The keys open no fieldwork and the plan turns no key, though both move `stage` |
| `PartsAreOfTheEngagement` | - | `Spec => EngagementSpec` |
| `AuditProofs!AuditInvHolds` | `AuditInv` | the invariant that the next three rest on, in five parts: the work of an area, its confirmations, its statements, the papers of the release, the list of SRMs. A review pins a version, and every later write of the row raises the version beyond it. Each decision is by none of the contributors that its submission names; of an analysis that is its first drafter alone, so a reviser may accept his own text (section 4) |
| `HandoverEarned` | `HandoverIsEarned` | `WorkInv`: a reviewed procedure stands on a submission of its present version that was accepted by none of its editors, and its recorded pins were adequate; the guard of a handover compares them with the evidence as it is. An accepted workprogram, and each clearance, names versions that none of its reviewers wrote |
| `SummaryIsSettled` | `StatementsAreSettled` | `StatementInv`: an approved adjustment has an approver that did not draft it and stays included, whatever happens to its evidence; an accepted review of an analysis pinned adequate evidence and was not by its drafter. The guards of the SRM bring both up to date |
| `ReleasedAsOne` | `ReleaseIsOfOneDay` | `PaperInv`: there is no report without statements that another than their preparer approved, and no bundle without a report that was rendered; `ConfirmInv`: a verified answer was verified by a third person |
| `AuditTypesHold` | `ReleaseTypeOK` | `AuditTypes` beside `AuditInv`: a link or a pin is of a version of evidence that is there, one of each family, and of no later version of its row; a note is of a submission; the steps of a program are its procedures one to one (a cardinality argument), and a plan of a sample is of a procedure; at most one bundle is released |
| `Sums!SumTakesOut`, `SumChanges` | - | the community modules' sum over a function does not depend on the order of choice. Induction over finite sets needs a theorem with an operator parameter, which the provers do not take; `Sums` argues on a smallest counterexample instead |

Three patterns recur. What a builder reads and a batch asserts are different facts, and the invariant has to say which of
them survives in between. A worker that outlives its lease is handled by what the row says of the holder, never by the
worker's state. And an approval is worth what it pins only as long as the row that it pins cannot change under the same version.

### Only model-checked

* **Liveness**: `EveryRequestEnds`, `EveryJobSettles`, `DueIsSettled`, `AbandonedIsCleared`. Fairness and `ENABLED` are out of the prover's reach.
* **`Audit` from the middle**: its runs start in states that other commands would have reached. That these states and their successors
  satisfy `AuditInv` and `AuditTypes` is checked on its instance; that they are reachable is not proved.
* `CommittedObjectsVerified` and `ReleasedOnCurrentSrm` do not hold; they are the findings of section 4.

Every other invariant and action property of a passing run is stated by a theorem above.

## 6. Plan

What is left is more of the system rather than more about it:

1. The parts of components that section 7 leaves out, first those with state that others read: the approval of document templates
   (which `Release` renders from), follow-ups of confirmations, and the register of signatures.
2. An abstract specification of the release (one bundle of one day, delivered until acknowledged) that `Release` implements, as
   `CommandBus` implements `CommandLog`.
3. The composition of `BusinessFiles` with `Archive`, which now share only what each says of the other: the lock and what is committed.

## 7. Not modelled

Authorisation and parsing, because they decide from one request and keep no state. Rendering, ZIP and CSV formats, sampling
statistics: data, not control. R2 retention rules and D1 itself are taken as what the code relies on: a batch is atomic, and a
statement sees the statements before it. Download tickets, the archive's export, the queries and reports, and the SharePoint calls read only. The browser is
present as the requests that it repeats under one key.

Of components that are modelled in part: the creation and approval of document templates, the register of signatures, follow-ups and
alternative procedures of confirmations, the arithmetic of monetary sampling, lines and amounts of adjusting entries, standards profiles,
utilisation and financial reports, the counts of petty cash, and the mail that announces a web inquiry.
