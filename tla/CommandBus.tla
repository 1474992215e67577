------------------------------ MODULE CommandBus ------------------------------
(***************************************************************************)
(* The business command bus of one workspace: runBusinessDirectoryCommand, *)
(* in worker/business.ts.  Every request is an HTTP handler of its own and *)
(* the database serves single statements and atomic batches, so handlers   *)
(* interleave between any two database calls.  A handler looks for the     *)
(* receipt of its idempotency key, checks that the engagement is not       *)
(* frozen, and then, at most MaxAttempts times, reads the head of the      *)
(* workspace's audit chain, builds its mutation from what it reads next,   *)
(* and commits receipt, mutation, head and audit rows in one batch that    *)
(* aborts unless the head is the one it read.                              *)
(*                                                                         *)
(* Two writers do not go through it: background jobs, which advance the    *)
(* head in their own batch, and the deadline sweep of the minute cron,     *)
(* which locks an engagement and does NOT advance the head.                *)
(*                                                                         *)
(* What commands do is kept to five: creating a client (several audit      *)
(* rows), updating one at an expected version, and on the one released     *)
(* engagement an assembly note, the Partner's archive lock, and a payment. *)
(* A workspace is always ACTIVE (no code makes one READ_ONLY), so          *)
(* assertion 902 never fails and is left out.                              *)
(***************************************************************************)
EXTENDS Naturals, Sequences, FiniteSets

CONSTANTS
  Requests,     (* HTTP requests; a client's retry is another request      *)
  Keys,         (* idempotency keys                                        *)
  Clients,      (* client codes, each naming at most one client record     *)
  System,       (* the author of the audit rows that jobs write            *)
  None,         (* no receipt; no client                                   *)
  MaxAttempts,  (* maxAuditHeadAttempts, 24 in the code                    *)
  MaxVersion,   (* bound: versions a client.update may expect              *)
  MaxJobs       (* bound: audited commits by background jobs               *)

ASSUME AttemptsAssumption == MaxAttempts \in Nat \ {0}
ASSUME BoundsAssumption == MaxVersion \in Nat /\ MaxJobs \in Nat
ASSUME AuthorAssumption == System \notin Requests
ASSUME NoneAssumption == None \notin Clients /\ None \notin Requests

VARIABLES
  sent,         (* sent[r]: the key and the command of request r           *)
  req,          (* req[r]: where the handler of r is, and what it knows    *)
  receipts,     (* receipts[k]: command_receipts, by idempotency key       *)
  head,         (* audit_chain_heads: last sequence and last event hash    *)
  audit,        (* audit_events                                            *)
  clients,      (* clients[c]: version of the client record, 0 if none     *)
  records,      (* the notes and payments of the engagement, by request    *)
  lock,         (* who set the engagement's locked_at                      *)
  due,          (* archive_due_at <= now                                   *)
  sealJobs      (* archive_runs of the engagement, each with its seal job  *)

data == <<clients, records, lock, sealJobs>>
chain == <<head, audit>>
vars == <<sent, req, receipts, chain, data, due>>

----
Commands ==
  [type : {"client.create"}, client : Clients, expected : {0}]
    \cup [type : {"client.update"}, client : Clients, expected : 1..MaxVersion]
    \cup [type : {"archive.note", "archive.lock", "payment.record"}, client : {None}, expected : {0}]

ASSUME NoReceiptAssumption == None \notin [by : Requests, cmd : Commands]

(* A client's creation is audited with that of its contact and its routes;  *)
(* the other commands write one row.                                        *)
Parts(c) == IF c.type = "client.create" THEN 2 ELSE 1

(* The hash of an audit row covers the row and the hash before it: a        *)
(* collision-free hash is as good as the sequence of the events it covers.  *)
Events == (Requests \cup {System}) \X Nat
Hashes == Seq(Events)
Genesis == <<>>

AuditRows == [seq : Nat, event : Events, prev : Hashes, hash : Hashes]
Heads == [seq : Nat, hash : Hashes]

(* The hash after the first i of the events evs, from the hash h.           *)
Link(h, evs, i) == h \o SubSeq(evs, 1, i)

(* The rows a batch inserts after head h, each linked to the one before.    *)
ChainRows(h, evs) ==
  {[seq |-> h.seq + i, event |-> evs[i],
    prev |-> Link(h.hash, evs, i - 1), hash |-> Link(h.hash, evs, i)] : i \in 1..Len(evs)}

HeadAfter(h, evs) == [seq |-> h.seq + Len(evs), hash |-> Link(h.hash, evs, Len(evs))]

EventsOf(r) == [i \in 1..Parts(sent[r].cmd) |-> <<r, i>>]

----
Handlers == {"lookup", "gate", "head", "build", "batch", "receipt", "recheck", "replied", "lost"}
Replies == {"none", "ok", "replayed", "mismatch", "refused", "conflict", "busy", "error"}

(* Where a handler is, which attempt it is on, the head it read, and how    *)
(* its last batch failed.                                                   *)
HandlerStates ==
  [pc : Handlers, attempt : 0..(MaxAttempts - 1), head : Heads,
   failure : {"none", "assertion", "fault"}, reply : Replies]

TypeOK ==
  /\ sent \in [Requests -> [key : Keys, cmd : Commands]]
  /\ req \in [Requests -> HandlerStates]
  /\ receipts \in [Keys -> [by : Requests, cmd : Commands] \cup {None}]
  /\ head \in Heads
  /\ audit \subseteq AuditRows
  /\ clients \in [Clients -> Nat]
  /\ records \subseteq {"archive.note", "payment.record"} \X Requests
  /\ lock \in {"OPEN", "PARTNER", "DEADLINE"}
  /\ due \in BOOLEAN
  /\ sealJobs \in Nat

NoHead == [seq |-> 0, hash |-> Genesis]

(* A handler that knows nothing yet, or has no use for what it knew. *)
At(pc, reply) == [pc |-> pc, attempt |-> 0, head |-> NoHead, failure |-> "none", reply |-> reply]

(* Seeding a workspace creates the head of its audit chain at sequence 0.   *)
(* The engagement is released, in COMPLIANCE_COUNTDOWN, not yet due.        *)
Init ==
  /\ sent \in [Requests -> [key : Keys, cmd : Commands]]
  /\ req = [r \in Requests |-> At("lookup", "none")]
  /\ receipts = [k \in Keys |-> None]
  /\ head = NoHead
  /\ audit = {}
  /\ clients = [c \in Clients |-> 0]
  /\ records = {}
  /\ lock = "OPEN"
  /\ due = FALSE
  /\ sealJobs = 0

----
GoTo(r, from, to) ==
  /\ req[r].pc = from
  /\ req' = [req EXCEPT ![r].pc = to]

Reply(r, from, answer) ==
  /\ req[r].pc = from
  /\ req' = [req EXCEPT ![r] = At("replied", answer)]

Mine(r) == receipts[sent[r].key]

(* Mutant: the request hash is not compared. *)
ReplayAnyRequest(r, from) ==
  /\ Mine(r) # None
  /\ Reply(r, from, "replayed")

(* replayCommand: the stored response, if the request is the same one.      *)
Replay(r, from) ==
  /\ Mine(r) # None
  /\ Reply(r, from, IF Mine(r).cmd = sent[r].cmd THEN "replayed" ELSE "mismatch")

Frozen == lock # "OPEN" \/ due

(* The commands whose engagement must not be frozen; locking the archive    *)
(* and bookkeeping after it are exempt, and client commands name no         *)
(* engagement.  The check is made once, before the attempts.                *)
Gated(c) == c.type = "archive.note"

(* findCommandReceipt, before anything else. *)
Lookup(r) ==
  /\ \/ Replay(r, "lookup")
     \/ Mine(r) = None /\ GoTo(r, "lookup", IF Gated(sent[r].cmd) THEN "gate" ELSE "head")
  /\ UNCHANGED <<sent, receipts, chain, data, due>>

Gate(r) ==
  /\ IF Frozen THEN Reply(r, "gate", "refused") ELSE GoTo(r, "gate", "head")
  /\ UNCHANGED <<sent, receipts, chain, data, due>>

ReadHead(r) ==
  /\ req[r].pc = "head"
  /\ req' = [req EXCEPT ![r] = [@ EXCEPT !.pc = "build", !.head = head]]
  /\ UNCHANGED <<sent, receipts, chain, data, due>>

(* Mutant: any version up to the current one will do. *)
VersionReached(c) == c.client # None => clients[c.client] >= c.expected

VersionMatches(c) == c.client # None => clients[c.client] = c.expected

(* What the builder of each command requires of the records it reads.       *)
Buildable(c) ==
  /\ VersionMatches(c)
  /\ c.type \in {"archive.note", "archive.lock"} => lock = "OPEN"

Build(r) ==
  /\ IF Buildable(sent[r].cmd)
     THEN GoTo(r, "build", "batch")
     ELSE Reply(r, "build", "refused")
  /\ UNCHANGED <<sent, receipts, chain, data, due>>

----
(* Mutant: assertion 704 is missing. *)
MutationAssertsVersionOnly(c) == VersionMatches(c)

(* The mutation's own assertions, evaluated inside the batch: a note has    *)
(* none (businessReporting.ts, buildArchiveNote).                           *)
MutationAsserts(c) ==
  /\ VersionMatches(c)
  /\ c.type = "archive.lock" => lock = "OPEN" /\ sealJobs = 0

HeadUnmoved(r) == head = req[r].head

(* Mutant: the head is not compared. *)
BatchHoldsOnAnyHead(r) == Mine(r) = None /\ MutationAsserts(sent[r].cmd)

(* The batch commits when no statement of it fails: the receipt's key is    *)
(* new, the assertions hold, and the head is the one the handler read.      *)
BatchHolds(r) ==
  /\ Mine(r) = None
  /\ MutationAsserts(sent[r].cmd)
  /\ HeadUnmoved(r)

Mutate(r, c) ==
  /\ clients' = IF c.client = None THEN clients ELSE [clients EXCEPT ![c.client] = @ + 1]
  /\ records' = IF c.type \in {"archive.note", "payment.record"} THEN records \cup {<<c.type, r>>} ELSE records
  /\ IF c.type = "archive.lock"
     THEN lock' = "PARTNER" /\ sealJobs' = sealJobs + 1
     ELSE UNCHANGED <<lock, sealJobs>>

(* Receipt, mutation, head and audit rows, all in one batch. *)
CommitEffects(r) ==
  /\ BatchHolds(r)
  /\ receipts' = [receipts EXCEPT ![sent[r].key] = [by |-> r, cmd |-> sent[r].cmd]]
  /\ Mutate(r, sent[r].cmd)
  /\ head' = HeadAfter(req[r].head, EventsOf(r))
  /\ audit' = audit \cup ChainRows(req[r].head, EventsOf(r))
  /\ UNCHANGED <<sent, due>>

BatchCommits(r) == Reply(r, "batch", "ok") /\ CommitEffects(r)

(* The batch did not commit: a statement of it failed, or the call did. *)
BatchAborts(r) ==
  /\ req[r].pc = "batch"
  /\ ~BatchHolds(r)
  /\ req' = [req EXCEPT ![r] = [@ EXCEPT !.pc = "receipt", !.failure = "assertion"]]
  /\ UNCHANGED <<sent, receipts, chain, data, due>>

BatchFaults(r) ==
  /\ req[r].pc = "batch"
  /\ req' = [req EXCEPT ![r] = [@ EXCEPT !.pc = "receipt", !.failure = "fault"]]
  /\ UNCHANGED <<sent, receipts, chain, data, due>>

(* The batch committed, but the handler is told that the call failed. *)
BatchCommitsUnseen(r) ==
  /\ req[r].pc = "batch"
  /\ req' = [req EXCEPT ![r] = [@ EXCEPT !.pc = "receipt", !.failure = "fault"]]
  /\ CommitEffects(r)

(* Mutant: the catch block does not look for the receipt. *)
RetryWithoutReceipt(r) ==
  /\ GoTo(r, "receipt", "recheck")
  /\ UNCHANGED <<sent, receipts, chain, data, due>>

(* In the catch block the receipt is read again: this handler's batch, or   *)
(* another's with the same key, may have committed after all.               *)
ReadReceiptAgain(r) ==
  /\ \/ Replay(r, "receipt")
     \/ Mine(r) = None /\ GoTo(r, "receipt", "recheck")
  /\ UNCHANGED <<sent, receipts, chain, data, due>>

(* Mutants: retry however often the head moves; whatever failed; forever. *)
RetryHowOftenEver(r) ==
  /\ req[r].pc = "recheck"
  /\ ~HeadUnmoved(r)
  /\ req' = [req EXCEPT ![r] = [@ EXCEPT !.pc = "head", !.attempt = req[r].attempt + 1, !.failure = "none"]]
  /\ UNCHANGED <<sent, receipts, chain, data, due>>

RetryWhateverFailed(r) ==
  /\ IF req[r].attempt + 1 < MaxAttempts
     THEN /\ req[r].pc = "recheck"
          /\ req' = [req EXCEPT ![r] = [@ EXCEPT !.pc = "head", !.attempt = req[r].attempt + 1, !.failure = "none"]]
     ELSE Reply(r, "recheck", "busy")
  /\ UNCHANGED <<sent, receipts, chain, data, due>>

RetryUncounted(r) ==
  /\ GoTo(r, "recheck", "head")
  /\ UNCHANGED <<sent, receipts, chain, data, due>>

(* If another commit moved the head the whole mutation is rebuilt; the last *)
(* attempt gives up.  If it did not, the failure is the mutation's own.     *)
ReadHeadAgain(r) ==
  /\ \/ /\ ~HeadUnmoved(r)
        /\ req[r].attempt + 1 < MaxAttempts
        /\ req[r].pc = "recheck"
        /\ req' = [req EXCEPT ![r] = [@ EXCEPT !.pc = "head", !.attempt = req[r].attempt + 1, !.failure = "none"]]
     \/ /\ ~HeadUnmoved(r)
        /\ req[r].attempt + 1 = MaxAttempts
        /\ Reply(r, "recheck", "busy")
     \/ /\ HeadUnmoved(r)
        /\ Reply(r, "recheck", IF req[r].failure = "assertion" THEN "conflict" ELSE "error")
  /\ UNCHANGED <<sent, receipts, chain, data, due>>

(* The isolate is killed, or a read throws: the sender gets no answer, or a *)
(* 500 that says nothing of the outcome.                                    *)
Crash(r) ==
  /\ req[r].pc \notin {"replied", "lost"}
  /\ req' = [req EXCEPT ![r] = At("lost", "none")]
  /\ UNCHANGED <<sent, receipts, chain, data, due>>

----
JobCommits == Cardinality({row \in audit : row.event[1] = System})

(* commitJobMutation (businessOutbox.ts): a job's batch, guarded by the     *)
(* head it read, that appends its one audit row.                            *)
JobCommit ==
  /\ JobCommits < MaxJobs
  /\ head' = HeadAfter(head, << <<System, 1>> >>)
  /\ audit' = audit \cup ChainRows(head, << <<System, 1>> >>)
  /\ UNCHANGED <<sent, req, receipts, data, due>>

DuePasses ==
  /\ ~due
  /\ due' = TRUE
  /\ UNCHANGED <<sent, req, receipts, chain, data>>

(* The batch of queueDueBusinessArchives: no receipt, no audit row, and the *)
(* head stays where it is.                                                  *)
DeadlineLock ==
  /\ due
  /\ lock = "OPEN"
  /\ sealJobs = 0
  /\ lock' = "DEADLINE"
  /\ sealJobs' = sealJobs + 1
  /\ UNCHANGED <<sent, req, receipts, chain, clients, records, due>>

Step(r) ==
  \/ Lookup(r) \/ Gate(r) \/ ReadHead(r) \/ Build(r)
  \/ BatchCommits(r) \/ BatchAborts(r)
  \/ ReadReceiptAgain(r) \/ ReadHeadAgain(r)

Fail(r) == BatchFaults(r) \/ BatchCommitsUnseen(r) \/ Crash(r)

Next ==
  \/ \E r \in Requests : Step(r) \/ Fail(r)
  \/ JobCommit
  \/ DuePasses
  \/ DeadlineLock

Spec == Init /\ [][Next]_vars

(* A handler runs on until it answers, unless it dies. *)
FairSpec == Spec /\ \A r \in Requests : WF_vars(Step(r))

----
(* The rows are numbered from 1 to the head, each number once, each row's   *)
(* hash covers the row and the hash of the one before, and the head holds   *)
(* the hash of the last.                                                    *)
Chained(h, rows) ==
  /\ {row.seq : row \in rows} = 1..h.seq
  /\ \A a, b \in rows : a.seq = b.seq => a = b
  /\ \A row \in rows : row.hash = Append(row.prev, row.event)
  /\ \A row \in rows :
       IF row.seq = 1 THEN row.prev = Genesis
       ELSE \E before \in rows : before.seq = row.seq - 1 /\ before.hash = row.prev
  /\ IF h.seq = 0 THEN h.hash = Genesis
     ELSE \E row \in rows : row.seq = h.seq /\ row.hash = h.hash

(* The workspace's audit chain is unbroken: handlers and jobs that compute  *)
(* their rows from the same head never both append them.                    *)
ChainIntact == Chained(head, audit)

Executed(r) == \E k \in Keys : receipts[k] # None /\ receipts[k].by = r

(* A command takes effect whole or not at all: a note or a payment is       *)
(* recorded exactly when its request has a receipt, and the engagement is   *)
(* locked once, with one seal job, by the Partner's lock that a receipt     *)
(* records or by the deadline.  However often a handler rebuilds its batch, *)
(* and even when the batch committed and the handler was told that it       *)
(* failed.                                                                  *)
AtomicEffects ==
  LET locks == {k \in Keys : receipts[k] # None /\ receipts[k].cmd.type = "archive.lock"} IN
  /\ \A r \in Requests :
       sent[r].cmd.type \in {"archive.note", "payment.record"}
         => (Executed(r) <=> <<sent[r].cmd.type, r>> \in records)
  /\ sealJobs = IF lock = "OPEN" THEN 0 ELSE 1
  /\ Cardinality(locks) = IF lock = "PARTNER" THEN 1 ELSE 0

(* No update of a client is lost: the commands executed on a client were    *)
(* issued against the versions 0, 1, 2, ... of it, one against each, and    *)
(* the client's version is their number.  And contention lets somebody      *)
(* through: a handler starts another attempt only because somebody else's   *)
(* command or job committed since its last one, and "busy" is the answer of *)
(* one that lost MaxAttempts times.                                         *)
NoLostUpdate ==
  /\ \A c \in Clients :
       LET done == {k \in Keys : receipts[k] # None /\ receipts[k].cmd.client = c} IN
       /\ {receipts[k].cmd.expected : k \in done} = 0..(clients[c] - 1)
       /\ Cardinality(done) = clients[c]
  /\ \A r \in Requests :
       LET others == Cardinality({k \in Keys : receipts[k] # None /\ receipts[k].by # r}) + JobCommits IN
       /\ req[r].attempt <= others
       /\ req[r].reply = "busy" => MaxAttempts <= others

(* Every request is answered, unless its handler dies. *)
EveryRequestEnds ==
  \A r \in Requests : <>(req[r].pc \in {"replied", "lost"})

----
(* Before its batch, and once it has looked for the receipt after a failed  *)
(* one, a request has not been executed; it says nothing before it replies; *)
(* and the receipt of a request is that of its own key and command.         *)
Unsettled == {"lookup", "gate", "head", "build", "batch", "recheck"}

ReceiptsHonest ==
  \A r \in Requests :
    /\ req[r].pc \in Unsettled => ~Executed(r)
    /\ req[r].pc # "replied" => req[r].reply = "none"
    /\ \A k \in Keys : receipts[k] # None /\ receipts[k].by = r
                      => k = sent[r].key /\ receipts[k].cmd = sent[r].cmd

(* What the caller of request r knows, in the terms of CommandLog. *)
AnswerOf(r) ==
  IF req[r].pc = "lost" \/ req[r].reply = "error" THEN "unknown"
  ELSE IF req[r].reply \in {"ok", "replayed"} THEN "done"
  ELSE IF req[r].pc = "replied" THEN "refused" ELSE "none"

Log == INSTANCE CommandLog WITH
  outcome <- receipts,
  log <- head.hash,
  answer <- [r \in Requests |-> AnswerOf(r)],
  NoOutcome <- None

(* The bus keeps the promise of CommandLog: the log is the sequence of      *)
(* events that the head's hash covers, an outcome is a receipt.             *)
ImplementsCommandLog == Log!Spec

===============================================================================
