--------------------------- MODULE CommandBusProofs ---------------------------
(***************************************************************************)
(* What holds of the command bus for every number of requests, keys and    *)
(* clients and every MaxAttempts: types, the unbroken audit chain, true    *)
(* answers, whole effects, no lost update; and that the bus implements     *)
(* CommandLog.                                                             *)
(***************************************************************************)
EXTENDS CommandBus, SequenceTheorems, FiniteSetTheorems, TLAPS

----
(* Lemmas about the chain's operators. *)

(* Appending to the second of two sequences and concatenating commute. *)
LEMMA ConcatAppend ==
  ASSUME NEW S, NEW s \in Seq(S), NEW t \in Seq(S), NEW e \in S
  PROVE  s \o Append(t, e) = Append(s \o t, e)
<1>1. /\ Append(t, e) \in Seq(S)
      /\ Len(Append(t, e)) = Len(t) + 1
      /\ \A i \in 1..Len(t) : Append(t, e)[i] = t[i]
      /\ Append(t, e)[Len(t) + 1] = e
  BY AppendProperties
<1>2. Len(s) \in Nat /\ Len(t) \in Nat
  BY LenProperties
<1>3. s \o t \in Seq(S) /\ Len(s \o t) = Len(s) + Len(t)
  BY ConcatProperties
<1>4. s \o Append(t, e) \in Seq(S) /\ Append(s \o t, e) \in Seq(S)
  BY <1>1, <1>3, ConcatProperties, AppendProperties
<1>5. /\ Len(s \o Append(t, e)) = Len(s) + Len(t) + 1
      /\ Len(Append(s \o t, e)) = Len(s) + Len(t) + 1
  BY <1>1, <1>2, <1>3, ConcatProperties, AppendProperties
<1>6. ASSUME NEW i \in 1..(Len(s) + Len(t) + 1)
      PROVE  (s \o Append(t, e))[i] = Append(s \o t, e)[i]
  BY <1>1, <1>2, <1>3, ConcatProperties, AppendProperties
<1> QED  BY <1>4, <1>5, <1>6, SeqEqual

(* The hash after i events is that after i - 1 of them and the i-th.        *)
LEMMA LinkLaw ==
  ASSUME NEW h \in Hashes, NEW evs \in Seq(Events)
  PROVE  /\ Link(h, evs, 0) = h
         /\ \A i \in 0..Len(evs) : Link(h, evs, i) \in Hashes
         /\ \A i \in 1..Len(evs) : Link(h, evs, i) = Append(Link(h, evs, i - 1), evs[i])
<1>1. Link(h, evs, 0) = h
  <2>1. SubSeq(evs, 1, 0) = << >>
    BY SubSeqEmpty
  <2> QED  BY <2>1, ConcatEmptySeq DEF Link, Hashes
<1>2. ASSUME NEW i \in 0..Len(evs)
      PROVE  Link(h, evs, i) \in Hashes /\ SubSeq(evs, 1, i) \in Seq(Events)
  <2>1. \A j \in 1..i : evs[j] \in Events
    BY ElementOfSeq, LenProperties
  <2>2. SubSeq(evs, 1, i) \in Seq(Events)
    BY <2>1, SubSeqProperties, LenProperties
  <2> QED  BY <2>2, ConcatProperties DEF Link, Hashes
<1>3. ASSUME NEW i \in 1..Len(evs)
      PROVE  Link(h, evs, i) = Append(Link(h, evs, i - 1), evs[i])
  <2> DEFINE before == SubSeq(evs, 1, i - 1)
  <2>1. i - 1 \in 0..Len(evs) /\ Len(evs) \in Nat
    BY LenProperties
  <2>2. evs[i] \in Events
    BY ElementOfSeq
  <2>3. before \in Seq(Events) /\ Link(h, evs, i - 1) \in Hashes
    BY <1>2, <2>1
  <2>4. SubSeq(evs, 1, i) = Append(before, evs[i])
    <3>1. SubSeq(evs, 1, i) = before \o <<evs[i]>>
      BY <2>1, SubSeqRecursiveSecond
    <3>2. Append(before, evs[i]) = before \o <<evs[i]>>
      BY <2>2, <2>3, AppendIsConcat
    <3> QED  BY <3>1, <3>2
  <2>5. h \o Append(before, evs[i]) = Append(h \o before, evs[i])
    <3>1. h \in Seq(Events)
      BY DEF Hashes
    <3> HIDE DEF before
    <3> QED  BY <2>2, <2>3, <3>1, ConcatAppend
  <2> QED  BY <2>4, <2>5 DEF Link
<1> QED  BY <1>1, <1>2, <1>3

(* What a batch inserts are audit rows, and the head it leaves is a head.   *)
LEMMA ChainTypes ==
  ASSUME NEW h \in Heads, NEW evs \in Seq(Events)
  PROVE  ChainRows(h, evs) \subseteq AuditRows /\ HeadAfter(h, evs) \in Heads
<1>1. h.seq \in Nat /\ h.hash \in Hashes
  BY DEF Heads
<1>2. Len(evs) \in Nat /\ Len(evs) \in 0..Len(evs)
  BY LenProperties
<1>3. \A i \in 0..Len(evs) : Link(h.hash, evs, i) \in Hashes
  BY <1>1, LinkLaw
<1>4. \A i \in 1..Len(evs) : evs[i] \in Events /\ i - 1 \in 0..Len(evs) /\ i \in 0..Len(evs)
  BY <1>2, ElementOfSeq
<1>5. HeadAfter(h, evs) \in Heads
  BY <1>1, <1>2, <1>3 DEF HeadAfter, Heads
<1>6. ChainRows(h, evs) \subseteq AuditRows
  BY <1>1, <1>2, <1>3, <1>4 DEF ChainRows, AuditRows
<1> QED  BY <1>5, <1>6

(* Rows computed from a chain's own head extend it to a chain. *)
LEMMA ChainExtends ==
  ASSUME NEW h \in Heads, NEW rows \in SUBSET AuditRows, NEW evs \in Seq(Events),
         Chained(h, rows)
  PROVE  Chained(HeadAfter(h, evs), rows \cup ChainRows(h, evs))
<1> DEFINE n == Len(evs)
           new(i) == [seq |-> h.seq + i, event |-> evs[i],
                      prev |-> Link(h.hash, evs, i - 1), hash |-> Link(h.hash, evs, i)]
           after == HeadAfter(h, evs)
           all == rows \cup ChainRows(h, evs)
<1>1. n \in Nat /\ h.seq \in Nat /\ h.hash \in Hashes
  BY LenProperties DEF Heads
<1>2. ChainRows(h, evs) = {new(i) : i \in 1..n}
  BY DEF ChainRows
<1>3. after.seq = h.seq + n /\ after.hash = Link(h.hash, evs, n)
  BY DEF HeadAfter
<1>4. \A row \in rows : row.seq \in 1..h.seq
  BY DEF Chained
<1>5. Link(h.hash, evs, 0) = h.hash /\ \A i \in 1..n : Link(h.hash, evs, i) = Append(Link(h.hash, evs, i - 1), evs[i])
  BY <1>1, LinkLaw
<1>6. \A k \in 1..h.seq : \E row \in rows : row.seq = k
  BY DEF Chained
<1> HIDE DEF new
<1>7. \A i \in 1..n : /\ new(i).seq = h.seq + i
                      /\ new(i).event = evs[i]
                      /\ new(i).prev = Link(h.hash, evs, i - 1)
                      /\ new(i).hash = Link(h.hash, evs, i)
                      /\ new(i) \in all
  BY <1>2 DEF new
<1>a. {row.seq : row \in all} = 1..after.seq
  <2>1. \A row \in all : row.seq \in 1..after.seq
    <3>1. \A row \in rows : row.seq \in 1..(h.seq + n)
      BY <1>1, <1>4
    <3>2. \A i \in 1..n : new(i).seq \in 1..(h.seq + n)
      BY <1>1, <1>7
    <3> QED  BY <3>1, <3>2, <1>2, <1>3
  <2>2. ASSUME NEW k \in 1..after.seq PROVE \E row \in all : row.seq = k
    <3>1. CASE k \in 1..h.seq
      BY <3>1, <1>6
    <3>2. CASE k \notin 1..h.seq
      <4>1. k - h.seq \in 1..n /\ k = h.seq + (k - h.seq)
        BY <3>2, <1>1, <1>3
      <4> QED  BY <4>1, <1>7
    <3> QED  BY <3>1, <3>2
  <2> QED  BY <2>1, <2>2
<1>b. \A a, b \in all : a.seq = b.seq => a = b
  <2> SUFFICES ASSUME NEW a \in all, NEW b \in all, a.seq = b.seq PROVE a = b
    OBVIOUS
  <2>1. CASE a \in rows /\ b \in rows
    BY <2>1 DEF Chained
  <2>2. ASSUME NEW i \in 1..n, NEW j \in 1..n, a = new(i), b = new(j)
        PROVE  a = b
    BY <2>2, <1>1, <1>7
  <2>3. ~(\E c \in rows, i \in 1..n : c.seq = new(i).seq)
    BY <1>1, <1>4, <1>7
  <2> QED  BY <2>1, <2>2, <2>3, <1>2
<1>c. \A row \in all : row.hash = Append(row.prev, row.event)
  <2>1. \A row \in rows : row.hash = Append(row.prev, row.event)
    BY DEF Chained
  <2>2. \A i \in 1..n : new(i).hash = Append(new(i).prev, new(i).event)
    BY <1>5, <1>7
  <2> QED  BY <2>1, <2>2, <1>2
<1>d. ASSUME NEW row \in all
      PROVE  IF row.seq = 1 THEN row.prev = Genesis
             ELSE \E before \in all : before.seq = row.seq - 1 /\ before.hash = row.prev
  <2>1. CASE row \in rows
    BY <2>1 DEF Chained
  <2>2. ASSUME NEW i \in 1..n, row = new(i), i = 1
        PROVE  IF row.seq = 1 THEN row.prev = Genesis
               ELSE \E before \in all : before.seq = row.seq - 1 /\ before.hash = row.prev
    <3>1. row.seq = h.seq + 1 /\ row.prev = h.hash
      BY <2>2, <1>5, <1>7
    <3>2. CASE h.seq = 0
      BY <3>1, <3>2 DEF Chained
    <3>3. CASE h.seq # 0
      <4>1. \E before \in rows : before.seq = h.seq /\ before.hash = h.hash
        BY <3>3 DEF Chained
      <4> QED  BY <3>1, <3>3, <4>1, <1>1
    <3> QED  BY <3>2, <3>3
  <2>3. ASSUME NEW i \in 1..n, row = new(i), i # 1
        PROVE  IF row.seq = 1 THEN row.prev = Genesis
               ELSE \E before \in all : before.seq = row.seq - 1 /\ before.hash = row.prev
    <3>1. i - 1 \in 1..n
      BY <2>3, <1>1
    <3>2. new(i - 1).seq = h.seq + (i - 1) /\ new(i - 1).hash = Link(h.hash, evs, i - 1) /\ new(i - 1) \in all
      BY <3>1, <1>7
    <3>3. row.seq = h.seq + i /\ row.prev = Link(h.hash, evs, i - 1)
      BY <2>3, <1>7
    <3>4. row.seq # 1 /\ new(i - 1).seq = row.seq - 1
      BY <3>2, <3>3, <2>3, <1>1
    <3> QED  BY <3>2, <3>3, <3>4
  <2> QED  BY <2>1, <2>2, <2>3, <1>2
<1>e. IF after.seq = 0 THEN after.hash = Genesis
      ELSE \E row \in all : row.seq = after.seq /\ row.hash = after.hash
  <2>1. CASE n = 0
    <3>1. after.seq = h.seq /\ after.hash = h.hash
      BY <2>1, <1>1, <1>3, <1>5
    <3> QED  BY <3>1 DEF Chained
  <2>2. CASE n # 0
    <3>1. n \in 1..n /\ after.seq # 0
      BY <2>2, <1>1, <1>3
    <3> QED  BY <3>1, <1>3, <1>7
  <2> QED  BY <2>1, <2>2
<1> HIDE DEF after, all
<1> QED  BY <1>a, <1>b, <1>c, <1>d, <1>e DEF Chained, after, all

(* The events of a request's command are a sequence of events. *)
LEMMA EventsType ==
  ASSUME NEW r \in Requests
  PROVE  EventsOf(r) \in Seq(Events)
<1>1. Parts(sent[r].cmd) \in Nat
  BY DEF Parts
<1>2. EventsOf(r) \in [1..Parts(sent[r].cmd) -> Events]
  BY DEF EventsOf, Events
<1> QED  BY <1>1, <1>2, SeqDef

(* So is the one event of a background job. *)
LEMMA SystemEventType == << <<System, 1>> >> \in Seq(Events)
  BY DEF Events

----
(* Type correctness. *)

(* A handler that goes on, at a known point of the code, stays a handler.   *)
LEMMA GoToType ==
  ASSUME TypeOK, NEW r \in Requests, NEW from, NEW to \in Handlers, GoTo(r, from, to)
  PROVE  req' \in [Requests -> HandlerStates]
  BY DEF TypeOK, GoTo, HandlerStates

(* The forgetful state of a handler is one of its states. *)
LEMMA AtType ==
  ASSUME NEW pc \in Handlers, NEW reply \in Replies
  PROVE  At(pc, reply) \in HandlerStates
<1>1. NoHead \in Heads
  BY EmptySeq DEF NoHead, Heads, Genesis, Hashes
<1>2. 0 \in 0..(MaxAttempts - 1)
  BY AttemptsAssumption
<1> QED  BY <1>1, <1>2 DEF At, HandlerStates

(* A handler that replies stays a handler. *)
LEMMA ReplyType ==
  ASSUME TypeOK, NEW r \in Requests, NEW from, NEW answer \in Replies, Reply(r, from, answer)
  PROVE  req' \in [Requests -> HandlerStates]
<1>1. "replied" \in Handlers
  BY DEF Handlers
<1>2. At("replied", answer) \in HandlerStates
  BY <1>1, AtType
<1> QED  BY <1>2 DEF TypeOK, Reply

(* What a batch that commits does keeps every type but the handler's own.   *)
LEMMA CommitType ==
  ASSUME TypeOK, NEW r \in Requests, CommitEffects(r),
         req' \in [Requests -> HandlerStates]
  PROVE  TypeOK'
<1> DEFINE c == sent[r].cmd
<1>1. c \in Commands /\ sent[r].key \in Keys /\ req[r].head \in Heads
  BY DEF TypeOK, HandlerStates
<1>2. HeadAfter(req[r].head, EventsOf(r)) \in Heads /\ ChainRows(req[r].head, EventsOf(r)) \subseteq AuditRows
  BY <1>1, EventsType, ChainTypes
<1>3. receipts' \in [Keys -> [by : Requests, cmd : Commands] \cup {None}]
  BY <1>1 DEF TypeOK, CommitEffects
<1>4. head' \in Heads /\ audit' \subseteq AuditRows
  BY <1>2 DEF TypeOK, CommitEffects
<1>5. clients' \in [Clients -> Nat]
  <2>1. CASE c.client = None
    BY <2>1 DEF CommitEffects, Mutate, TypeOK
  <2>2. CASE c.client # None
    <3>1. c.client \in Clients
      BY <1>1, <2>2 DEF Commands
    <3>2. clients[c.client] + 1 \in Nat
      BY <3>1 DEF TypeOK
    <3>3. clients' = [clients EXCEPT ![c.client] = clients[c.client] + 1]
      BY <2>2 DEF CommitEffects, Mutate
    <3> HIDE DEF c
    <3> QED  BY <3>2, <3>3 DEF TypeOK
  <2> QED  BY <2>1, <2>2
<1>6. records' \subseteq {"archive.note", "payment.record"} \X Requests
  BY DEF CommitEffects, Mutate, TypeOK
<1>7. lock' \in {"OPEN", "PARTNER", "DEADLINE"} /\ sealJobs' \in Nat
  BY DEF CommitEffects, Mutate, TypeOK
<1>8. sent' = sent /\ due' = due
  BY DEF CommitEffects
<1> QED  BY <1>3, <1>4, <1>5, <1>6, <1>7, <1>8 DEF TypeOK

(* The initial states have the declared types. *)
THEOREM InitTypes == Init => TypeOK
<1> SUFFICES ASSUME Init PROVE TypeOK
  OBVIOUS
<1>1. NoHead \in Heads
  BY EmptySeq DEF NoHead, Heads, Genesis, Hashes
<1>2. "lookup" \in Handlers /\ "none" \in Replies
  BY DEF Handlers, Replies
<1>3. req \in [Requests -> HandlerStates]
  BY <1>2, AtType DEF Init
<1> QED  BY <1>1, <1>3 DEF Init, TypeOK

(* Every step keeps the types. *)
THEOREM NextTypes == TypeOK /\ [Next]_vars => TypeOK'
<1> SUFFICES ASSUME TypeOK, [Next]_vars PROVE TypeOK'
  OBVIOUS
<1> USE DEF data, chain
<1>1. ASSUME NEW r \in Requests, Lookup(r) PROVE TypeOK'
  <2>1. CASE Replay(r, "lookup")
    BY <2>1, <1>1, ReplyType DEF Replay, Lookup, Replies, TypeOK
  <2>2. CASE GoTo(r, "lookup", IF Gated(sent[r].cmd) THEN "gate" ELSE "head")
    BY <2>2, <1>1, GoToType DEF Lookup, Handlers, TypeOK
  <2> QED  BY <2>1, <2>2, <1>1 DEF Lookup
<1>2. ASSUME NEW r \in Requests, Gate(r) PROVE TypeOK'
  BY <1>2, ReplyType, GoToType DEF Gate, Handlers, Replies, TypeOK
<1>3. ASSUME NEW r \in Requests, ReadHead(r) PROVE TypeOK'
  <2>1. [req[r] EXCEPT !.pc = "build", !.head = head] \in HandlerStates
    BY DEF Handlers, HandlerStates, TypeOK
  <2> QED  BY <1>3, <2>1 DEF ReadHead, TypeOK
<1>4. ASSUME NEW r \in Requests, Build(r) PROVE TypeOK'
  BY <1>4, ReplyType, GoToType DEF Build, Handlers, Replies, TypeOK
<1>5. ASSUME NEW r \in Requests, BatchCommits(r) PROVE TypeOK'
  BY <1>5, ReplyType, CommitType DEF BatchCommits, Replies
<1>6. ASSUME NEW r \in Requests, BatchAborts(r) PROVE TypeOK'
  <2>1. [req[r] EXCEPT !.pc = "receipt", !.failure = "assertion"] \in HandlerStates
    BY DEF Handlers, HandlerStates, TypeOK
  <2> QED  BY <1>6, <2>1 DEF BatchAborts, TypeOK
<1>7. ASSUME NEW r \in Requests, BatchFaults(r) PROVE TypeOK'
  <2>1. [req[r] EXCEPT !.pc = "receipt", !.failure = "fault"] \in HandlerStates
    BY DEF Handlers, HandlerStates, TypeOK
  <2> QED  BY <1>7, <2>1 DEF BatchFaults, TypeOK
<1>8. ASSUME NEW r \in Requests, BatchCommitsUnseen(r) PROVE TypeOK'
  <2>1. [req[r] EXCEPT !.pc = "receipt", !.failure = "fault"] \in HandlerStates
    BY DEF Handlers, HandlerStates, TypeOK
  <2>2. req' \in [Requests -> HandlerStates]
    BY <1>8, <2>1 DEF BatchCommitsUnseen, TypeOK
  <2> QED  BY <1>8, <2>2, CommitType DEF BatchCommitsUnseen
<1>9. ASSUME NEW r \in Requests, ReadReceiptAgain(r) PROVE TypeOK'
  <2>1. CASE Replay(r, "receipt")
    BY <2>1, <1>9, ReplyType DEF Replay, ReadReceiptAgain, Replies, TypeOK
  <2>2. CASE GoTo(r, "receipt", "recheck")
    BY <2>2, <1>9, GoToType DEF ReadReceiptAgain, Handlers, TypeOK
  <2> QED  BY <2>1, <2>2, <1>9 DEF ReadReceiptAgain
<1>10. ASSUME NEW r \in Requests, ReadHeadAgain(r) PROVE TypeOK'
  <2>1. CASE /\ req[r].attempt + 1 < MaxAttempts
             /\ req' = [req EXCEPT ![r] = [@ EXCEPT !.pc = "head", !.attempt = req[r].attempt + 1, !.failure = "none"]]
    <3>1. req[r] \in HandlerStates
      BY DEF TypeOK
    <3>2. req[r].attempt + 1 \in 0..(MaxAttempts - 1)
      BY <2>1, <3>1, AttemptsAssumption DEF HandlerStates
    <3>3. [req[r] EXCEPT !.pc = "head", !.attempt = req[r].attempt + 1, !.failure = "none"] \in HandlerStates
      BY <3>1, <3>2 DEF Handlers, HandlerStates
    <3> QED  BY <1>10, <2>1, <3>3 DEF ReadHeadAgain, TypeOK
  <2>2. CASE \E answer \in Replies : Reply(r, "recheck", answer)
    BY <2>2, <1>10, ReplyType DEF ReadHeadAgain, TypeOK
  <2> QED  BY <2>1, <2>2, <1>10 DEF ReadHeadAgain, Replies
<1>11. ASSUME NEW r \in Requests, Crash(r) PROVE TypeOK'
  <2>1. "lost" \in Handlers /\ "none" \in Replies
    BY DEF Handlers, Replies
  <2> QED  BY <1>11, <2>1, AtType DEF Crash, TypeOK
<1>12. CASE JobCommit
  <2>1. HeadAfter(head, << <<System, 1>> >>) \in Heads /\ ChainRows(head, << <<System, 1>> >>) \subseteq AuditRows
    BY SystemEventType, ChainTypes DEF TypeOK
  <2> QED  BY <1>12, <2>1 DEF JobCommit, TypeOK
<1>13. CASE DuePasses
  BY <1>13 DEF DuePasses, TypeOK
<1>14. CASE DeadlineLock
  BY <1>14 DEF DeadlineLock, TypeOK
<1>15. CASE UNCHANGED vars
  BY <1>15 DEF vars, TypeOK
<1> QED
  BY <1>1, <1>2, <1>3, <1>4, <1>5, <1>6, <1>7, <1>8, <1>9, <1>10, <1>11, <1>12, <1>13, <1>14, <1>15
     DEF Next, Step, Fail

(* Every reachable state of the bus has the declared types. *)
THEOREM TypeCorrect == Spec => []TypeOK
  BY InitTypes, NextTypes, PTL DEF Spec

----
(* The audit chain. *)

(* The empty chain, with its head at sequence 0, is unbroken. *)
THEOREM InitChain == Init => ChainIntact
  BY DEF Init, ChainIntact, Chained, NoHead

(* A handler's batch commits only on the head it read, and a job's batch on *)
(* the head there is: either appends rows computed from the chain's end.    *)
THEOREM NextChain == TypeOK /\ ChainIntact /\ [Next]_vars => ChainIntact'
<1> SUFFICES ASSUME TypeOK, ChainIntact, [Next]_vars PROVE ChainIntact'
  OBVIOUS
<1> USE DEF data, chain
<1>1. head \in Heads /\ audit \in SUBSET AuditRows /\ Chained(head, audit)
  BY DEF TypeOK, ChainIntact
<1>2. ASSUME NEW r \in Requests, CommitEffects(r) PROVE ChainIntact'
  <2>1. head' = HeadAfter(head, EventsOf(r)) /\ audit' = audit \cup ChainRows(head, EventsOf(r))
    BY <1>2 DEF CommitEffects, BatchHolds, HeadUnmoved
  <2>2. Chained(HeadAfter(head, EventsOf(r)), audit \cup ChainRows(head, EventsOf(r)))
    BY <1>1, EventsType, ChainExtends
  <2> QED  BY <2>1, <2>2 DEF ChainIntact
<1>3. CASE JobCommit
  <2>1. Chained(HeadAfter(head, << <<System, 1>> >>), audit \cup ChainRows(head, << <<System, 1>> >>))
    BY <1>1, SystemEventType, ChainExtends
  <2> QED  BY <1>3, <2>1 DEF ChainIntact, JobCommit
<1>4. CASE UNCHANGED chain
  BY <1>4 DEF ChainIntact
<1>5. \/ \E r \in Requests : CommitEffects(r)
      \/ JobCommit
      \/ UNCHANGED chain
  BY DEF Next, Step, Fail, vars, Lookup, Gate, ReadHead, Build, BatchCommits, BatchAborts, BatchFaults,
         BatchCommitsUnseen, ReadReceiptAgain, ReadHeadAgain, Crash, DuePasses, DeadlineLock
<1> QED  BY <1>2, <1>3, <1>4, <1>5

(* The audit chain of the workspace is never broken, whatever number of     *)
(* handlers and jobs race to append to it, die, or retry.                   *)
THEOREM AuditChainUnbroken == Spec => []ChainIntact
<1>1. TypeOK /\ ChainIntact /\ [Next]_vars => TypeOK' /\ ChainIntact'
  BY NextTypes, NextChain
<1>2. Init => TypeOK /\ ChainIntact
  BY InitTypes, InitChain
<1> QED  BY <1>1, <1>2, PTL DEF Spec

----
(* The bus implements CommandLog. *)

(* No request has a receipt or a reply before its handler starts. *)
THEOREM InitReceipts == Init => ReceiptsHonest
  BY DEF Init, ReceiptsHonest, Executed, At

(* A batch that commits gives its request the one receipt of its key. *)
LEMMA CommitReceipts ==
  ASSUME TypeOK, ReceiptsHonest, NEW r \in Requests, CommitEffects(r),
         req[r].pc = "batch",
         NEW s \in HandlerStates, req' = [req EXCEPT ![r] = s],
         s.pc \notin Unsettled, s.pc # "replied" => s.reply = "none"
  PROVE  ReceiptsHonest'
<1> DEFINE k == sent[r].key
           receipt == [by |-> r, cmd |-> sent[r].cmd]
<1>1. k \in Keys /\ receipts \in [Keys -> [by : Requests, cmd : Commands] \cup {None}] /\ req \in [Requests -> HandlerStates]
  BY DEF TypeOK
<1>2. receipts' = [receipts EXCEPT ![k] = receipt] /\ receipts[k] = None /\ sent' = sent
  BY DEF CommitEffects, BatchHolds, Mine
<1>3. req'[r] = s /\ \A q \in Requests \ {r} : req'[q] = req[q]
  BY <1>1
<1>4. receipts'[k] = receipt /\ \A j \in Keys \ {k} : receipts'[j] = receipts[j]
  BY <1>1, <1>2
<1>5. ASSUME NEW q \in Requests PROVE /\ req'[q].pc \in Unsettled => ~Executed(q)'
                                      /\ req'[q].pc # "replied" => req'[q].reply = "none"
  <2>1. CASE q = r
    BY <2>1, <1>3
  <2>2. CASE q # r
    <3>1. req'[q] = req[q]
      BY <2>2, <1>3
    <3>2. Executed(q)' => Executed(q)
      BY <2>2, <1>4 DEF Executed
    <3> QED  BY <3>1, <3>2 DEF ReceiptsHonest
  <2> QED  BY <2>1, <2>2
<1>6. ASSUME NEW q \in Requests, NEW j \in Keys, receipts'[j] # None, receipts'[j].by = q
      PROVE  j = sent'[q].key /\ receipts'[j].cmd = sent'[q].cmd
  <2>1. CASE j = k
    BY <2>1, <1>2, <1>4, <1>6
  <2>2. CASE j # k
    BY <2>2, <1>2, <1>4, <1>6 DEF ReceiptsHonest
  <2> QED  BY <2>1, <2>2
<1> QED  BY <1>5, <1>6 DEF ReceiptsHonest

(* A step of one handler that leaves the receipts alone. *)
LEMMA QuietReceipts ==
  ASSUME TypeOK, ReceiptsHonest, NEW r \in Requests, UNCHANGED <<sent, receipts>>,
         NEW s \in HandlerStates, req' = [req EXCEPT ![r] = s],
         s.pc \in Unsettled => ~Executed(r), s.pc # "replied" => s.reply = "none"
  PROVE  ReceiptsHonest'
<1>1. req'[r] = s /\ \A q \in Requests \ {r} : req'[q] = req[q]
  BY DEF TypeOK
<1>2. \A q \in Requests : Executed(q)' <=> Executed(q)
  BY DEF Executed
<1> QED  BY <1>1, <1>2 DEF ReceiptsHonest

(* What the type invariant says of one handler. *)
LEMMA StateTypes ==
  ASSUME TypeOK, NEW r \in Requests
  PROVE  /\ \A to \in Handlers : [req[r] EXCEPT !.pc = to] \in HandlerStates
         /\ \A answer \in Replies : At("replied", answer) \in HandlerStates
         /\ At("lost", "none") \in HandlerStates
         /\ \A failure \in {"assertion", "fault"} :
              [req[r] EXCEPT !.pc = "receipt", !.failure = failure] \in HandlerStates
<1>1. req[r] \in HandlerStates
  BY DEF TypeOK
<1>2. "replied" \in Handlers /\ "lost" \in Handlers /\ "none" \in Replies
  BY DEF Handlers, Replies
<1>3. \A to \in Handlers : [req[r] EXCEPT !.pc = to] \in HandlerStates
  BY <1>1 DEF HandlerStates
<1>4. \A failure \in {"assertion", "fault"} :
        [req[r] EXCEPT !.pc = "receipt", !.failure = failure] \in HandlerStates
  BY <1>1 DEF HandlerStates, Handlers
<1> QED  BY <1>2, <1>3, <1>4, AtType

(* A handler that goes on to a point where its request is not yet settled.  *)
LEMMA GoToQuiet ==
  ASSUME TypeOK, ReceiptsHonest, NEW r \in Requests, NEW from, NEW to \in Handlers \ {"replied"},
         GoTo(r, from, to), UNCHANGED <<sent, receipts>>,
         to \in Unsettled => ~Executed(r), from # "replied"
  PROVE  ReceiptsHonest'
<1>1. [req[r] EXCEPT !.pc = to] \in HandlerStates
  BY StateTypes
<1>2. req' = [req EXCEPT ![r] = [req[r] EXCEPT !.pc = to]]
  BY DEF GoTo
<1>3. req[r] \in HandlerStates /\ req[r].reply = "none"
  BY DEF TypeOK, ReceiptsHonest, GoTo
<1>4. [req[r] EXCEPT !.pc = to].pc = to /\ [req[r] EXCEPT !.pc = to].reply = "none"
  BY <1>3 DEF HandlerStates
<1> QED  BY <1>1, <1>2, <1>4, QuietReceipts

(* A handler that replies. *)
LEMMA ReplyQuiet ==
  ASSUME TypeOK, ReceiptsHonest, NEW r \in Requests, NEW from, NEW answer \in Replies,
         Reply(r, from, answer), UNCHANGED <<sent, receipts>>
  PROVE  ReceiptsHonest'
<1>1. At("replied", answer) \in HandlerStates
  BY StateTypes
<1>2. req' = [req EXCEPT ![r] = At("replied", answer)]
  BY DEF Reply
<1>3. At("replied", answer).pc = "replied" /\ "replied" \notin Unsettled
  BY DEF At, Unsettled
<1> QED  BY <1>1, <1>2, <1>3, QuietReceipts

(* A receipt is the settled outcome of its request, in every state. *)
THEOREM NextReceipts == TypeOK /\ ReceiptsHonest /\ [Next]_vars => ReceiptsHonest'
<1> SUFFICES ASSUME TypeOK, ReceiptsHonest, [Next]_vars PROVE ReceiptsHonest'
  OBVIOUS
<1> USE DEF data, chain
<1>1. ASSUME NEW r \in Requests, Lookup(r) PROVE ReceiptsHonest'
  <2>1. CASE Replay(r, "lookup")
    BY <2>1, <1>1, ReplyQuiet DEF Replay, Lookup, Replies
  <2>2. CASE GoTo(r, "lookup", IF Gated(sent[r].cmd) THEN "gate" ELSE "head")
    <3>1. ~Executed(r)
      BY <2>2 DEF GoTo, ReceiptsHonest, Unsettled
    <3> QED  BY <2>2, <3>1, <1>1, GoToQuiet DEF Lookup, Handlers
  <2> QED  BY <2>1, <2>2, <1>1 DEF Lookup
<1>2. ASSUME NEW r \in Requests, Gate(r) PROVE ReceiptsHonest'
  <2>1. CASE Reply(r, "gate", "refused")
    BY <2>1, <1>2, ReplyQuiet DEF Gate, Replies
  <2>2. CASE GoTo(r, "gate", "head")
    <3>1. ~Executed(r)
      BY <2>2 DEF GoTo, ReceiptsHonest, Unsettled
    <3> QED  BY <2>2, <3>1, <1>2, GoToQuiet DEF Gate, Handlers
  <2> QED  BY <2>1, <2>2, <1>2 DEF Gate
<1>3. ASSUME NEW r \in Requests, ReadHead(r) PROVE ReceiptsHonest'
  <2> DEFINE s == [req[r] EXCEPT !.pc = "build", !.head = head]
  <2>1. s \in HandlerStates /\ s.pc = "build" /\ s.reply = req[r].reply
    BY DEF TypeOK, HandlerStates, Handlers
  <2>2. ~Executed(r) /\ s.reply = "none"
    BY <1>3, <2>1 DEF ReadHead, ReceiptsHonest, Unsettled
  <2>3. req' = [req EXCEPT ![r] = s] /\ UNCHANGED <<sent, receipts>>
    BY <1>3 DEF ReadHead
  <2> HIDE DEF s
  <2> QED  BY <2>1, <2>2, <2>3, QuietReceipts
<1>4. ASSUME NEW r \in Requests, Build(r) PROVE ReceiptsHonest'
  <2>1. CASE Reply(r, "build", "refused")
    BY <2>1, <1>4, ReplyQuiet DEF Build, Replies
  <2>2. CASE GoTo(r, "build", "batch")
    <3>1. ~Executed(r)
      BY <2>2 DEF GoTo, ReceiptsHonest, Unsettled
    <3> QED  BY <2>2, <3>1, <1>4, GoToQuiet DEF Build, Handlers
  <2> QED  BY <2>1, <2>2, <1>4 DEF Build
<1>5. ASSUME NEW r \in Requests, BatchCommits(r) PROVE ReceiptsHonest'
  <2>1. At("replied", "ok") \in HandlerStates
    BY StateTypes DEF Replies
  <2>2. At("replied", "ok").pc = "replied" /\ "replied" \notin Unsettled
    BY DEF At, Unsettled
  <2>3. req[r].pc = "batch" /\ req' = [req EXCEPT ![r] = At("replied", "ok")] /\ CommitEffects(r)
    BY <1>5 DEF BatchCommits, Reply
  <2> QED  BY <2>1, <2>2, <2>3, CommitReceipts
<1>6. ASSUME NEW r \in Requests, BatchAborts(r) \/ BatchFaults(r) PROVE ReceiptsHonest'
  <2>1. PICK failure \in {"assertion", "fault"} :
          req' = [req EXCEPT ![r] = [req[r] EXCEPT !.pc = "receipt", !.failure = failure]]
    BY <1>6 DEF BatchAborts, BatchFaults
  <2> DEFINE s == [req[r] EXCEPT !.pc = "receipt", !.failure = failure]
  <2>2. s \in HandlerStates
    BY StateTypes
  <2>3. s.pc = "receipt" /\ s.reply = req[r].reply /\ "receipt" \notin Unsettled
    BY DEF TypeOK, HandlerStates, Unsettled
  <2>4. s.reply = "none"
    BY <1>6, <2>3 DEF BatchAborts, BatchFaults, ReceiptsHonest
  <2>5. UNCHANGED <<sent, receipts>>
    BY <1>6 DEF BatchAborts, BatchFaults
  <2>6. req' = [req EXCEPT ![r] = s]
    BY <2>1
  <2> HIDE DEF s
  <2> QED  BY <2>2, <2>3, <2>4, <2>5, <2>6, QuietReceipts
<1>7. ASSUME NEW r \in Requests, BatchCommitsUnseen(r) PROVE ReceiptsHonest'
  <2> DEFINE s == [req[r] EXCEPT !.pc = "receipt", !.failure = "fault"]
  <2>1. s \in HandlerStates
    BY StateTypes
  <2>2. s.pc = "receipt" /\ s.reply = req[r].reply /\ "receipt" \notin Unsettled
    BY DEF TypeOK, HandlerStates, Unsettled
  <2>3. s.reply = "none"
    BY <1>7, <2>2 DEF BatchCommitsUnseen, ReceiptsHonest
  <2>4. req[r].pc = "batch" /\ req' = [req EXCEPT ![r] = s] /\ CommitEffects(r)
    BY <1>7 DEF BatchCommitsUnseen
  <2> HIDE DEF s
  <2> QED  BY <2>1, <2>2, <2>3, <2>4, CommitReceipts
<1>8. ASSUME NEW r \in Requests, ReadReceiptAgain(r) PROVE ReceiptsHonest'
  <2>1. CASE Replay(r, "receipt")
    BY <2>1, <1>8, ReplyQuiet DEF Replay, ReadReceiptAgain, Replies
  <2>2. CASE Mine(r) = None /\ GoTo(r, "receipt", "recheck")
    <3>1. ~Executed(r)
      BY <2>2 DEF Mine, Executed, ReceiptsHonest
    <3> QED  BY <2>2, <3>1, <1>8, GoToQuiet DEF ReadReceiptAgain, Handlers
  <2> QED  BY <2>1, <2>2, <1>8 DEF ReadReceiptAgain
<1>9. ASSUME NEW r \in Requests, ReadHeadAgain(r) PROVE ReceiptsHonest'
  <2>1. CASE /\ req[r].attempt + 1 < MaxAttempts
             /\ req[r].pc = "recheck"
             /\ req' = [req EXCEPT ![r] = [@ EXCEPT !.pc = "head", !.attempt = req[r].attempt + 1, !.failure = "none"]]
    <3> DEFINE s == [req[r] EXCEPT !.pc = "head", !.attempt = req[r].attempt + 1, !.failure = "none"]
    <3>1. req[r] \in HandlerStates
      BY DEF TypeOK
    <3>2. req[r].attempt + 1 \in 0..(MaxAttempts - 1)
      BY <2>1, <3>1, AttemptsAssumption DEF HandlerStates
    <3>3. s \in HandlerStates /\ s.pc = "head" /\ s.reply = req[r].reply
      BY <3>1, <3>2 DEF HandlerStates, Handlers
    <3>4. ~Executed(r) /\ s.reply = "none"
      BY <2>1, <3>3 DEF ReceiptsHonest, Unsettled
    <3>5. req' = [req EXCEPT ![r] = s] /\ UNCHANGED <<sent, receipts>>
      BY <1>9, <2>1 DEF ReadHeadAgain
    <3> HIDE DEF s
    <3> QED  BY <3>3, <3>4, <3>5, QuietReceipts
  <2>2. CASE \E answer \in Replies : Reply(r, "recheck", answer)
    BY <2>2, <1>9, ReplyQuiet DEF ReadHeadAgain
  <2> QED  BY <2>1, <2>2, <1>9 DEF ReadHeadAgain, Replies
<1>10. ASSUME NEW r \in Requests, Crash(r) PROVE ReceiptsHonest'
  <2>1. At("lost", "none") \in HandlerStates
    BY StateTypes
  <2>2. At("lost", "none").pc = "lost" /\ At("lost", "none").reply = "none" /\ "lost" \notin Unsettled
    BY DEF At, Unsettled
  <2>3. req' = [req EXCEPT ![r] = At("lost", "none")] /\ UNCHANGED <<sent, receipts>>
    BY <1>10 DEF Crash
  <2> QED  BY <2>1, <2>2, <2>3, QuietReceipts
<1>11. CASE UNCHANGED <<sent, req, receipts>>
  BY <1>11 DEF ReceiptsHonest, Executed
<1>12. JobCommit \/ DuePasses \/ DeadlineLock \/ UNCHANGED vars => UNCHANGED <<sent, req, receipts>>
  BY DEF JobCommit, DuePasses, DeadlineLock, vars
<1> QED
  BY <1>1, <1>2, <1>3, <1>4, <1>5, <1>6, <1>7, <1>8, <1>9, <1>10, <1>11, <1>12 DEF Next, Step, Fail

(* What a handler's caller knows is settled by the handler's reply. *)
LEMMA Answers ==
  ASSUME TypeOK, ReceiptsHonest, NEW r \in Requests
  PROVE  /\ req[r].pc \notin {"replied", "lost"} => AnswerOf(r) = "none"
         /\ req[r] = At("lost", "none") => AnswerOf(r) = "unknown"
         /\ req[r] = At("replied", "error") => AnswerOf(r) = "unknown"
         /\ \A ok \in {"ok", "replayed"} : req[r] = At("replied", ok) => AnswerOf(r) = "done"
         /\ \A no \in {"mismatch", "refused", "conflict", "busy"} : req[r] = At("replied", no) => AnswerOf(r) = "refused"
  BY DEF AnswerOf, ReceiptsHonest, At

(* A handler that goes on without replying tells its caller nothing. *)
LEMMA QuietAnswer ==
  ASSUME TypeOK, TypeOK', ReceiptsHonest, ReceiptsHonest', NEW r \in Requests,
         \A q \in Requests \ {r} : req'[q] = req[q],
         req[r].pc \notin {"replied", "lost"}, req'[r].pc \notin {"replied", "lost"}
  PROVE  [q \in Requests |-> AnswerOf(q)]' = [q \in Requests |-> AnswerOf(q)]
<1>1. AnswerOf(r) = "none" /\ AnswerOf(r)' = "none"
  BY DEF AnswerOf, ReceiptsHonest
<1>2. \A q \in Requests \ {r} : AnswerOf(q)' = AnswerOf(q)
  BY DEF AnswerOf
<1> QED  BY <1>1, <1>2

(* A handler that replies, or dies, settles its own caller's knowledge. *)
LEMMA SettledAnswer ==
  ASSUME TypeOK, ReceiptsHonest, NEW r \in Requests, NEW a,
         \A q \in Requests \ {r} : req'[q] = req[q],
         AnswerOf(r)' = a
  PROVE  [q \in Requests |-> AnswerOf(q)]' = [[q \in Requests |-> AnswerOf(q)] EXCEPT ![r] = a]
<1>1. \A q \in Requests \ {r} : AnswerOf(q)' = AnswerOf(q)
  BY DEF AnswerOf
<1> QED  BY <1>1

(* The initial states of the bus are initial states of the log. *)
THEOREM InitRefines == Init => Log!Init
<1> SUFFICES ASSUME Init PROVE Log!Init
  OBVIOUS
<1>1. \A r \in Requests : AnswerOf(r) = "none"
  BY DEF Init, AnswerOf, At
<1> QED  BY <1>1 DEF Init, Log!Init, NoHead, Genesis

(* One lemma per way a step of a handler ends. *)
LEMMA ReplyRefines ==
  ASSUME TypeOK, ReceiptsHonest, TypeOK', ReceiptsHonest', NEW r \in Requests,
         NEW from \in Handlers \ {"replied", "lost"}, NEW answer \in Replies \ {"none", "ok", "replayed"},
         Reply(r, from, answer), UNCHANGED <<sent, receipts, head>>,
         answer # "error" => ~Executed(r)
  PROVE  Log!Next
<1>1. req'[r] = At("replied", answer) /\ \A q \in Requests \ {r} : req'[q] = req[q]
  BY DEF Reply, TypeOK
<1>2. AnswerOf(r) = "none"
  BY Answers DEF Reply
<1>3. CASE answer = "error"
  <2>1. AnswerOf(r)' = "unknown"
    BY <1>1, <1>3 DEF AnswerOf, At
  <2>2. [q \in Requests |-> AnswerOf(q)]' = [[q \in Requests |-> AnswerOf(q)] EXCEPT ![r] = "unknown"]
    BY <1>1, <2>1, SettledAnswer
  <2>3. Log!Lose(r)
    BY <1>2, <2>2 DEF Log!Lose
  <2> QED  BY <2>3 DEF Log!Next
<1>4. CASE answer # "error"
  <2>1. AnswerOf(r)' = "refused"
    BY <1>1, <1>4 DEF AnswerOf, At, Replies
  <2>2. [q \in Requests |-> AnswerOf(q)]' = [[q \in Requests |-> AnswerOf(q)] EXCEPT ![r] = "refused"]
    BY <1>1, <2>1, SettledAnswer
  <2>3. \A k \in Keys : receipts[k] # None => receipts[k].by # r
    BY <1>4 DEF Executed
  <2>4. Log!Refuse(r)
    BY <1>2, <2>2, <2>3 DEF Log!Refuse
  <2> QED  BY <2>4 DEF Log!Next
<1> QED  BY <1>3, <1>4

(* Replaying a stored receipt confirms the command, or refuses another's.   *)
LEMMA ReplayRefines ==
  ASSUME TypeOK, ReceiptsHonest, TypeOK', ReceiptsHonest', NEW r \in Requests,
         NEW from \in {"lookup", "receipt"}, Replay(r, from), UNCHANGED <<sent, receipts, head>>
  PROVE  Log!Next
<1>1. CASE Mine(r).cmd = sent[r].cmd
  <2>1. Reply(r, from, "replayed") /\ Mine(r) # None
    BY <1>1 DEF Replay
  <2>2. req'[r] = At("replied", "replayed") /\ \A q \in Requests \ {r} : req'[q] = req[q]
    BY <2>1 DEF Reply, TypeOK
  <2>3. AnswerOf(r) = "none"
    BY <2>1, Answers DEF Reply
  <2>4. AnswerOf(r)' = "done"
    BY <2>2 DEF AnswerOf, At
  <2>5. [q \in Requests |-> AnswerOf(q)]' = [[q \in Requests |-> AnswerOf(q)] EXCEPT ![r] = "done"]
    BY <2>2, <2>4, SettledAnswer
  <2>6. Log!Confirm(r)
    BY <1>1, <2>1, <2>3, <2>5 DEF Log!Confirm, Log!OutcomeFor, Mine
  <2> QED  BY <2>6 DEF Log!Next
<1>2. CASE Mine(r).cmd # sent[r].cmd
  <2>1. Reply(r, from, "mismatch") /\ Mine(r) # None
    BY <1>2 DEF Replay
  <2>2. ~Executed(r)
    BY <1>2 DEF Executed, Mine, ReceiptsHonest
  <2>3. from \in Handlers \ {"replied", "lost"} /\ "mismatch" \in Replies \ {"none", "ok", "replayed"}
    BY DEF Handlers, Replies
  <2> QED  BY <2>1, <2>2, <2>3, ReplyRefines
<1> QED  BY <1>1, <1>2

(* A step that tells nobody anything is a stutter of the log. *)
LEMMA QuietRefines ==
  ASSUME TypeOK, ReceiptsHonest, TypeOK', ReceiptsHonest', NEW r \in Requests,
         NEW s, req' = [req EXCEPT ![r] = s], UNCHANGED <<sent, receipts, head>>,
         req[r].pc \notin {"replied", "lost"}, s.pc \notin {"replied", "lost"}
  PROVE  UNCHANGED Log!abstractVars
<1>1. req'[r] = s /\ \A q \in Requests \ {r} : req'[q] = req[q]
  BY DEF TypeOK
<1>2. [q \in Requests |-> AnswerOf(q)]' = [q \in Requests |-> AnswerOf(q)]
  BY <1>1, QuietAnswer
<1> QED  BY <1>2 DEF Log!abstractVars

(* A batch that commits appends exactly the events of its command. *)
LEMMA CommitRefines ==
  ASSUME TypeOK, ReceiptsHonest, TypeOK', ReceiptsHonest', NEW r \in Requests,
         CommitEffects(r), req[r].pc = "batch",
         NEW s, req' = [req EXCEPT ![r] = s], s = At("replied", "ok") \/ s.pc = "receipt"
  PROVE  Log!Next
<1>1. req'[r] = s /\ \A q \in Requests \ {r} : req'[q] = req[q]
  BY DEF TypeOK
<1>2. AnswerOf(r) = "none"
  BY Answers
<1>3. head'.hash = head.hash \o Log!Entry(r)
  <2>1. head' = HeadAfter(head, EventsOf(r))
    BY DEF CommitEffects, BatchHolds, HeadUnmoved
  <2>2. SubSeq(EventsOf(r), 1, Len(EventsOf(r))) = EventsOf(r)
    BY EventsType, SubSeqFull
  <2>3. EventsOf(r) = Log!Entry(r)
    BY DEF EventsOf, Log!Entry
  <2> QED  BY <2>1, <2>2, <2>3 DEF HeadAfter, Link
<1>4. [q \in Requests |-> AnswerOf(q)]' \in
        {[q \in Requests |-> AnswerOf(q)], [[q \in Requests |-> AnswerOf(q)] EXCEPT ![r] = "done"]}
  <2>1. CASE s = At("replied", "ok")
    <3>1. AnswerOf(r)' = "done"
      BY <1>1, <2>1 DEF AnswerOf, At
    <3> QED  BY <1>1, <3>1, SettledAnswer
  <2>2. CASE s.pc = "receipt"
    BY <1>1, <2>2, QuietAnswer
  <2> QED  BY <2>1, <2>2
<1>5. /\ receipts[sent[r].key] = None
      /\ receipts' = [receipts EXCEPT ![sent[r].key] = [by |-> r, cmd |-> sent[r].cmd]]
      /\ UNCHANGED sent
  BY DEF CommitEffects, BatchHolds, Mine
<1>6. Log!Execute(r)
  BY <1>2, <1>3, <1>4, <1>5 DEF Log!Execute, Log!OutcomeFor
<1> QED  BY <1>6 DEF Log!Next

(* Every step of the bus is a step of CommandLog or leaves it as it is. *)
THEOREM NextRefines ==
  TypeOK /\ TypeOK' /\ ReceiptsHonest /\ ReceiptsHonest' /\ [Next]_vars => [Log!Next]_Log!abstractVars
<1> SUFFICES ASSUME TypeOK, TypeOK', ReceiptsHonest, ReceiptsHonest', [Next]_vars
             PROVE  Log!Next \/ UNCHANGED Log!abstractVars
  OBVIOUS
<1> USE DEF data, chain
<1>1. ASSUME NEW r \in Requests, NEW from \in Handlers \ {"replied", "lost"},
             NEW to \in Handlers \ {"replied", "lost"}, GoTo(r, from, to), UNCHANGED <<sent, receipts, head>>
      PROVE  UNCHANGED Log!abstractVars
  <2>1. req' = [req EXCEPT ![r] = [req[r] EXCEPT !.pc = to]] /\ req[r].pc = from
    BY <1>1 DEF GoTo
  <2>2. [req[r] EXCEPT !.pc = to].pc = to
    BY DEF TypeOK, HandlerStates
  <2> QED  BY <1>1, <2>1, <2>2, QuietRefines
<1>2. ASSUME NEW r \in Requests, Lookup(r) PROVE Log!Next \/ UNCHANGED Log!abstractVars
  <2>1. CASE Replay(r, "lookup")
    BY <2>1, <1>2, ReplayRefines DEF Lookup
  <2>2. CASE GoTo(r, "lookup", IF Gated(sent[r].cmd) THEN "gate" ELSE "head")
    BY <2>2, <1>1, <1>2 DEF Lookup, Handlers
  <2> QED  BY <2>1, <2>2, <1>2 DEF Lookup
<1>3. ASSUME NEW r \in Requests, Gate(r) \/ Build(r) PROVE Log!Next \/ UNCHANGED Log!abstractVars
  <2>1. UNCHANGED <<sent, receipts, head>>
    BY <1>3 DEF Gate, Build
  <2>2. CASE \E from \in {"gate", "build"} : Reply(r, from, "refused")
    <3>1. PICK from \in {"gate", "build"} : Reply(r, from, "refused")
      BY <2>2
    <3>2. ~Executed(r)
      BY <3>1 DEF Reply, ReceiptsHonest, Unsettled
    <3>3. from \in Handlers \ {"replied", "lost"} /\ "refused" \in Replies \ {"none", "ok", "replayed"}
      BY DEF Handlers, Replies
    <3> QED  BY <2>1, <3>1, <3>2, <3>3, ReplyRefines
  <2>3. CASE GoTo(r, "gate", "head") \/ GoTo(r, "build", "batch")
    BY <2>1, <2>3, <1>1 DEF Handlers
  <2> QED  BY <2>2, <2>3, <1>3 DEF Gate, Build
<1>4. ASSUME NEW r \in Requests, ReadHead(r) PROVE UNCHANGED Log!abstractVars
  <2>1. [req[r] EXCEPT !.pc = "build", !.head = head].pc = "build"
    BY DEF TypeOK, HandlerStates
  <2> QED  BY <1>4, <2>1, QuietRefines DEF ReadHead
<1>5. ASSUME NEW r \in Requests, BatchCommits(r) PROVE Log!Next
  <2>1. req' = [req EXCEPT ![r] = At("replied", "ok")] /\ req[r].pc = "batch" /\ CommitEffects(r)
    BY <1>5 DEF BatchCommits, Reply
  <2> QED  BY <2>1, CommitRefines
<1>6. ASSUME NEW r \in Requests, BatchAborts(r) \/ BatchFaults(r) PROVE UNCHANGED Log!abstractVars
  <2>1. PICK failure \in {"assertion", "fault"} :
          req' = [req EXCEPT ![r] = [req[r] EXCEPT !.pc = "receipt", !.failure = failure]]
    BY <1>6 DEF BatchAborts, BatchFaults
  <2>2. [req[r] EXCEPT !.pc = "receipt", !.failure = failure].pc = "receipt"
    BY DEF TypeOK, HandlerStates
  <2>3. req[r].pc = "batch" /\ UNCHANGED <<sent, receipts, head>>
    BY <1>6 DEF BatchAborts, BatchFaults
  <2> QED  BY <2>1, <2>2, <2>3, QuietRefines
<1>7. ASSUME NEW r \in Requests, BatchCommitsUnseen(r) PROVE Log!Next
  <2>1. [req[r] EXCEPT !.pc = "receipt", !.failure = "fault"].pc = "receipt"
    BY DEF TypeOK, HandlerStates
  <2>2. /\ req' = [req EXCEPT ![r] = [req[r] EXCEPT !.pc = "receipt", !.failure = "fault"]]
        /\ req[r].pc = "batch"
        /\ CommitEffects(r)
    BY <1>7 DEF BatchCommitsUnseen
  <2> QED  BY <2>1, <2>2, CommitRefines
<1>8. ASSUME NEW r \in Requests, ReadReceiptAgain(r) PROVE Log!Next \/ UNCHANGED Log!abstractVars
  <2>1. CASE Replay(r, "receipt")
    BY <2>1, <1>8, ReplayRefines DEF ReadReceiptAgain
  <2>2. CASE GoTo(r, "receipt", "recheck")
    BY <2>2, <1>1, <1>8 DEF ReadReceiptAgain, Handlers
  <2> QED  BY <2>1, <2>2, <1>8 DEF ReadReceiptAgain
<1>9. ASSUME NEW r \in Requests, ReadHeadAgain(r) PROVE Log!Next \/ UNCHANGED Log!abstractVars
  <2>1. UNCHANGED <<sent, receipts, head>>
    BY <1>9 DEF ReadHeadAgain
  <2>2. CASE /\ req[r].pc = "recheck"
             /\ req' = [req EXCEPT ![r] = [@ EXCEPT !.pc = "head", !.attempt = req[r].attempt + 1, !.failure = "none"]]
    <3>1. [req[r] EXCEPT !.pc = "head", !.attempt = req[r].attempt + 1, !.failure = "none"].pc = "head"
      BY DEF TypeOK, HandlerStates
    <3> QED  BY <2>1, <2>2, <3>1, QuietRefines
  <2>3. CASE \E answer \in {"busy", "conflict", "error"} : Reply(r, "recheck", answer)
    <3>1. ~Executed(r)
      BY <2>3 DEF Reply, ReceiptsHonest, Unsettled
    <3>2. "recheck" \in Handlers \ {"replied", "lost"}
          /\ {"busy", "conflict", "error"} \subseteq Replies \ {"none", "ok", "replayed"}
      BY DEF Handlers, Replies
    <3> QED  BY <2>1, <2>3, <3>1, <3>2, ReplyRefines
  <2> QED  BY <2>2, <2>3, <1>9 DEF ReadHeadAgain
<1>10. ASSUME NEW r \in Requests, Crash(r) PROVE Log!Next
  <2>1. req'[r] = At("lost", "none") /\ \A q \in Requests \ {r} : req'[q] = req[q]
    BY <1>10 DEF Crash, TypeOK
  <2>2. AnswerOf(r) = "none"
    BY <1>10, Answers DEF Crash
  <2>3. AnswerOf(r)' = "unknown"
    BY <2>1 DEF AnswerOf, At
  <2>4. [q \in Requests |-> AnswerOf(q)]' = [[q \in Requests |-> AnswerOf(q)] EXCEPT ![r] = "unknown"]
    BY <2>1, <2>3, SettledAnswer
  <2>5. Log!Lose(r)
    BY <1>10, <2>2, <2>4 DEF Crash, Log!Lose
  <2> QED  BY <2>5 DEF Log!Next
<1>11. CASE JobCommit
  <2> DEFINE evs == << <<System, 1>> >>
  <2>1. evs \in Seq(Events) /\ Len(evs) = 1 /\ evs[1] = <<System, 1>>
    BY SystemEventType
  <2>2. head.hash \in Hashes
    BY DEF TypeOK, Heads
  <2>3. Link(head.hash, evs, 0) = head.hash
    BY <2>1, <2>2, LinkLaw
  <2>4. Link(head.hash, evs, 1) = Append(Link(head.hash, evs, 0), evs[1])
    <3>1. 1 \in 1..Len(evs) /\ 1 - 1 = 0
      BY <2>1
    <3> HIDE DEF evs
    <3> QED  BY <2>1, <2>2, <3>1, LinkLaw
  <2>5. head'.hash = Append(head.hash, <<System, 1>>)
    <3>1. head'.hash = Link(head.hash, evs, Len(evs))
      BY <1>11 DEF JobCommit, HeadAfter
    <3> QED  BY <2>1, <2>3, <2>4, <3>1
  <2>6. UNCHANGED <<sent, req, receipts>>
    BY <1>11 DEF JobCommit
  <2>7. [q \in Requests |-> AnswerOf(q)]' = [q \in Requests |-> AnswerOf(q)]
    BY <2>6 DEF AnswerOf
  <2>8. Log!SystemEvent
    BY <2>5, <2>6, <2>7 DEF Log!SystemEvent
  <2> QED  BY <2>8 DEF Log!Next
<1>12. CASE DuePasses \/ DeadlineLock \/ UNCHANGED vars
  <2>1. UNCHANGED <<sent, req, receipts, head>>
    BY <1>12 DEF DuePasses, DeadlineLock, vars
  <2>2. [q \in Requests |-> AnswerOf(q)]' = [q \in Requests |-> AnswerOf(q)]
    BY <2>1 DEF AnswerOf
  <2> QED  BY <2>1, <2>2 DEF Log!abstractVars
<1> QED
  BY <1>2, <1>3, <1>4, <1>5, <1>6, <1>7, <1>8, <1>9, <1>10, <1>11, <1>12 DEF Next, Step, Fail

(* Receipts are honest in every reachable state. *)
THEOREM ReceiptsAlwaysHonest == Spec => []ReceiptsHonest
<1>1. TypeOK /\ ReceiptsHonest /\ [Next]_vars => TypeOK' /\ ReceiptsHonest'
  BY NextTypes, NextReceipts
<1>2. Init => TypeOK /\ ReceiptsHonest
  BY InitTypes, InitReceipts
<1> QED  BY <1>1, <1>2, PTL DEF Spec

(* The command bus keeps the promise of CommandLog: every key executes at   *)
(* most one command, whole, and no caller is told otherwise.                *)
THEOREM BusImplementsLog == Spec => ImplementsCommandLog
<1>1. Spec => [](TypeOK /\ ReceiptsHonest)
  BY TypeCorrect, ReceiptsAlwaysHonest, PTL
<1> QED  BY <1>1, InitRefines, NextRefines, PTL DEF Spec, ImplementsCommandLog, Log!Spec

----
(* Effects, versions and contention: what the receipts say of the records.  *)

Receipted == {k \in Keys : receipts[k] # None}
LockReceipts == {k \in Keys : receipts[k] # None /\ receipts[k].cmd.type = "archive.lock"}
ReceiptsOn(c) == {k \in Keys : receipts[k] # None /\ receipts[k].cmd.client = c}
OtherReceipts(r) == {k \in Keys : receipts[k] # None /\ receipts[k].by # r}
JobRows == {row \in audit : row.event[1] = System}
Others(r) == Cardinality(OtherReceipts(r)) + Cardinality(JobRows)

(* A set of one is named, not counted: which receipt locked the archive.    *)
EffectsInv ==
  /\ \A r \in Requests :
       sent[r].cmd.type \in {"archive.note", "payment.record"}
         => (Executed(r) <=> <<sent[r].cmd.type, r>> \in records)
  /\ sealJobs = IF lock = "OPEN" THEN 0 ELSE 1
  /\ IF lock = "PARTNER" THEN \E k \in Keys : LockReceipts = {k} ELSE LockReceipts = {}

VersionsInv ==
  /\ IsFiniteSet(Receipted)
  /\ \A c \in Clients :
       /\ {receipts[k].cmd.expected : k \in ReceiptsOn(c)} = 0..(clients[c] - 1)
       /\ Cardinality(ReceiptsOn(c)) = clients[c]

(* A handler whose head is no longer the head has lost a race since it read *)
(* it, unless the commit that moved the head was its own.                   *)
Lost(r) ==
  /\ req[r].pc \in {"build", "batch", "receipt", "recheck"}
  /\ req[r].head # head
  /\ ~Executed(r)

ContentionInv ==
  /\ IsFiniteSet(JobRows)
  /\ \A r \in Requests :
       /\ req[r].attempt <= Others(r)
       /\ Lost(r) => req[r].attempt + 1 <= Others(r)
       /\ req[r].reply = "busy" => MaxAttempts <= Others(r)

(* What a batch that commits adds to the receipts. *)
LEMMA CommitAdds ==
  ASSUME TypeOK, NEW r \in Requests, CommitEffects(r)
  PROVE  LET k == sent[r].key  c == sent[r].cmd IN
         /\ k \in Keys /\ c \in Commands /\ sent' = sent
         /\ receipts[k] = None /\ receipts'[k] # None
         /\ receipts'[k].by = r /\ receipts'[k].cmd = c
         /\ \A j \in Keys \ {k} : receipts'[j] = receipts[j]
<1> DEFINE k == sent[r].key
           c == sent[r].cmd
           receipt == [by |-> r, cmd |-> c]
<1>1. k \in Keys /\ c \in Commands /\ receipts \in [Keys -> [by : Requests, cmd : Commands] \cup {None}]
  BY DEF TypeOK
<1>2. receipts' = [receipts EXCEPT ![k] = receipt] /\ receipts[k] = None /\ sent' = sent
  BY DEF CommitEffects, BatchHolds, Mine
<1>3. receipt \in [by : Requests, cmd : Commands]
  BY <1>1
<1>4. receipt # None
  BY <1>3, NoReceiptAssumption
<1>5. receipts'[k] = receipt /\ \A j \in Keys \ {k} : receipts'[j] = receipts[j]
  BY <1>1, <1>2
<1> QED  BY <1>1, <1>2, <1>4, <1>5

(* So each set of receipts gains the key of the request, or nothing. *)
LEMMA CommitSets ==
  ASSUME TypeOK, NEW r \in Requests, CommitEffects(r)
  PROVE  LET k == sent[r].key  c == sent[r].cmd IN
         /\ Receipted' = Receipted \cup {k}
         /\ LockReceipts' = IF c.type = "archive.lock" THEN LockReceipts \cup {k} ELSE LockReceipts
         /\ \A d \in Clients : ReceiptsOn(d)' = IF c.client = d THEN ReceiptsOn(d) \cup {k} ELSE ReceiptsOn(d)
         /\ \A q \in Requests : OtherReceipts(q)' = IF q = r THEN OtherReceipts(q) ELSE OtherReceipts(q) \cup {k}
         /\ \A q \in Requests : Executed(q)' <=> q = r \/ Executed(q)
         /\ k \notin Receipted /\ k \notin LockReceipts
         /\ \A d \in Clients : k \notin ReceiptsOn(d)
         /\ \A q \in Requests : k \notin OtherReceipts(q)
<1> DEFINE k == sent[r].key
           c == sent[r].cmd
<1>1. /\ k \in Keys /\ receipts[k] = None /\ receipts'[k] # None
      /\ receipts'[k].by = r /\ receipts'[k].cmd = c
      /\ \A j \in Keys \ {k} : receipts'[j] = receipts[j]
  BY CommitAdds
<1> HIDE DEF k, c
<1>2. Receipted' = Receipted \cup {k} /\ k \notin Receipted
  BY <1>1 DEF Receipted
<1>3. LockReceipts' = (IF c.type = "archive.lock" THEN LockReceipts \cup {k} ELSE LockReceipts) /\ k \notin LockReceipts
  BY <1>1 DEF LockReceipts
<1>4. ASSUME NEW d \in Clients
      PROVE  ReceiptsOn(d)' = (IF c.client = d THEN ReceiptsOn(d) \cup {k} ELSE ReceiptsOn(d)) /\ k \notin ReceiptsOn(d)
  BY <1>1 DEF ReceiptsOn
<1>5. ASSUME NEW q \in Requests
      PROVE  OtherReceipts(q)' = (IF q = r THEN OtherReceipts(q) ELSE OtherReceipts(q) \cup {k}) /\ k \notin OtherReceipts(q)
  BY <1>1, <1>5 DEF OtherReceipts
<1>6. ASSUME NEW q \in Requests PROVE Executed(q)' <=> q = r \/ Executed(q)
  BY <1>1, <1>6 DEF Executed
<1> QED  BY <1>2, <1>3, <1>4, <1>5, <1>6 DEF k, c

(* The batch of a handler and the lock of the deadline both assert that the *)
(* engagement is open and has no seal job: whichever is first, one lock.    *)
THEOREM NextEffects == TypeOK /\ EffectsInv /\ [Next]_vars => EffectsInv'
<1> SUFFICES ASSUME TypeOK, EffectsInv, [Next]_vars PROVE EffectsInv'
  OBVIOUS
<1> USE DEF data, chain
<1>1. ASSUME NEW r \in Requests, CommitEffects(r) PROVE EffectsInv'
  <2> DEFINE c == sent[r].cmd
  <2>1. sent' = sent /\ c \in Commands
    BY <1>1, CommitAdds
  <2>2. /\ LockReceipts' = IF c.type = "archive.lock" THEN LockReceipts \cup {sent[r].key} ELSE LockReceipts
        /\ \A q \in Requests : Executed(q)' <=> q = r \/ Executed(q)
        /\ sent[r].key \in Keys
    BY <1>1, CommitSets, CommitAdds
  <2>3. /\ records' = IF c.type \in {"archive.note", "payment.record"} THEN records \cup {<<c.type, r>>} ELSE records
        /\ c.type = "archive.lock" => lock = "OPEN" /\ sealJobs = 0 /\ lock' = "PARTNER" /\ sealJobs' = 1
        /\ c.type # "archive.lock" => lock' = lock /\ sealJobs' = sealJobs
    BY <1>1 DEF CommitEffects, Mutate, BatchHolds, MutationAsserts
  <2> HIDE DEF c
  <2>4. ASSUME NEW q \in Requests, sent'[q].cmd.type \in {"archive.note", "payment.record"}
        PROVE  Executed(q)' <=> <<sent'[q].cmd.type, q>> \in records'
    <3>1. CASE q = r
      BY <3>1, <2>1, <2>2, <2>3, <2>4 DEF c
    <3>2. CASE q # r
      BY <3>2, <2>1, <2>2, <2>3, <2>4 DEF EffectsInv
    <3> QED  BY <3>1, <3>2
  <2>5. sealJobs' = IF lock' = "OPEN" THEN 0 ELSE 1
    BY <2>3 DEF EffectsInv
  <2>6. IF lock' = "PARTNER" THEN \E k \in Keys : LockReceipts' = {k} ELSE LockReceipts' = {}
    BY <2>2, <2>3 DEF EffectsInv
  <2> QED  BY <2>4, <2>5, <2>6 DEF EffectsInv
<1>2. ASSUME DeadlineLock PROVE EffectsInv'
  <2>1. \A q \in Requests : Executed(q)' <=> Executed(q)
    BY <1>2 DEF DeadlineLock, Executed
  <2>2. LockReceipts' = LockReceipts
    BY <1>2 DEF DeadlineLock, LockReceipts
  <2> QED  BY <1>2, <2>1, <2>2 DEF DeadlineLock, EffectsInv
<1>3. ASSUME UNCHANGED <<sent, receipts, records, lock, sealJobs>> PROVE EffectsInv'
  BY <1>3 DEF EffectsInv, Executed, LockReceipts
<1>4. \/ \E r \in Requests : CommitEffects(r)
      \/ DeadlineLock
      \/ UNCHANGED <<sent, receipts, records, lock, sealJobs>>
  BY DEF Next, Step, Fail, vars, Lookup, Gate, ReadHead, Build, BatchCommits, BatchAborts, BatchFaults,
         BatchCommitsUnseen, ReadReceiptAgain, ReadHeadAgain, Crash, DuePasses, JobCommit
<1> QED  BY <1>1, <1>2, <1>3, <1>4

(* A command takes effect whole or not at all, in every reachable state:    *)
(* its note or payment is recorded exactly when it has a receipt, and the   *)
(* engagement has one seal job, and at most one lock, of the Partner's or   *)
(* of the deadline.                                                         *)
THEOREM EffectsAreAtomic == Spec => []AtomicEffects
<1>1. Init => EffectsInv
  BY DEF Init, EffectsInv, Executed, LockReceipts
<1>2. EffectsInv => AtomicEffects
  <2> SUFFICES ASSUME EffectsInv PROVE AtomicEffects
    OBVIOUS
  <2>1. Cardinality(LockReceipts) = IF lock = "PARTNER" THEN 1 ELSE 0
    BY FS_EmptySet, FS_Singleton DEF EffectsInv
  <2> QED  BY <2>1 DEF EffectsInv, AtomicEffects, LockReceipts
<1>3. TypeOK /\ EffectsInv /\ [Next]_vars => TypeOK' /\ EffectsInv'
  BY NextTypes, NextEffects
<1> QED  BY <1>1, <1>2, <1>3, InitTypes, PTL DEF Spec

(* A client's version counts the receipts on it, and each of them expected  *)
(* the version that the ones before it had made.                            *)
THEOREM NextVersions == TypeOK /\ VersionsInv /\ [Next]_vars => VersionsInv'
<1> SUFFICES ASSUME TypeOK, VersionsInv, [Next]_vars PROVE VersionsInv'
  OBVIOUS
<1> USE DEF data, chain
<1>1. ASSUME NEW r \in Requests, CommitEffects(r) PROVE VersionsInv'
  <2> DEFINE k == sent[r].key
             c == sent[r].cmd
  <2>1. /\ k \in Keys /\ c \in Commands /\ receipts'[k].cmd = c
        /\ \A j \in Keys \ {k} : receipts'[j] = receipts[j]
    BY <1>1, CommitAdds
  <2>2. /\ Receipted' = Receipted \cup {k}
        /\ \A d \in Clients : ReceiptsOn(d)' = IF c.client = d THEN ReceiptsOn(d) \cup {k} ELSE ReceiptsOn(d)
        /\ \A d \in Clients : k \notin ReceiptsOn(d)
    BY <1>1, CommitSets
  <2>3. /\ c.client # None => clients[c.client] = c.expected
        /\ clients' = IF c.client = None THEN clients ELSE [clients EXCEPT ![c.client] = clients[c.client] + 1]
    BY <1>1 DEF CommitEffects, Mutate, BatchHolds, MutationAsserts, VersionMatches
  <2> HIDE DEF k, c
  <2>4. IsFiniteSet(Receipted')
    BY <2>2, FS_AddElement DEF VersionsInv
  <2>5. ASSUME NEW d \in Clients
        PROVE  /\ {receipts'[j].cmd.expected : j \in ReceiptsOn(d)'} = 0..(clients'[d] - 1)
               /\ Cardinality(ReceiptsOn(d)') = clients'[d]
    <3>1. clients[d] \in Nat /\ ReceiptsOn(d) \subseteq Receipted /\ ReceiptsOn(d) \subseteq Keys
      BY DEF TypeOK, ReceiptsOn, Receipted
    <3>2. \A j \in ReceiptsOn(d) : receipts'[j] = receipts[j]
      BY <2>1, <2>2, <3>1
    <3>3. CASE c.client = d
      <4>1. c.client # None
        BY <3>3, NoneAssumption
      <4>2. clients'[d] = clients[d] + 1 /\ c.expected = clients[d]
        BY <2>3, <3>3, <4>1 DEF TypeOK
      <4>3. ReceiptsOn(d)' = ReceiptsOn(d) \cup {k}
        BY <2>2, <3>3
      <4>4. IsFiniteSet(ReceiptsOn(d))
        BY <3>1, FS_Subset DEF VersionsInv
      <4>5. Cardinality(ReceiptsOn(d)') = clients[d] + 1
        BY <2>2, <4>3, <4>4, FS_AddElement DEF VersionsInv
      <4>6. {receipts'[j].cmd.expected : j \in ReceiptsOn(d)'}
              = {receipts[j].cmd.expected : j \in ReceiptsOn(d)} \cup {c.expected}
        BY <2>1, <3>2, <4>3
      <4>7. {receipts[j].cmd.expected : j \in ReceiptsOn(d)} = 0..(clients[d] - 1)
        BY DEF VersionsInv
      <4>8. 0..(clients[d] - 1) \cup {clients[d]} = 0..(clients[d] + 1 - 1)
        BY <3>1
      <4> QED  BY <4>2, <4>5, <4>6, <4>7, <4>8
    <3>4. CASE c.client # d
      <4>1. ReceiptsOn(d)' = ReceiptsOn(d) /\ clients'[d] = clients[d]
        BY <2>2, <2>3, <3>4 DEF TypeOK
      <4>2. {receipts'[j].cmd.expected : j \in ReceiptsOn(d)'} = {receipts[j].cmd.expected : j \in ReceiptsOn(d)}
        BY <3>2, <4>1
      <4> QED  BY <4>1, <4>2 DEF VersionsInv
    <3> QED  BY <3>3, <3>4
  <2> QED  BY <2>4, <2>5 DEF VersionsInv
<1>2. ASSUME UNCHANGED <<receipts, clients>> PROVE VersionsInv'
  BY <1>2 DEF VersionsInv, Receipted, ReceiptsOn
<1>3. (\E r \in Requests : CommitEffects(r)) \/ UNCHANGED <<receipts, clients>>
  BY DEF Next, Step, Fail, vars, Lookup, Gate, ReadHead, Build, BatchCommits, BatchAborts, BatchFaults,
         BatchCommitsUnseen, ReadReceiptAgain, ReadHeadAgain, Crash, DuePasses, JobCommit, DeadlineLock
<1> QED  BY <1>1, <1>2, <1>3

----
(* The counts of commits are counts. *)
LEMMA OthersCount ==
  ASSUME VersionsInv, ContentionInv, NEW r \in Requests
  PROVE  /\ IsFiniteSet(OtherReceipts(r))
         /\ Cardinality(OtherReceipts(r)) \in Nat /\ Cardinality(JobRows) \in Nat
         /\ Others(r) \in Nat
<1>1. OtherReceipts(r) \subseteq Receipted
  BY DEF OtherReceipts, Receipted
<1>2. IsFiniteSet(OtherReceipts(r))
  BY <1>1, FS_Subset DEF VersionsInv
<1> QED  BY <1>2, FS_CardinalityType DEF ContentionInv, Others

(* A step of one handler that commits nothing. *)
LEMMA QuietContention ==
  ASSUME TypeOK, ContentionInv, NEW r \in Requests, UNCHANGED <<receipts, head, audit>>,
         NEW s, req' = [req EXCEPT ![r] = s],
         s.attempt <= Others(r),
         s.pc \in {"build", "batch", "receipt", "recheck"} /\ s.head # head /\ ~Executed(r) => s.attempt + 1 <= Others(r),
         s.reply = "busy" => MaxAttempts <= Others(r)
  PROVE  ContentionInv'
<1>1. req'[r] = s /\ \A q \in Requests \ {r} : req'[q] = req[q]
  BY DEF TypeOK
<1>2. JobRows' = JobRows
  BY DEF JobRows
<1>3. ASSUME NEW q \in Requests
      PROVE  Others(q)' = Others(q) /\ (Executed(q)' <=> Executed(q))
  BY <1>2 DEF Others, OtherReceipts, Executed
<1>4. ASSUME NEW q \in Requests
      PROVE  /\ req'[q].attempt <= Others(q)'
             /\ Lost(q)' => req'[q].attempt + 1 <= Others(q)'
             /\ req'[q].reply = "busy" => MaxAttempts <= Others(q)'
  <2>1. CASE q = r
    BY <2>1, <1>1, <1>3 DEF Lost
  <2>2. CASE q # r
    BY <2>2, <1>1, <1>3 DEF Lost, ContentionInv
  <2> QED  BY <2>1, <2>2
<1> QED  BY <1>2, <1>4 DEF ContentionInv

(* A commit of one handler is a commit the others have lost to. *)
LEMMA CommitContention ==
  ASSUME TypeOK, VersionsInv, ContentionInv, NEW r \in Requests, CommitEffects(r),
         NEW s, req' = [req EXCEPT ![r] = s], s.attempt <= Others(r), s.reply # "busy"
  PROVE  ContentionInv'
<1>1. req'[r] = s /\ \A q \in Requests \ {r} : req'[q] = req[q]
  BY DEF TypeOK
<1>2. JobRows' = JobRows
  <2>1. audit' = audit \cup ChainRows(req[r].head, EventsOf(r))
    BY DEF CommitEffects
  <2>2. ASSUME NEW row \in ChainRows(req[r].head, EventsOf(r)) PROVE row.event[1] # System
    <3>1. Parts(sent[r].cmd) \in Nat /\ Len(EventsOf(r)) = Parts(sent[r].cmd)
      <4>1. Parts(sent[r].cmd) \in Nat
        BY DEF Parts
      <4> QED  BY <4>1, EventsType DEF EventsOf
    <3>2. PICK i \in 1..Len(EventsOf(r)) : row.event = EventsOf(r)[i]
      BY DEF ChainRows
    <3>3. EventsOf(r)[i] = <<r, i>>
      BY <3>1 DEF EventsOf
    <3> QED  BY <3>2, <3>3, AuthorAssumption
  <2> QED  BY <2>1, <2>2 DEF JobRows
<1>3. ASSUME NEW q \in Requests
      PROVE  /\ Others(q)' = IF q = r THEN Others(q) ELSE Others(q) + 1
             /\ Executed(q)' <=> q = r \/ Executed(q)
             /\ Others(q) \in Nat
  <2>1. /\ OtherReceipts(q)' = IF q = r THEN OtherReceipts(q) ELSE OtherReceipts(q) \cup {sent[r].key}
        /\ sent[r].key \notin OtherReceipts(q)
        /\ Executed(q)' <=> q = r \/ Executed(q)
    BY CommitSets
  <2>2. /\ IsFiniteSet(OtherReceipts(q)) /\ Others(q) \in Nat
        /\ Cardinality(OtherReceipts(q)) \in Nat /\ Cardinality(JobRows) \in Nat
    BY OthersCount
  <2>3. Cardinality(OtherReceipts(q) \cup {sent[r].key}) = Cardinality(OtherReceipts(q)) + 1
    BY <2>1, <2>2, FS_AddElement
  <2> QED  BY <2>1, <2>2, <2>3, <1>2 DEF Others
<1>4. ASSUME NEW q \in Requests
      PROVE  /\ req'[q].attempt <= Others(q)'
             /\ Lost(q)' => req'[q].attempt + 1 <= Others(q)'
             /\ req'[q].reply = "busy" => MaxAttempts <= Others(q)'
  <2>1. CASE q = r
    BY <2>1, <1>1, <1>3 DEF Lost
  <2>2. CASE q # r
    <3>1. req'[q] = req[q] /\ Others(q)' = Others(q) + 1 /\ Others(q) \in Nat
      BY <2>2, <1>1, <1>3
    <3>2. req[q].attempt \in Nat /\ MaxAttempts \in Nat
      BY AttemptsAssumption DEF TypeOK, HandlerStates
    <3>3. req[q].attempt <= Others(q) /\ (req[q].reply = "busy" => MaxAttempts <= Others(q))
      BY DEF ContentionInv
    <3> QED  BY <3>1, <3>2, <3>3
  <2> QED  BY <2>1, <2>2
<1> QED  BY <1>2, <1>4 DEF ContentionInv

(* A handler that goes on, without looking at the head. *)
LEMMA GoToContention ==
  ASSUME TypeOK, ContentionInv, NEW r \in Requests, NEW from, NEW to, GoTo(r, from, to),
         UNCHANGED <<receipts, head, audit>>,
         to \in {"build", "batch", "receipt", "recheck"} => from \in {"build", "batch", "receipt", "recheck"}
  PROVE  ContentionInv'
<1> DEFINE s == [req[r] EXCEPT !.pc = to]
<1>1. s.pc = to /\ s.attempt = req[r].attempt /\ s.head = req[r].head /\ s.reply = req[r].reply
  BY DEF TypeOK, HandlerStates
<1>2. req' = [req EXCEPT ![r] = s] /\ req[r].pc = from
  BY DEF GoTo
<1> HIDE DEF s
<1>3. /\ s.attempt <= Others(r)
      /\ s.pc \in {"build", "batch", "receipt", "recheck"} /\ s.head # head /\ ~Executed(r) => s.attempt + 1 <= Others(r)
      /\ s.reply = "busy" => MaxAttempts <= Others(r)
  BY <1>1, <1>2 DEF ContentionInv, Lost
<1> QED  BY <1>2, <1>3, QuietContention

(* A handler that replies, or dies. *)
LEMMA EndContention ==
  ASSUME TypeOK, VersionsInv, ContentionInv, NEW r \in Requests, NEW pc \in {"replied", "lost"}, NEW answer,
         req' = [req EXCEPT ![r] = At(pc, answer)], UNCHANGED <<receipts, head, audit>>,
         answer = "busy" => MaxAttempts <= Others(r)
  PROVE  ContentionInv'
<1>1. At(pc, answer).attempt = 0 /\ At(pc, answer).pc = pc /\ At(pc, answer).reply = answer
  BY DEF At
<1>2. 0 <= Others(r)
  BY OthersCount
<1> QED  BY <1>1, <1>2, QuietContention

(* A handler takes another attempt, or gives up, only for the commits of    *)
(* others that it lost to.                                                  *)
THEOREM NextContention ==
  TypeOK /\ ChainIntact /\ ReceiptsHonest /\ VersionsInv /\ ContentionInv /\ [Next]_vars => ContentionInv'
<1> SUFFICES ASSUME TypeOK, ChainIntact, ReceiptsHonest, VersionsInv, ContentionInv, [Next]_vars PROVE ContentionInv'
  OBVIOUS
<1> USE DEF data, chain
<1>1. ASSUME NEW r \in Requests, NEW from, NEW answer, Reply(r, from, answer), UNCHANGED <<receipts, head, audit>>,
             answer = "busy" => MaxAttempts <= Others(r)
      PROVE  ContentionInv'
  BY <1>1, EndContention DEF Reply
<1>2. ASSUME NEW r \in Requests, Lookup(r) \/ ReadReceiptAgain(r) PROVE ContentionInv'
  <2>1. CASE \E from \in {"lookup", "receipt"} : Replay(r, from)
    BY <2>1, <1>1, <1>2 DEF Replay, Lookup, ReadReceiptAgain
  <2>2. CASE GoTo(r, "lookup", IF Gated(sent[r].cmd) THEN "gate" ELSE "head")
    BY <2>2, <1>2, GoToContention DEF Lookup, ReadReceiptAgain
  <2>3. CASE GoTo(r, "receipt", "recheck")
    BY <2>3, <1>2, GoToContention DEF Lookup, ReadReceiptAgain
  <2> QED  BY <2>1, <2>2, <2>3, <1>2 DEF Lookup, ReadReceiptAgain
<1>3. ASSUME NEW r \in Requests, Gate(r) \/ Build(r) PROVE ContentionInv'
  <2>1. UNCHANGED <<receipts, head, audit>>
    BY <1>3 DEF Gate, Build
  <2>2. CASE \E from \in {"gate", "build"} : Reply(r, from, "refused")
    BY <2>1, <2>2, <1>1
  <2>3. CASE GoTo(r, "gate", "head") \/ GoTo(r, "build", "batch")
    BY <2>1, <2>3, GoToContention
  <2> QED  BY <2>2, <2>3, <1>3 DEF Gate, Build
<1>4. ASSUME NEW r \in Requests, ReadHead(r) PROVE ContentionInv'
  <2> DEFINE s == [req[r] EXCEPT !.pc = "build", !.head = head]
  <2>1. s.pc = "build" /\ s.head = head /\ s.attempt = req[r].attempt /\ s.reply = req[r].reply
    BY DEF TypeOK, HandlerStates
  <2>2. req' = [req EXCEPT ![r] = s] /\ UNCHANGED <<receipts, head, audit>>
    BY <1>4 DEF ReadHead
  <2> HIDE DEF s
  <2>3. s.attempt <= Others(r) /\ (s.reply = "busy" => MaxAttempts <= Others(r))
    BY <2>1 DEF ContentionInv
  <2> QED  BY <2>1, <2>2, <2>3, QuietContention
<1>5. ASSUME NEW r \in Requests, BatchCommits(r) PROVE ContentionInv'
  <2>1. req' = [req EXCEPT ![r] = At("replied", "ok")] /\ CommitEffects(r)
    BY <1>5 DEF BatchCommits, Reply
  <2>2. At("replied", "ok").attempt <= Others(r) /\ At("replied", "ok").reply # "busy"
    BY OthersCount DEF At
  <2> QED  BY <2>1, <2>2, CommitContention
<1>6. ASSUME NEW r \in Requests, BatchAborts(r) \/ BatchFaults(r) \/ BatchCommitsUnseen(r) PROVE ContentionInv'
  <2>1. PICK failure \in {"assertion", "fault"} :
          req' = [req EXCEPT ![r] = [req[r] EXCEPT !.pc = "receipt", !.failure = failure]]
    BY <1>6 DEF BatchAborts, BatchFaults, BatchCommitsUnseen
  <2> DEFINE s == [req[r] EXCEPT !.pc = "receipt", !.failure = failure]
  <2>2. s.pc = "receipt" /\ s.head = req[r].head /\ s.attempt = req[r].attempt /\ s.reply = req[r].reply
    BY DEF TypeOK, HandlerStates
  <2>3. req[r].pc = "batch" /\ req[r].reply = "none"
    BY <1>6 DEF BatchAborts, BatchFaults, BatchCommitsUnseen, ReceiptsHonest
  <2>4. req' = [req EXCEPT ![r] = s]
    BY <2>1
  <2> HIDE DEF s
  <2>5. /\ s.attempt <= Others(r) /\ s.reply # "busy"
        /\ s.head # head /\ ~Executed(r) => s.attempt + 1 <= Others(r)
    BY <2>2, <2>3 DEF ContentionInv, Lost
  <2>6. CASE CommitEffects(r)
    BY <2>4, <2>5, <2>6, CommitContention
  <2>7. CASE UNCHANGED <<receipts, head, audit>>
    BY <2>4, <2>5, <2>7, QuietContention
  <2> QED  BY <2>6, <2>7, <1>6 DEF BatchAborts, BatchFaults, BatchCommitsUnseen
<1>7. ASSUME NEW r \in Requests, ReadHeadAgain(r) PROVE ContentionInv'
  <2>1. UNCHANGED <<receipts, head, audit>> /\ req[r].pc = "recheck"
    BY <1>7 DEF ReadHeadAgain, Reply
  <2>2. ~Executed(r) /\ req[r].reply = "none"
    BY <2>1 DEF ReceiptsHonest, Unsettled
  <2>3. head # req[r].head => req[r].attempt + 1 <= Others(r)
    BY <2>1, <2>2 DEF ContentionInv, Lost
  <2>4. CASE /\ ~HeadUnmoved(r)
             /\ req' = [req EXCEPT ![r] = [@ EXCEPT !.pc = "head", !.attempt = req[r].attempt + 1, !.failure = "none"]]
    <3> DEFINE s == [req[r] EXCEPT !.pc = "head", !.attempt = req[r].attempt + 1, !.failure = "none"]
    <3>1. s.pc = "head" /\ s.attempt = req[r].attempt + 1 /\ s.reply = "none"
      BY <2>2 DEF TypeOK, HandlerStates
    <3>2. req' = [req EXCEPT ![r] = s]
      BY <2>4
    <3> HIDE DEF s
    <3> QED  BY <2>1, <2>3, <2>4, <3>1, <3>2, QuietContention DEF HeadUnmoved
  <2>5. CASE ~HeadUnmoved(r) /\ req[r].attempt + 1 = MaxAttempts /\ Reply(r, "recheck", "busy")
    BY <2>1, <2>3, <2>5, <1>1 DEF HeadUnmoved
  <2>6. CASE \E answer \in {"conflict", "error"} : Reply(r, "recheck", answer)
    BY <2>1, <2>6, <1>1
  <2> QED  BY <2>4, <2>5, <2>6, <1>7 DEF ReadHeadAgain
<1>8. ASSUME NEW r \in Requests, Crash(r) PROVE ContentionInv'
  <2>1. req' = [req EXCEPT ![r] = At("lost", "none")] /\ UNCHANGED <<receipts, head, audit>>
    BY <1>8 DEF Crash
  <2>2. "none" = "busy" => MaxAttempts <= Others(r)
    OBVIOUS
  <2> QED  BY <2>1, <2>2, EndContention
<1>9. ASSUME JobCommit PROVE ContentionInv'
  <2> DEFINE evs == << <<System, 1>> >>
             row == [seq |-> head.seq + 1, event |-> <<System, 1>>,
                     prev |-> Link(head.hash, evs, 0), hash |-> Link(head.hash, evs, 1)]
  <2>1. ChainRows(head, evs) = {row}
    <3>1. Len(evs) = 1 /\ evs[1] = <<System, 1>>
      OBVIOUS
    <3>2. 1..Len(evs) = {1} /\ 1 - 1 = 0
      BY <3>1
    <3> HIDE DEF evs
    <3> QED  BY <3>1, <3>2 DEF ChainRows
  <2>2. head.seq \in Nat /\ row \notin audit
    <3>1. head.seq \in Nat
      BY DEF TypeOK, Heads
    <3>2. head.seq + 1 \notin {e.seq : e \in audit}
      <4>1. {e.seq : e \in audit} = 1..head.seq
        BY DEF ChainIntact, Chained
      <4>2. head.seq + 1 \notin 1..head.seq
        BY <3>1
      <4> QED  BY <4>1, <4>2
    <3>3. row.seq = head.seq + 1
      OBVIOUS
    <3> HIDE DEF row
    <3> QED  BY <3>1, <3>2, <3>3
  <2>3. JobRows' = JobRows \cup {row} /\ row \notin JobRows
    <3>1. audit' = audit \cup {row} /\ row.event[1] = System
      BY <1>9, <2>1 DEF JobCommit
    <3> HIDE DEF row
    <3> QED  BY <2>2, <3>1 DEF JobRows
  <2> HIDE DEF evs, row
  <2>4. IsFiniteSet(JobRows') /\ Cardinality(JobRows') = Cardinality(JobRows) + 1
    BY <2>3, FS_AddElement DEF ContentionInv
  <2>5. UNCHANGED <<req, receipts>>
    BY <1>9 DEF JobCommit
  <2>6. ASSUME NEW q \in Requests
        PROVE  /\ req'[q].attempt <= Others(q)'
               /\ Lost(q)' => req'[q].attempt + 1 <= Others(q)'
               /\ req'[q].reply = "busy" => MaxAttempts <= Others(q)'
    <3>1. OtherReceipts(q)' = OtherReceipts(q)
      BY <2>5 DEF OtherReceipts
    <3>2. Others(q)' = Others(q) + 1 /\ Others(q) \in Nat
      BY <2>4, <3>1, OthersCount DEF Others
    <3>3. req[q].attempt \in Nat /\ MaxAttempts \in Nat
      BY AttemptsAssumption DEF TypeOK, HandlerStates
    <3> QED  BY <2>5, <3>2, <3>3 DEF ContentionInv
  <2> QED  BY <2>4, <2>6 DEF ContentionInv
<1>10. ASSUME UNCHANGED <<req, receipts, head, audit>> PROVE ContentionInv'
  BY <1>10 DEF ContentionInv, Lost, Executed, Others, OtherReceipts, JobRows
<1>11. DuePasses \/ DeadlineLock \/ UNCHANGED vars => UNCHANGED <<req, receipts, head, audit>>
  BY DEF DuePasses, DeadlineLock, vars
<1> QED
  BY <1>2, <1>3, <1>4, <1>5, <1>6, <1>7, <1>8, <1>9, <1>10, <1>11 DEF Next, Step, Fail

(* No update of a client is lost, and a handler starts over, or answers     *)
(* that the workspace is busy, only because others got through.             *)
THEOREM NoUpdateIsLost == Spec => []NoLostUpdate
<1> DEFINE BusInv == TypeOK /\ ChainIntact /\ ReceiptsHonest /\ VersionsInv /\ ContentionInv
<1>1. Init => BusInv
  <2> SUFFICES ASSUME Init PROVE VersionsInv /\ ContentionInv
    BY InitTypes, InitChain, InitReceipts
  <2>1. /\ Receipted = {} /\ JobRows = {}
        /\ \A c \in Clients : ReceiptsOn(c) = {} /\ clients[c] = 0
        /\ \A r \in Requests : OtherReceipts(r) = {} /\ req[r] = At("lookup", "none")
    BY DEF Init, Receipted, JobRows, ReceiptsOn, OtherReceipts
  <2>2. VersionsInv
    BY <2>1, FS_EmptySet DEF VersionsInv
  <2>3. ContentionInv
    BY <2>1, FS_EmptySet DEF ContentionInv, Others, Lost, At
  <2> QED  BY <2>2, <2>3
<1>2. BusInv /\ [Next]_vars => BusInv'
  BY NextTypes, NextChain, NextReceipts, NextVersions, NextContention
<1>3. BusInv => NoLostUpdate
  BY DEF VersionsInv, ContentionInv, NoLostUpdate, ReceiptsOn, Others, OtherReceipts, JobRows, JobCommits
<1> QED  BY <1>1, <1>2, <1>3, PTL DEF Spec

===============================================================================
