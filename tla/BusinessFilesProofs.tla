-------------------------- MODULE BusinessFilesProofs --------------------------
(***************************************************************************)
(* What holds of files and answers for any number of files, contents,      *)
(* requests, sweeps and faults: types, that a file which is staged or      *)
(* committed has its bytes, that commands answer what happened, that the   *)
(* answers to a request form a chain, and that locked content stays.       *)
(***************************************************************************)
EXTENDS BusinessFiles, FiniteSetTheorems, SequenceTheorems, TLAPS

(* A row that the sweep may select. *)
Uncommitted == {"INITIALIZED", "STAGED", "REJECTED"}

(* The sweep's order has the uncommitted files, each once. *)
Listed ==
  /\ \A i, j \in 1..Len(order) : order[i] = order[j] => i = j
  /\ \A i \in 1..Len(order) : file[order[i]].state \in Uncommitted
  /\ \A f \in Files : file[f].state \in Uncommitted => \E i \in 1..Len(order) : order[i] = f

(* A request that was answered has its current answer. *)
Answered == pbc.status \notin {"ABSENT", "PENDING_UPLOAD"} => pbc.current \in 1..Len(answers)

(* Commands name the state that they expect, and those that change a file   *)
(* name one.                                                                *)
WellFormed(c) ==
  /\ c.op = "stage" => c.seen = "INITIALIZED" /\ c.digest \in Digests
  /\ c.op = "commit" => c.seen = "STAGED"
  /\ c.op = "reject" => c.seen \in {"INITIALIZED", "STAGED"}
  /\ c.op \in {"reserve", "stage", "commit", "reject", "submit"} => c.file \in Files

(* The file that a request reserves is new and its own; bytes that were     *)
(* found are there as long as their file waits for them.                    *)
CommandRight(r) == LET c == req[r].command IN
  /\ WellFormed(c)
  /\ req[r].pc = "idle" => c = NoCommand
  /\ req[r].pc = "put" => c.op = "stage"
  /\ c.op = "reserve" =>
       /\ file[c.file].state = "ABSENT"
       /\ \A s \in Requests \ {r} : req[s].command.file # c.file
  /\ req[r].pc = "batch" /\ c.op = "stage" /\ file[c.file].state = "INITIALIZED" => <<c.file, c.digest>> \in objects

(* A sweep deletes only below the prefix of a file that is rejected, as     *)
(* the rows in a table say.                                                 *)
SweepRight(table, s) ==
  /\ s.pc # "idle" => s.todo # <<>>
  /\ \A i \in 1..Len(s.todo) :
       /\ s.todo[i].seen \in Uncommitted
       /\ s.todo[i].seen = "REJECTED" => table[s.todo[i].file].state = "REJECTED"
  /\ s.pc \in {"list", "delete"} => table[s.todo[1].file].state = "REJECTED"
  /\ s.pc = "delete" =>
       /\ Cardinality(s.keys) \in 0..s.budget
       /\ \A o \in s.keys : o[1] = s.todo[1].file

FilesInv ==
  /\ TypeOK
  /\ IsFiniteSet(objects)
  /\ Listed
  /\ Answered
  /\ \A r \in Requests : CommandRight(r)
  /\ \A w \in Sweepers : SweepRight(file, sweep[w])
  /\ BytesAreThere

----
(* Typed records and sequences. *)

RequestStates == [pc : {"idle", "put", "plan", "batch"}, command : Commands]
SweepStates ==
  [pc : {"idle", "row", "list", "delete"}, todo : Seq(Candidates), budget : 0..MaxObjects, keys : SUBSET Objects]

(* What removing an element leaves. *)
LEMMA RemoveAtRight ==
  ASSUME NEW S, NEW s \in Seq(S), NEW i \in 1..Len(s)
  PROVE  /\ RemoveAt(s, i) \in Seq(S)
         /\ Len(RemoveAt(s, i)) = Len(s) - 1
         /\ \A j \in 1..(Len(s) - 1) : RemoveAt(s, i)[j] = IF j < i THEN s[j] ELSE s[j + 1]
<1> DEFINE a == SubSeq(s, 1, i - 1)
           b == SubSeq(s, i + 1, Len(s))
<1>1. a \in Seq(S) /\ Len(a) = i - 1 /\ \A j \in 1..(i - 1) : a[j] = s[j]
  OBVIOUS
<1>2. b \in Seq(S) /\ Len(b) = Len(s) - i /\ \A j \in 1..(Len(s) - i) : b[j] = s[i + j]
  OBVIOUS
<1> HIDE DEF a, b
<1>3. a \o b \in Seq(S) /\ Len(a \o b) = Len(s) - 1
  <2>1. a \o b \in Seq(S) /\ Len(a \o b) = Len(a) + Len(b)
    BY <1>1, <1>2, ConcatProperties
  <2>2. i \in Int /\ Len(s) \in Int
    OBVIOUS
  <2> QED  BY <1>1, <1>2, <2>1, <2>2
<1>4. ASSUME NEW j \in 1..(Len(s) - 1) PROVE (a \o b)[j] = IF j < i THEN s[j] ELSE s[j + 1]
  <2>1. CASE j < i
    BY <1>1, <1>2, <2>1
  <2>2. CASE ~(j < i)
    <3>1. (a \o b)[j] = b[j - Len(a)]
      BY <1>1, <1>2, <2>2
    <3>2. j - Len(a) \in 1..(Len(s) - i) /\ i + (j - Len(a)) = j + 1
      BY <1>1, <2>2
    <3> QED  BY <1>2, <2>2, <3>1, <3>2
  <2> QED  BY <2>1, <2>2
<1> QED  BY <1>3, <1>4 DEF RemoveAt, a, b

(* The idle states are typed. *)
LEMMA IdleTyped == Done \in RequestStates /\ Asleep \in SweepStates
<1>1. NoCommand \in Commands
  BY DEF NoCommand, Command, Commands, Ops, States, AllPurposes
<1>2. 0 \in 0..MaxObjects
  BY LimitsAssumption
<1> QED  BY <1>1, <1>2 DEF Done, Asleep, RequestStates, SweepStates

(* The initial state. *)
LEMMA InitRight == Init => FilesInv
<1> SUFFICES ASSUME Init PROVE FilesInv
  OBVIOUS
<1>1. TypeOK
  <2>1. req \in [Requests -> RequestStates] /\ sweep \in [Sweepers -> SweepStates]
    BY IdleTyped DEF Init
  <2>2. pbc \in PbcRows /\ file \in [Files -> FileRows]
    BY DEF Init, PbcRows, FileRows, Statuses, States, AllPurposes
  <2>3. faults \in 0..MaxFaults
    BY LimitsAssumption DEF Init
  <2> QED  BY <2>1, <2>2, <2>3 DEF Init, TypeOK, RequestStates, SweepStates, Phases
<1>2. IsFiniteSet(objects)
  BY FS_EmptySet DEF Init
<1>3. Listed /\ Answered /\ BytesAreThere
  BY DEF Init, Listed, Uncommitted, Answered, BytesAreThere
<1>4. ASSUME NEW r \in Requests PROVE CommandRight(r)
  BY DEF Init, CommandRight, WellFormed, Done, NoCommand, Command
<1>5. ASSUME NEW w \in Sweepers PROVE SweepRight(file, sweep[w])
  BY DEF Init, SweepRight, Asleep
<1> QED  BY <1>1, <1>2, <1>3, <1>4, <1>5 DEF FilesInv

----
(* The sweep's order. *)

(* An uncommitted file has one position. *)
LEMMA PositionRight ==
  ASSUME FilesInv, NEW f \in Files, file[f].state \in Uncommitted
  PROVE  /\ Position(f) \in 1..Len(order)
         /\ order[Position(f)] = f
         /\ \A i \in 1..Len(order) : order[i] = f => i = Position(f)
<1>1. order \in Seq(Files) /\ DOMAIN order = 1..Len(order)
  BY DEF FilesInv, TypeOK
<1>2. \E i \in DOMAIN order : order[i] = f
  BY <1>1 DEF FilesInv, Listed
<1>3. Position(f) \in DOMAIN order /\ order[Position(f)] = f
  BY <1>2 DEF Position
<1> QED  BY <1>1, <1>3 DEF FilesInv, Listed

(* Of an order without one file the others keep their places in it. *)
LEMMA RemovedFile ==
  ASSUME FilesInv, NEW f \in Files, file[f].state \in Uncommitted,
         NEW o, o = RemoveAt(order, Position(f))
  PROVE  /\ o \in Seq(Files) /\ Len(o) = Len(order) - 1
         /\ \A i, j \in 1..Len(o) : o[i] = o[j] => i = j
         /\ \A i \in 1..Len(o) : o[i] # f /\ file[o[i]].state \in Uncommitted
         /\ \A g \in Files \ {f} : file[g].state \in Uncommitted => \E i \in 1..Len(o) : o[i] = g
<1> DEFINE p == Position(f)
           n == Len(order)
<1>1. order \in Seq(Files) /\ n \in Nat
  BY DEF FilesInv, TypeOK
<1>2. p \in 1..n /\ order[p] = f /\ \A i \in 1..n : order[i] = f => i = p
  BY PositionRight
<1>3. /\ o \in Seq(Files) /\ Len(o) = n - 1
      /\ \A j \in 1..(n - 1) : o[j] = IF j < p THEN order[j] ELSE order[j + 1]
  BY <1>1, <1>2, RemoveAtRight
<1>4. /\ \A i, j \in 1..n : order[i] = order[j] => i = j
      /\ \A i \in 1..n : file[order[i]].state \in Uncommitted
      /\ \A g \in Files : file[g].state \in Uncommitted => \E i \in 1..n : order[i] = g
  BY DEF FilesInv, Listed
<1> HIDE DEF p, n
<1>5. ASSUME NEW i \in 1..(n - 1), NEW j \in 1..(n - 1), o[i] = o[j] PROVE i = j
  <2> DEFINE at(k) == IF k < p THEN k ELSE k + 1
  <2>1. at(i) \in 1..n /\ at(j) \in 1..n /\ order[at(i)] = order[at(j)]
    BY <1>1, <1>2, <1>3, <1>5
  <2>2. at(i) = at(j)
    BY <2>1, <1>4
  <2> QED  BY <1>1, <1>2, <2>2
<1>6. ASSUME NEW i \in 1..(n - 1) PROVE o[i] # f /\ file[o[i]].state \in Uncommitted
  <2>1. PICK k \in 1..n : k # p /\ o[i] = order[k]
    <3>1. CASE i < p
      BY <1>1, <1>2, <1>3, <3>1
    <3>2. CASE ~(i < p)
      BY <1>1, <1>2, <1>3, <3>2
    <3> QED  BY <3>1, <3>2
  <2> QED  BY <1>2, <1>4, <2>1
<1>7. ASSUME NEW g \in Files \ {f}, file[g].state \in Uncommitted PROVE \E i \in 1..(n - 1) : o[i] = g
  <2>1. PICK k \in 1..n : order[k] = g
    BY <1>4, <1>7
  <2>2. CASE k < p
    <3>1. k \in 1..(n - 1) /\ o[k] = g
      BY <1>1, <1>2, <1>3, <2>1, <2>2
    <3> QED  BY <3>1
  <2>3. CASE k > p
    <3>1. k - 1 \in 1..(n - 1) /\ ~(k - 1 < p) /\ k - 1 + 1 = k
      BY <1>1, <1>2, <2>3
    <3>2. o[k - 1] = g
      BY <1>3, <2>1, <3>1
    <3> QED  BY <3>1, <3>2
  <2> QED  BY <1>1, <1>2, <2>1, <2>2, <2>3
<1> QED  BY <1>3, <1>5, <1>6, <1>7 DEF n

(* What Listed asks of a row that changes: it goes to the end of the order  *)
(* while it stays uncommitted,                                              *)
LEMMA TouchedStaysListed ==
  ASSUME FilesInv, NEW f \in Files, file[f].state \in Uncommitted, Touch(f),
         \A g \in Files \ {f} : file'[g].state = file[g].state, file'[f].state \in Uncommitted
  PROVE  Listed' /\ order' \in Seq(Files) /\ aged' \in 0..Len(order')
<1> DEFINE o == RemoveAt(order, Position(f))
<1>1. /\ o \in Seq(Files) /\ Len(o) = Len(order) - 1
      /\ \A i, j \in 1..Len(o) : o[i] = o[j] => i = j
      /\ \A i \in 1..Len(o) : o[i] # f /\ file[o[i]].state \in Uncommitted
      /\ \A g \in Files \ {f} : file[g].state \in Uncommitted => \E i \in 1..Len(o) : o[i] = g
  BY RemovedFile
<1>2. order' = Append(o, f) /\ aged' = IF Position(f) <= aged THEN aged - 1 ELSE aged
  BY DEF Touch
<1>3. Len(order) \in Nat /\ aged \in 0..Len(order) /\ Position(f) \in 1..Len(order)
  BY PositionRight DEF FilesInv, TypeOK
<1> HIDE DEF o
<1>4. /\ order' \in Seq(Files) /\ Len(order') = Len(order)
      /\ \A i \in 1..Len(o) : order'[i] = o[i]
      /\ order'[Len(order)] = f
  BY <1>1, <1>2, <1>3
<1>5. aged' \in 0..Len(order')
  BY <1>2, <1>3, <1>4
<1>6. \A i \in 1..Len(order') : i = Len(order) \/ i \in 1..Len(o)
  BY <1>1, <1>3, <1>4
<1>7. ASSUME NEW i \in 1..Len(order'), NEW j \in 1..Len(order'), order'[i] = order'[j] PROVE i = j
  BY <1>1, <1>4, <1>6, <1>7
<1>8. ASSUME NEW i \in 1..Len(order') PROVE file'[order'[i]].state \in Uncommitted
  <2>1. CASE i = Len(order)
    BY <1>4, <2>1
  <2>2. CASE i \in 1..Len(o)
    <3>1. o[i] \in Files \ {f}
      BY <1>1, <2>2
    <3> QED  BY <1>1, <1>4, <2>2, <3>1
  <2> QED  BY <1>6, <2>1, <2>2
<1>9. ASSUME NEW g \in Files, file'[g].state \in Uncommitted PROVE \E i \in 1..Len(order') : order'[i] = g
  <2>1. CASE g = f
    BY <1>3, <1>4, <2>1
  <2>2. CASE g # f
    <3>1. PICK i \in 1..Len(o) : o[i] = g
      BY <1>1, <1>9, <2>2
    <3>2. i \in 1..Len(order') /\ order'[i] = g
      BY <1>1, <1>3, <1>4, <3>1
    <3> QED  BY <3>2
  <2> QED  BY <2>1, <2>2
<1> QED  BY <1>4, <1>5, <1>7, <1>8, <1>9 DEF Listed, Uncommitted

(* and leaves it when it is committed.                                      *)
LEMMA WithdrawnIsUnlisted ==
  ASSUME FilesInv, NEW f \in Files, file[f].state \in Uncommitted, Withdraw(f),
         \A g \in Files \ {f} : file'[g].state = file[g].state, file'[f].state = "COMMITTED"
  PROVE  Listed' /\ order' \in Seq(Files) /\ aged' \in 0..Len(order')
<1>1. order' = RemoveAt(order, Position(f)) /\ aged' = IF Position(f) <= aged THEN aged - 1 ELSE aged
  BY DEF Withdraw
<1>2. /\ order' \in Seq(Files) /\ Len(order') = Len(order) - 1
      /\ \A i, j \in 1..Len(order') : order'[i] = order'[j] => i = j
      /\ \A i \in 1..Len(order') : order'[i] # f /\ file[order'[i]].state \in Uncommitted
      /\ \A g \in Files \ {f} : file[g].state \in Uncommitted => \E i \in 1..Len(order') : order'[i] = g
  BY <1>1, RemovedFile
<1>3. Len(order) \in Nat /\ aged \in 0..Len(order) /\ Position(f) \in 1..Len(order)
  BY PositionRight DEF FilesInv, TypeOK
<1>4. aged' \in 0..Len(order')
  BY <1>1, <1>2, <1>3
<1>5. ASSUME NEW i \in 1..Len(order') PROVE file'[order'[i]].state \in Uncommitted
  <2>1. order'[i] \in Files \ {f}
    BY <1>2
  <2> QED  BY <1>2, <2>1
<1>6. ASSUME NEW g \in Files, file'[g].state \in Uncommitted PROVE \E i \in 1..Len(order') : order'[i] = g
  <2>1. g # f
    BY <1>6 DEF Uncommitted
  <2> QED  BY <1>2, <1>6, <2>1
<1> QED  BY <1>2, <1>4, <1>5, <1>6 DEF Listed, Uncommitted

(* A row that is new is the last of the order.                              *)
LEMMA ReservedIsListed ==
  ASSUME FilesInv, NEW f \in Files, file[f].state = "ABSENT",
         order' = Append(order, f), UNCHANGED aged,
         \A g \in Files \ {f} : file'[g].state = file[g].state, file'[f].state \in Uncommitted
  PROVE  Listed' /\ order' \in Seq(Files) /\ aged' \in 0..Len(order')
<1>1. order \in Seq(Files) /\ aged \in 0..Len(order) /\ Len(order) \in Nat
  BY DEF FilesInv, TypeOK
<1>2. /\ \A i, j \in 1..Len(order) : order[i] = order[j] => i = j
      /\ \A i \in 1..Len(order) : order[i] # f /\ order[i] \in Files /\ file[order[i]].state \in Uncommitted
      /\ \A g \in Files : file[g].state \in Uncommitted => \E i \in 1..Len(order) : order[i] = g
  BY <1>1 DEF FilesInv, Listed, Uncommitted
<1>3. /\ order' \in Seq(Files) /\ Len(order') = Len(order) + 1
      /\ \A i \in 1..Len(order) : order'[i] = order[i]
      /\ order'[Len(order')] = f
  BY <1>1
<1>4. \A i \in 1..Len(order') : i = Len(order') \/ i \in 1..Len(order)
  BY <1>1, <1>3
<1>5. ASSUME NEW i \in 1..Len(order'), NEW j \in 1..Len(order'), order'[i] = order'[j] PROVE i = j
  BY <1>2, <1>3, <1>4, <1>5
<1>6. ASSUME NEW i \in 1..Len(order') PROVE file'[order'[i]].state \in Uncommitted
  BY <1>2, <1>3, <1>4
<1>7. ASSUME NEW g \in Files, file'[g].state \in Uncommitted PROVE \E i \in 1..Len(order') : order'[i] = g
  <2>1. CASE g = f
    BY <1>1, <1>3, <2>1
  <2>2. CASE g # f
    <3>1. PICK i \in 1..Len(order) : order[i] = g
      BY <1>2, <1>7, <2>2
    <3>2. i \in 1..Len(order') /\ order'[i] = g
      BY <1>1, <1>3, <3>1
    <3> QED  BY <3>2
  <2> QED  BY <2>1, <2>2
<1> QED  BY <1>1, <1>3, <1>5, <1>6, <1>7 DEF Listed, Uncommitted

----
(* Who does not move. *)

(* A file that another request is about to reserve is left alone.           *)
Unclaimed(r, f) == \A s \in Requests \ {r} : req[s].command.op = "reserve" => req[s].command.file # f

(* A request's step leaves the others right: only the file that it has      *)
(* reserved becomes known by it.                                            *)
LEMMA OthersStayRight ==
  ASSUME FilesInv, NEW r \in Requests, NEW new, req' = [req EXCEPT ![r] = new],
         Unclaimed(r, new.command.file),
         objects \subseteq objects',
         \A f \in Files :
           \/ file'[f].state = file[f].state
           \/ file[f].state # "ABSENT" /\ file'[f].state # "INITIALIZED"
           \/ req[r].command.op = "reserve" /\ req[r].command.file = f
  PROVE  \A s \in Requests \ {r} : CommandRight(s)'
<1> SUFFICES ASSUME NEW s \in Requests \ {r} PROVE CommandRight(s)'
  OBVIOUS
<1> DEFINE c == req[s].command
<1>1. req'[s] = req[s] /\ req'[r] = new /\ \A t \in Requests \ {r} : req'[t] = req[t]
  BY DEF FilesInv, TypeOK
<1>2. CommandRight(s) /\ CommandRight(r)
  BY DEF FilesInv
<1>3. ASSUME c.op = "reserve"
      PROVE  file'[c.file].state = "ABSENT" /\ \A t \in Requests \ {s} : req'[t].command.file # c.file
  <2>1. /\ c.file \in Files /\ file[c.file].state = "ABSENT"
        /\ \A t \in Requests \ {s} : req[t].command.file # c.file
    BY <1>2, <1>3 DEF CommandRight, WellFormed
  <2>2. file'[c.file].state = "ABSENT"
    BY <2>1
  <2>3. new.command.file # c.file
    BY <1>3 DEF Unclaimed
  <2> QED  BY <1>1, <2>1, <2>2, <2>3
<1>4. ASSUME req[s].pc = "batch", c.op = "stage", file'[c.file].state = "INITIALIZED"
      PROVE  <<c.file, c.digest>> \in objects'
  <2>1. c.file \in Files
    BY <1>2, <1>4 DEF CommandRight, WellFormed
  <2>2. ~(req[r].command.op = "reserve" /\ req[r].command.file = c.file)
    BY <1>2 DEF CommandRight
  <2>3. file[c.file].state = "INITIALIZED"
    BY <1>4, <2>1, <2>2
  <2> QED  BY <1>2, <1>4, <2>3 DEF CommandRight
<1> QED  BY <1>1, <1>2, <1>3, <1>4 DEF CommandRight, WellFormed

(* A sweeper that does not move stays right while rejected files stay       *)
(* rejected.                                                                *)
LEMMA SweeperStaysRight ==
  ASSUME FilesInv, NEW w \in Sweepers, sweep'[w] = sweep[w],
         \A f \in Files : file[f].state = "REJECTED" => file'[f].state = "REJECTED"
  PROVE  SweepRight(file, sweep[w])'
<1>1. SweepRight(file, sweep[w]) /\ sweep[w] \in SweepStates
  BY DEF FilesInv, TypeOK, SweepStates
<1>2. \A i \in 1..Len(sweep[w].todo) : sweep[w].todo[i].file \in Files
  <2>1. sweep[w].todo \in Seq(Candidates)
    BY <1>1 DEF SweepStates
  <2>2. \A i \in 1..Len(sweep[w].todo) : sweep[w].todo[i] \in Candidates
    BY <2>1
  <2> QED  BY <2>2 DEF Candidates
<1>3. ASSUME sweep[w].pc \in {"list", "delete"} PROVE file'[sweep[w].todo[1].file].state = "REJECTED"
  <2>1. 1 \in 1..Len(sweep[w].todo)
    BY <1>1, <1>3 DEF SweepRight, SweepStates
  <2> QED  BY <1>1, <1>2, <1>3, <2>1 DEF SweepRight
<1> QED  BY <1>1, <1>2, <1>3 DEF SweepRight

(* A request's step that changes no row keeps the invariant, if what the    *)
(* request does then is right.                                              *)
LEMMA QuietRequest ==
  ASSUME FilesInv, NEW r \in Requests, NEW new \in RequestStates, req' = [req EXCEPT ![r] = new],
         Unclaimed(r, new.command.file), CommandRight(r)',
         UNCHANGED <<phase, rows, sweep, faults>>, fresh' \subseteq Requests,
         objects \subseteq objects', objects' \subseteq Objects, IsFiniteSet(objects')
  PROVE  FilesInv'
<1> USE DEF rows, requestRows, clock
<1>1. TypeOK'
  BY DEF FilesInv, TypeOK, RequestStates, Objects
<1>2. Listed' /\ Answered' /\ BytesAreThere'
  BY DEF FilesInv, Listed, Answered, BytesAreThere
<1>3. \A s \in Requests \ {r} : CommandRight(s)'
  BY OthersStayRight
<1>4. \A w \in Sweepers : SweepRight(file, sweep[w])'
  BY SweeperStaysRight
<1> QED  BY <1>1, <1>2, <1>3, <1>4 DEF FilesInv

(* No command, or one that is given up, is right.                           *)
LEMMA NothingIsRight ==
  ASSUME FilesInv, NEW r \in Requests
  PROVE  /\ Unclaimed(r, Done.command.file)
         /\ req'[r] = Done => CommandRight(r)'
<1>1. \A s \in Requests : req[s].command.op = "reserve" => req[s].command.file \in Files
  BY DEF FilesInv, CommandRight, WellFormed
<1>2. Unclaimed(r, Done.command.file)
  BY <1>1, NamesAssumption DEF Unclaimed, Done, NoCommand, Command
<1>3. ASSUME req'[r] = Done PROVE CommandRight(r)'
  BY <1>3 DEF CommandRight, WellFormed, Done, NoCommand, Command
<1> QED  BY <1>2, <1>3

----
(* Requests. *)

(* What a client or a member of staff may ask is a command. *)
LEMMA AskableRight ==
  ASSUME FilesInv, NEW c \in Askable
  PROVE  /\ c \in Commands /\ WellFormed(c)
         /\ c.op = "reserve" => c.file \in Unreserved
         /\ c.op \in {"create", "review"} => c.file = NoFile
<1> USE DEF WellFormed, Command, Commands, Ops, States, AllPurposes
<1>0. /\ pbc.version \in Nat
      /\ \A o \in objects : o[1] \in Files /\ o[2] \in Digests
      /\ \A f \in Files : file[f].digest \in Digests \cup {NoDigest}
  BY DEF FilesInv, TypeOK, PbcRows, FileRows, Objects
<1>1. CASE \E p \in {q \in Purposes : Unreserved # {}} : c = Command("reserve", NewFile, NoDigest, "ABSENT", pbc.version, p)
  <2>1. NewFile \in Unreserved /\ Unreserved \subseteq Files
    BY <1>1 DEF NewFile, Unreserved
  <2> QED  BY <1>0, <1>1, <2>1, PurposesAssumption
<1>2. CASE \E o \in objects : c = Command("stage", o[1], o[2], "INITIALIZED", 0, "STAFF")
  BY <1>0, <1>2
<1>3. CASE \E f \in Files : c = Command("commit", f, file[f].digest, "STAGED", 0, "STAFF")
  BY <1>0, <1>3
<1>4. CASE \E f \in Files, s \in {"INITIALIZED", "STAGED"} : c = Command("reject", f, NoDigest, s, 0, "STAFF")
  BY <1>4
<1>5. CASE \E f \in Files : c = Command("submit", f, NoDigest, "COMMITTED", pbc.version, "PBC")
  BY <1>0, <1>5
<1>6. CASE \E op \in {"create", "review"} : c = Command(op, NoFile, NoDigest, "ABSENT", pbc.version, "PBC")
  BY <1>0, <1>6
<1> QED  BY <1>1, <1>2, <1>3, <1>4, <1>5, <1>6 DEF Askable

LEMMA BeginKeeps ==
  ASSUME FilesInv, NEW r \in Requests, Begin(r)
  PROVE  FilesInv'
<1>1. PICK c \in Askable : Admits(c) /\ Planned(r, c)
  BY DEF Begin
<1>2. /\ c \in Commands /\ WellFormed(c)
      /\ c.op = "reserve" => c.file \in Unreserved
      /\ c.op \in {"create", "review"} => c.file = NoFile
  BY AskableRight
<1> DEFINE new == [pc |-> "batch", command |-> c]
<1>3. new \in RequestStates /\ req' = [req EXCEPT ![r] = new] /\ fresh' = fresh \cup {r} /\ new.command = c /\ new.pc = "batch"
  BY <1>1, <1>2 DEF Planned, RequestStates
<1>4. UNCHANGED <<phase, rows, objects, sweep, faults>>
  BY DEF Begin
<1> HIDE DEF new
<1>5. req'[r] = new /\ \A s \in Requests \ {r} : req'[s] = req[s]
  BY <1>3 DEF FilesInv, TypeOK
<1>6. Unclaimed(r, c.file)
  <2>1. CASE c.op = "reserve"
    BY <1>2, <2>1 DEF Unclaimed, Unreserved
  <2>2. CASE c.op \in {"create", "review"}
    BY <1>2, <2>2, NamesAssumption DEF Unclaimed, FilesInv, CommandRight, WellFormed
  <2>3. CASE c.op \in {"stage", "commit", "reject", "submit"}
    <3>1. file[c.file].state # "ABSENT"
      BY <1>1, <1>2, <2>3 DEF Admits, WellFormed, AnswersRequest
    <3> QED  BY <3>1 DEF Unclaimed, FilesInv, CommandRight
  <2>4. c.op \in Ops
    BY <1>2 DEF Commands
  <2> QED  BY <2>1, <2>2, <2>3, <2>4 DEF Ops
<1>7. CommandRight(r)'
  <2>1. ASSUME c.op = "reserve"
        PROVE  file'[c.file].state = "ABSENT" /\ \A s \in Requests \ {r} : req'[s].command.file # c.file
    BY <1>2, <1>4, <1>5, <2>1 DEF Unreserved, rows
  <2>2. ASSUME c.op = "stage" PROVE <<c.file, c.digest>> \in objects'
    BY <1>1, <1>4, <2>2 DEF Admits
  <2> QED  BY <1>2, <1>3, <1>5, <2>1, <2>2 DEF CommandRight, WellFormed
<1>8. objects \subseteq objects' /\ objects' \subseteq Objects /\ IsFiniteSet(objects') /\ fresh' \subseteq Requests
  BY <1>3, <1>4 DEF FilesInv, TypeOK
<1> QED  BY <1>3, <1>4, <1>6, <1>7, <1>8, QuietRequest

LEMMA UploadKeeps ==
  ASSUME FilesInv, NEW r \in Requests, Upload(r)
  PROVE  FilesInv'
<1>1. PICK f \in Files, d \in Digests :
        /\ file[f].state = "INITIALIZED"
        /\ req' = [req EXCEPT ![r] = [pc |-> "put", command |-> Command("stage", f, d, "INITIALIZED", 0, "STAFF")]]
  BY DEF Upload
<1> DEFINE new == [pc |-> "put", command |-> Command("stage", f, d, "INITIALIZED", 0, "STAFF")]
<1>2. /\ new \in RequestStates /\ new.pc = "put"
      /\ new.command.op = "stage" /\ new.command.file = f /\ new.command.seen = "INITIALIZED" /\ new.command.digest = d
  BY DEF RequestStates, Command, Commands, Ops, States, AllPurposes
<1>3. req' = [req EXCEPT ![r] = new] /\ UNCHANGED <<phase, rows, objects, fresh, sweep, faults>>
  BY <1>1 DEF Upload
<1> HIDE DEF new
<1>4. req'[r] = new
  BY <1>3 DEF FilesInv, TypeOK
<1>5. Unclaimed(r, f)
  BY <1>1 DEF Unclaimed, FilesInv, CommandRight
<1>6. CommandRight(r)'
  BY <1>2, <1>4 DEF CommandRight, WellFormed
<1>7. objects \subseteq objects' /\ objects' \subseteq Objects /\ IsFiniteSet(objects') /\ fresh' \subseteq Requests
  BY <1>3 DEF FilesInv, TypeOK
<1> QED  BY <1>2, <1>3, <1>5, <1>6, <1>7, QuietRequest

LEMMA PutKeeps ==
  ASSUME FilesInv, NEW r \in Requests, Put(r)
  PROVE  FilesInv'
<1> DEFINE c == req[r].command
           new == [req[r] EXCEPT !.pc = "plan"]
<1>1. /\ req[r].pc = "put" /\ req' = [req EXCEPT ![r] = new]
      /\ objects' = objects \cup {<<c.file, c.digest>>}
      /\ UNCHANGED <<phase, rows, fresh, sweep, faults>>
  BY DEF Put
<1>2. CommandRight(r) /\ req[r] \in RequestStates
  BY DEF FilesInv, TypeOK, RequestStates
<1>3. new \in RequestStates /\ new.command = c /\ new.pc = "plan"
  BY <1>2 DEF RequestStates
<1>4. c.op = "stage" /\ c.file \in Files /\ c.digest \in Digests
  BY <1>1, <1>2 DEF CommandRight, WellFormed
<1> HIDE DEF new
<1>5. req'[r] = new
  BY <1>1 DEF FilesInv, TypeOK
<1>6. Unclaimed(r, c.file)
  BY DEF Unclaimed, FilesInv, CommandRight
<1>7. CommandRight(r)'
  BY <1>2, <1>3, <1>4, <1>5 DEF CommandRight, WellFormed
<1>8. objects \subseteq objects' /\ objects' \subseteq Objects /\ IsFiniteSet(objects') /\ fresh' \subseteq Requests
  <2>1. objects \subseteq Objects /\ IsFiniteSet(objects) /\ fresh' \subseteq Requests
    BY <1>1 DEF FilesInv, TypeOK
  <2>2. <<c.file, c.digest>> \in Objects
    BY <1>4 DEF Objects
  <2>3. IsFiniteSet(objects \cup {<<c.file, c.digest>>})
    BY <2>1, FS_AddElement
  <2> QED  BY <1>1, <2>1, <2>2, <2>3
<1> QED  BY <1>1, <1>3, <1>6, <1>7, <1>8, QuietRequest

LEMMA PlanKeeps ==
  ASSUME FilesInv, NEW r \in Requests, Plan(r)
  PROVE  FilesInv'
<1> DEFINE c == req[r].command
           new == [pc |-> "batch", command |-> c]
<1>1. CommandRight(r) /\ req[r] \in RequestStates
  BY DEF FilesInv, TypeOK, RequestStates
<1>2. new \in RequestStates /\ new.command = c /\ new.pc = "batch"
  BY <1>1 DEF RequestStates
<1>3. UNCHANGED <<phase, rows, objects, sweep, faults>>
  BY DEF Plan
<1>4. objects \subseteq objects' /\ objects' \subseteq Objects /\ IsFiniteSet(objects')
  BY <1>3 DEF FilesInv, TypeOK
<1> HIDE DEF new
<1>5. CASE Admits(c) /\ req' = [req EXCEPT ![r] = new] /\ fresh' = fresh \cup {r}
  <2>1. req'[r] = new /\ \A s \in Requests \ {r} : req'[s] = req[s]
    BY <1>5 DEF FilesInv, TypeOK
  <2>2. Unclaimed(r, c.file)
    BY DEF Unclaimed, FilesInv, CommandRight
  <2>3. c.op = "stage" => <<c.file, c.digest>> \in objects'
    BY <1>3, <1>5 DEF Admits
  <2>4. CommandRight(r)'
    BY <1>1, <1>2, <1>3, <2>1, <2>3 DEF CommandRight, WellFormed, rows
  <2>5. fresh' \subseteq Requests
    BY <1>5 DEF FilesInv, TypeOK
  <2> QED  BY <1>2, <1>3, <1>4, <1>5, <2>2, <2>4, <2>5, QuietRequest
<1>6. CASE req' = [req EXCEPT ![r] = Done] /\ UNCHANGED fresh
  <2>1. req'[r] = Done /\ fresh' \subseteq Requests
    BY <1>6 DEF FilesInv, TypeOK
  <2> QED  BY <1>3, <1>4, <1>6, <2>1, IdleTyped, NothingIsRight, QuietRequest
<1> QED  BY <1>5, <1>6 DEF Plan, Planned, new

(* A request that is refused or that dies. *)
LEMMA RefusedKeeps ==
  ASSUME FilesInv, NEW r \in Requests, Refused(r) \/ Die(r)
  PROVE  FilesInv'
<1> DEFINE c == req[r].command
           new == [req[r] EXCEPT !.pc = "plan"]
<1>1. CommandRight(r) /\ req[r] \in RequestStates
  BY DEF FilesInv, TypeOK, RequestStates
<1>2. new \in RequestStates /\ new.command = c /\ new.pc = "plan"
  BY <1>1 DEF RequestStates
<1>3. UNCHANGED <<phase, rows, objects, sweep, faults>> /\ fresh' = fresh \ {r}
  BY DEF Refused, Die
<1>4. objects \subseteq objects' /\ objects' \subseteq Objects /\ IsFiniteSet(objects') /\ fresh' \subseteq Requests
  BY <1>3 DEF FilesInv, TypeOK
<1> HIDE DEF new
<1>5. CASE req' = [req EXCEPT ![r] = new]
  <2>1. req'[r] = new /\ \A s \in Requests \ {r} : req'[s] = req[s]
    BY <1>5 DEF FilesInv, TypeOK
  <2>2. Unclaimed(r, c.file)
    BY DEF Unclaimed, FilesInv, CommandRight
  <2>3. CommandRight(r)'
    BY <1>1, <1>2, <1>3, <2>1 DEF CommandRight, WellFormed, rows
  <2> QED  BY <1>2, <1>3, <1>4, <1>5, <2>2, <2>3, QuietRequest
<1>6. CASE req' = [req EXCEPT ![r] = Done]
  <2>1. req'[r] = Done
    BY <1>6 DEF FilesInv, TypeOK
  <2> QED  BY <1>3, <1>4, <1>6, <2>1, IdleTyped, NothingIsRight, QuietRequest
<1> QED  BY <1>5, <1>6 DEF Refused, Die, new

----
(* The batch of a command. *)

(* The predecessor of an answer is a file, if it is one. *)
LEMMA PredecessorRight ==
  ASSUME FilesInv
  PROVE  Predecessor \in Files \cup {NoFile}
<1>1. CASE pbc.status = "REJECTED_REUPLOAD_REQUIRED"
  <2>1. answers \in Seq(Answers) /\ pbc.current \in 1..Len(answers)
    BY <1>1 DEF FilesInv, TypeOK, Answered
  <2>2. answers[pbc.current] \in Answers
    BY <2>1
  <2> QED  BY <1>1, <2>2 DEF Predecessor, Answers
<1> QED  BY <1>1 DEF Predecessor

LEMMA CommitKeeps ==
  ASSUME FilesInv, NEW r \in Requests, Commit(r)
  PROVE  FilesInv'
<1> DEFINE c == req[r].command
<1>1. /\ Asserted(c) /\ Effect(c) /\ req' = [req EXCEPT ![r] = Done]
      /\ fresh' = {} /\ UNCHANGED <<phase, objects, sweep, faults>>
  BY DEF Commit, Applies
<1>2. CommandRight(r) /\ c \in Commands
  BY DEF FilesInv, TypeOK, Commands
<1>3. /\ file \in [Files -> FileRows] /\ pbc \in PbcRows /\ answers \in Seq(Answers)
      /\ order \in Seq(Files) /\ aged \in 0..Len(order) /\ receipts \subseteq Files \X States
  BY DEF FilesInv, TypeOK
<1>k. ASSUME file' \in [Files -> FileRows], pbc' \in PbcRows, answers' \in Seq(Answers),
             order' \in Seq(Files), aged' \in 0..Len(order'), receipts' \subseteq Files \X States,
             Listed', Answered', BytesAreThere',
             \A f \in Files :
               \/ file'[f].state = file[f].state
               \/ file[f].state \notin {"ABSENT", "REJECTED"} /\ file'[f].state # "INITIALIZED"
               \/ file[f].state # "REJECTED" /\ c.op = "reserve" /\ c.file = f
      PROVE  FilesInv'
  <2>1. req'[r] = Done
    BY <1>1 DEF FilesInv, TypeOK
  <2>2. \A s \in Requests : CommandRight(s)'
    <3>1. Unclaimed(r, Done.command.file) /\ CommandRight(r)'
      BY <2>1, NothingIsRight
    <3>2. \A s \in Requests \ {r} : CommandRight(s)'
      BY <1>1, <1>k, <3>1, OthersStayRight
    <3> QED  BY <3>1, <3>2
  <2>3. \A w \in Sweepers : SweepRight(file, sweep[w])'
    BY <1>1, <1>k, SweeperStaysRight
  <2>4. TypeOK'
    BY <1>1, <1>k, IdleTyped DEF FilesInv, TypeOK, RequestStates
  <2>5. IsFiniteSet(objects')
    BY <1>1 DEF FilesInv
  <2> QED  BY <1>k, <2>2, <2>3, <2>4, <2>5 DEF FilesInv
<1>4. CASE c.op = "reserve" /\ Reserve(c)
  <2>1. c.file \in Files /\ file[c.file].state = "ABSENT"
    BY <1>2, <1>4 DEF CommandRight, WellFormed
  <2> DEFINE row == [state |-> "INITIALIZED", purpose |-> c.purpose, digest |-> NoDigest,
                     asked |-> IF c.purpose = "PBC" THEN c.version ELSE 0,
                     prior |-> IF c.purpose = "PBC" THEN Predecessor ELSE NoFile]
  <2>2. row \in FileRows /\ row.state = "INITIALIZED"
    BY <1>2, PredecessorRight DEF Commands, FileRows, States
  <2>3. file' = [file EXCEPT ![c.file] = row] /\ order' = Append(order, c.file) /\ UNCHANGED <<aged, requestRows, receipts>>
    BY <1>4 DEF Reserve
  <2> HIDE DEF row
  <2>4. file' \in [Files -> FileRows] /\ file'[c.file] = row /\ \A g \in Files \ {c.file} : file'[g] = file[g]
    BY <1>3, <2>1, <2>2, <2>3
  <2>5. Listed' /\ order' \in Seq(Files) /\ aged' \in 0..Len(order')
    BY <2>1, <2>2, <2>3, <2>4, ReservedIsListed DEF Uncommitted
  <2>6. Answered' /\ pbc' \in PbcRows /\ answers' \in Seq(Answers) /\ receipts' \subseteq Files \X States
    BY <1>3, <2>3 DEF FilesInv, Answered, requestRows
  <2>7. BytesAreThere'
    BY <1>1, <2>2, <2>4 DEF FilesInv, BytesAreThere
  <2> QED  BY <1>k, <1>4, <2>1, <2>2, <2>4, <2>5, <2>6, <2>7
<1>5. CASE c.op \in {"stage", "commit", "reject"} /\ UpdateFile(c)
  <2>1. c.file \in Files /\ file[c.file].state = c.seen /\ c.seen \in {"INITIALIZED", "STAGED"}
    BY <1>1, <1>2, <1>5 DEF CommandRight, WellFormed, Asserted, RowUnmoved
  <2>2. /\ file' = [file EXCEPT ![c.file].state = Outcome(c),
                                ![c.file].digest = IF c.op = "stage" THEN c.digest ELSE @]
        /\ IF c.op = "commit" THEN Withdraw(c.file) ELSE Touch(c.file)
        /\ receipts' = receipts \cup {<<c.file, Outcome(c)>>} /\ UNCHANGED requestRows
    BY <1>5, <2>1 DEF UpdateFile
  <2>3. Outcome(c) = IF c.op = "stage" THEN "STAGED" ELSE IF c.op = "commit" THEN "COMMITTED" ELSE "REJECTED"
    BY <1>5 DEF Outcome
  <2>4. /\ file' \in [Files -> FileRows] /\ \A g \in Files \ {c.file} : file'[g] = file[g]
        /\ file'[c.file].state = Outcome(c)
        /\ file'[c.file].digest = IF c.op = "stage" THEN c.digest ELSE file[c.file].digest
    <3>1. file[c.file] \in FileRows /\ Outcome(c) \in States /\ c.digest \in Digests \cup {NoDigest}
      BY <1>2, <1>3, <2>1, <2>3 DEF States, Commands
    <3> QED  BY <1>3, <2>1, <2>2, <3>1 DEF FileRows
  <2>5. Listed' /\ order' \in Seq(Files) /\ aged' \in 0..Len(order')
    <3>1. CASE c.op = "commit"
      BY <2>1, <2>2, <2>3, <2>4, <3>1, WithdrawnIsUnlisted DEF Uncommitted
    <3>2. CASE c.op # "commit"
      BY <2>1, <2>2, <2>3, <2>4, <3>2, TouchedStaysListed DEF Uncommitted
    <3> QED  BY <3>1, <3>2
  <2>6. Answered' /\ pbc' \in PbcRows /\ answers' \in Seq(Answers) /\ receipts' \subseteq Files \X States
    BY <1>3, <2>1, <2>2, <2>3 DEF FilesInv, Answered, requestRows, States
  <2>7. BytesAreThere'
    <3>1. CASE c.op = "stage"
      <4>1. <<c.file, c.digest>> \in objects
        <5>1. req[r].pc = "batch" /\ c.seen = "INITIALIZED"
          BY <1>2, <3>1 DEF CommandRight, WellFormed, Commit
        <5> QED  BY <1>2, <2>1, <3>1, <5>1 DEF CommandRight
      <4> QED  BY <1>1, <2>4, <3>1, <4>1 DEF FilesInv, BytesAreThere
    <3>2. CASE c.op = "commit"
      <4>1. file[c.file].state = "STAGED"
        BY <1>2, <2>1, <3>2 DEF CommandRight, WellFormed
      <4> QED  BY <1>1, <2>4, <3>2, <4>1 DEF FilesInv, BytesAreThere
    <3>3. CASE c.op = "reject"
      BY <1>1, <2>3, <2>4, <3>3 DEF FilesInv, BytesAreThere
    <3> QED  BY <1>5, <3>1, <3>2, <3>3
  <2>8. file[c.file].state \notin {"ABSENT", "REJECTED"} /\ file'[c.file].state # "INITIALIZED"
    BY <2>1, <2>3, <2>4
  <2> QED  BY <1>k, <2>4, <2>5, <2>6, <2>7, <2>8
<1>6. ASSUME UNCHANGED <<file, clock, receipts>>, pbc' \in PbcRows, answers' \in Seq(Answers), Answered' PROVE FilesInv'
  <2>1. Listed' /\ BytesAreThere'
    BY <1>1, <1>6 DEF FilesInv, Listed, BytesAreThere, clock
  <2> QED  BY <1>3, <1>k, <1>6, <2>1 DEF clock
<1>7. CASE CreateRequest
  BY <1>3, <1>6, <1>7 DEF CreateRequest, PbcRows, Statuses, Answered
<1>8. CASE c.op = "submit" /\ Submit(c)
  <2>1. c.file \in Files /\ pbc.version \in Nat /\ pbc.current \in Nat
    BY <1>2, <1>3, <1>8 DEF CommandRight, WellFormed, PbcRows
  <2>2. [file |-> c.file, supersedes |-> IF Predecessor = NoFile THEN 0 ELSE pbc.current,
         decision |-> "NONE", reviewed |-> NoDigest] \in Answers
    BY <2>1 DEF Answers
  <2>3. answers' \in Seq(Answers) /\ Len(answers') = Len(answers) + 1
    BY <1>3, <1>8, <2>2 DEF Submit
  <2>4. pbc' \in PbcRows /\ pbc'.current = Len(answers')
    BY <1>3, <1>8, <2>1, <2>3 DEF Submit, PbcRows, Statuses
  <2>5. Answered'
    BY <1>3, <2>3, <2>4 DEF Answered
  <2> QED  BY <1>6, <1>8, <2>3, <2>4, <2>5 DEF Submit
<1>9. CASE c.op = "review" /\ Review
  <2>1. PICK decision \in {"APPROVE", "REJECT"} :
          /\ answers' = [answers EXCEPT ![pbc.current].decision = decision,
                                        ![pbc.current].reviewed = file[answers[pbc.current].file].digest]
          /\ pbc' = [pbc EXCEPT !.version = @ + 1,
                                !.status = IF decision = "APPROVE" THEN "APPROVED" ELSE "REJECTED_REUPLOAD_REQUIRED"]
          /\ UNCHANGED <<file, clock, receipts>>
    BY <1>9 DEF Review
  <2>2. pbc.status = "UNDER_REVIEW" /\ pbc.current \in 1..Len(answers)
    BY <1>1, <1>9 DEF Asserted, FilesInv, Answered
  <2> DEFINE a == answers[pbc.current]
             b == [a EXCEPT !.decision = decision, !.reviewed = file[a.file].digest]
  <2>3. a \in Answers /\ a.file \in Files
    <3>1. a \in Answers
      BY <1>3, <2>2
    <3> QED  BY <3>1 DEF Answers
  <2>4. b \in Answers
    <3>1. file[a.file].digest \in Digests \cup {NoDigest}
      BY <1>3, <2>3 DEF FileRows
    <3> QED  BY <2>3, <3>1 DEF Answers
  <2>5. answers' = [answers EXCEPT ![pbc.current] = b]
    BY <1>3, <2>1, <2>2
  <2> HIDE DEF b
  <2>6. answers' \in Seq(Answers) /\ Len(answers') = Len(answers)
    BY <1>3, <2>2, <2>4, <2>5
  <2>7. pbc' \in PbcRows /\ pbc'.current = pbc.current
    <3>1. pbc.version + 1 \in Nat
      BY <1>3 DEF PbcRows
    <3>2. pbc'.version = pbc.version + 1 /\ pbc'.status \in Statuses /\ pbc'.current = pbc.current
      BY <1>3, <2>1 DEF PbcRows, Statuses
    <3>3. pbc' = [version |-> pbc'.version, status |-> pbc'.status, current |-> pbc'.current]
      BY <1>3, <2>1 DEF PbcRows
    <3>4. pbc.current \in Nat
      BY <1>3 DEF PbcRows
    <3> QED  BY <3>1, <3>2, <3>3, <3>4 DEF PbcRows
  <2>8. Answered'
    BY <2>2, <2>6, <2>7 DEF Answered
  <2> QED  BY <1>6, <2>1, <2>6, <2>7, <2>8
<1> QED  BY <1>1, <1>4, <1>5, <1>7, <1>8, <1>9 DEF Effect

----
(* Sweeps. *)

(* What a sweep is at. *)
LEMMA SweptRight ==
  ASSUME FilesInv, NEW w \in Sweepers, sweep[w].pc # "idle"
  PROVE  /\ sweep[w] \in SweepStates /\ SweepRight(file, sweep[w])
         /\ 1 \in 1..Len(sweep[w].todo) /\ Swept(w) = sweep[w].todo[1]
         /\ Swept(w).file \in Files /\ Swept(w).seen \in Uncommitted
         /\ Swept(w).seen = "REJECTED" => file[Swept(w).file].state = "REJECTED"
<1>1. sweep[w] \in SweepStates /\ SweepRight(file, sweep[w])
  BY DEF FilesInv, TypeOK, SweepStates
<1>2. sweep[w].todo \in Seq(Candidates) /\ sweep[w].todo # <<>>
  BY <1>1 DEF SweepStates, SweepRight
<1>3. 1 \in 1..Len(sweep[w].todo) /\ Swept(w) = sweep[w].todo[1] /\ Swept(w) \in Candidates
  BY <1>2 DEF Swept
<1> QED  BY <1>1, <1>3 DEF SweepRight, Candidates

(* Rejected files stay rejected, so what was selected stays right. *)
LEMMA AdvancedRight ==
  ASSUME NEW table, NEW s \in SweepStates, SweepRight(file, s), s.todo # <<>>, NEW b \in 0..MaxObjects,
         \A f \in Files : file[f].state = "REJECTED" => table[f].state = "REJECTED"
  PROVE  Advanced(s, b) \in SweepStates /\ SweepRight(table, Advanced(s, b))
<1>1. s.todo \in Seq(Candidates)
  BY DEF SweepStates
<1>2. CASE Len(s.todo) = 1
  BY <1>2, IdleTyped DEF Advanced, Asleep, SweepRight
<1>3. CASE Len(s.todo) # 1
  <2> DEFINE new == [pc |-> "row", todo |-> Tail(s.todo), budget |-> b, keys |-> {}]
  <2>1. /\ Tail(s.todo) \in Seq(Candidates) /\ Tail(s.todo) # <<>>
        /\ \A i \in 1..Len(Tail(s.todo)) : i + 1 \in 1..Len(s.todo) /\ Tail(s.todo)[i] = s.todo[i + 1]
    <3>1. Len(s.todo) \in Nat \ {0}
      BY <1>1, EmptySeq
    <3>2. /\ Tail(s.todo) \in Seq(Candidates) /\ Len(Tail(s.todo)) = Len(s.todo) - 1
          /\ \A i \in 1..Len(Tail(s.todo)) : Tail(s.todo)[i] = s.todo[i + 1]
      BY <1>1, HeadTailProperties
    <3>3. Len(Tail(s.todo)) # 0
      BY <1>3, <3>1, <3>2
    <3>4. Tail(s.todo) # <<>>
      BY <3>3, EmptySeq
    <3>5. \A i \in 1..Len(Tail(s.todo)) : i + 1 \in 1..Len(s.todo)
      BY <3>1, <3>2
    <3> QED  BY <3>2, <3>4, <3>5
  <2>2. new \in SweepStates
    BY <2>1 DEF SweepStates
  <2>3. ASSUME NEW i \in 1..Len(Tail(s.todo))
        PROVE  /\ Tail(s.todo)[i].seen \in Uncommitted
               /\ Tail(s.todo)[i].seen = "REJECTED" => table[Tail(s.todo)[i].file].state = "REJECTED"
    <3>1. Tail(s.todo)[i] \in Candidates
      BY <2>1
    <3>2. Tail(s.todo)[i].file \in Files
      BY <3>1 DEF Candidates
    <3> QED  BY <2>1, <3>2 DEF SweepRight
  <2>4. SweepRight(table, new)
    BY <2>1, <2>3 DEF SweepRight
  <2> QED  BY <1>3, <2>2, <2>4 DEF Advanced
<1> QED  BY <1>2, <1>3

(* On to the objects of a file that is rejected. *)
LEMMA LookedRight ==
  ASSUME NEW table, NEW s \in SweepStates, SweepRight(file, s), s.todo # <<>>, s.pc = "row",
         \A f \in Files : file[f].state = "REJECTED" => table[f].state = "REJECTED",
         table[s.todo[1].file].state = "REJECTED"
  PROVE  Looked(s) \in SweepStates /\ SweepRight(table, Looked(s))
<1>1. CASE s.budget = 0
  <2>1. 0 \in 0..MaxObjects
    BY LimitsAssumption
  <2> QED  BY <1>1, <2>1, AdvancedRight DEF Looked
<1>2. CASE s.budget # 0
  <2> DEFINE new == [s EXCEPT !.pc = "list"]
  <2>1. new \in SweepStates /\ new.pc = "list" /\ new.todo = s.todo
    BY DEF SweepStates
  <2>2. ASSUME NEW i \in 1..Len(s.todo)
        PROVE  /\ s.todo[i].seen \in Uncommitted
               /\ s.todo[i].seen = "REJECTED" => table[s.todo[i].file].state = "REJECTED"
    <3>1. s.todo \in Seq(Candidates)
      BY DEF SweepStates
    <3>2. s.todo[i] \in Candidates
      BY <3>1
    <3> QED  BY <3>2 DEF SweepRight, Candidates
  <2> HIDE DEF new
  <2>3. SweepRight(table, new)
    BY <2>1, <2>2 DEF SweepRight
  <2> QED  BY <1>2, <2>1, <2>3 DEF Looked, new
<1> QED  BY <1>1, <1>2

(* A sweep's step keeps the invariant if what the sweep does then is right, *)
(* if it only rejects files, and if it deletes only what no file needs.     *)
LEMMA SweepStepKeeps ==
  ASSUME FilesInv, NEW w \in Sweepers, NEW new \in SweepStates, sweep' = [sweep EXCEPT ![w] = new],
         SweepRight(file', new),
         file' \in [Files -> FileRows], order' \in Seq(Files), aged' \in 0..Len(order'), Listed', faults' \in 0..MaxFaults,
         \A f \in Files : file'[f] = file[f] \/ (file[f].state # "ABSENT" /\ file'[f].state = "REJECTED"),
         objects' \subseteq objects, \A o \in objects \ objects' : file[o[1]].state = "REJECTED",
         UNCHANGED <<phase, requestRows, receipts, req, fresh>>
  PROVE  FilesInv'
<1>1. TypeOK'
  BY DEF FilesInv, TypeOK, SweepStates, requestRows, Objects
<1>2. IsFiniteSet(objects')
  BY FS_Subset DEF FilesInv
<1>3. Answered'
  BY DEF FilesInv, Answered, requestRows
<1>4. ASSUME NEW f \in Files, NEW d, <<f, d>> \in objects, file[f].state # "REJECTED" PROVE <<f, d>> \in objects'
  BY <1>4
<1>5. ASSUME NEW r \in Requests PROVE CommandRight(r)'
  <2> DEFINE c == req[r].command
  <2>1. CommandRight(r) /\ WellFormed(c) /\ req' = req
    BY DEF FilesInv, CommandRight
  <2>2. ASSUME c.op = "reserve" PROVE file'[c.file].state = "ABSENT"
    BY <2>1, <2>2 DEF CommandRight, WellFormed
  <2>3. ASSUME req[r].pc = "batch", c.op = "stage", file'[c.file].state = "INITIALIZED" PROVE <<c.file, c.digest>> \in objects'
    <3>1. c.file \in Files
      BY <2>1, <2>3 DEF WellFormed
    <3>2. file[c.file].state = "INITIALIZED"
      BY <2>3, <3>1
    <3> QED  BY <1>4, <2>1, <2>3, <3>1, <3>2 DEF CommandRight
  <2> QED  BY <2>1, <2>2, <2>3 DEF CommandRight, WellFormed
<1>6. ASSUME NEW v \in Sweepers PROVE SweepRight(file, sweep[v])'
  <2>1. CASE v = w
    BY <2>1 DEF FilesInv, TypeOK
  <2>2. CASE v # w
    <3>1. sweep'[v] = sweep[v]
      BY <2>2
    <3> QED  BY <3>1, SweeperStaysRight
  <2> QED  BY <2>1, <2>2
<1>7. BytesAreThere'
  <2> SUFFICES ASSUME NEW f \in Files, file'[f].state \in {"STAGED", "COMMITTED"} PROVE <<f, file'[f].digest>> \in objects'
    BY DEF BytesAreThere
  <2>1. file'[f] = file[f]
    OBVIOUS
  <2>2. <<f, file[f].digest>> \in objects
    BY <2>1 DEF FilesInv, BytesAreThere
  <2> QED  BY <1>4, <2>1, <2>2
<1> QED  BY <1>1, <1>2, <1>3, <1>5, <1>6, <1>7 DEF FilesInv

(* A step of the sweep that changes no row. *)
LEMMA QuietSweep ==
  ASSUME FilesInv, NEW w \in Sweepers, NEW new \in SweepStates, sweep' = [sweep EXCEPT ![w] = new], SweepRight(file, new),
         objects' \subseteq objects, \A o \in objects \ objects' : file[o[1]].state = "REJECTED",
         faults' \in 0..MaxFaults, UNCHANGED <<phase, rows, req, fresh>>
  PROVE  FilesInv'
<1>1. file' = file /\ order' = order /\ aged' = aged /\ UNCHANGED <<phase, requestRows, receipts, req, fresh>>
  BY DEF rows, clock
<1>2. file' \in [Files -> FileRows] /\ order' \in Seq(Files) /\ aged' \in 0..Len(order')
  BY <1>1 DEF FilesInv, TypeOK
<1>3. Listed'
  BY <1>1 DEF FilesInv, Listed
<1>4. SweepRight(file', new)
  BY <1>1 DEF SweepRight
<1>5. \A f \in Files : file'[f] = file[f] \/ (file[f].state # "ABSENT" /\ file'[f].state = "REJECTED")
  BY <1>1
<1> QED  BY <1>1, <1>2, <1>3, <1>4, <1>5, SweepStepKeeps

LEMMA SelectKeeps ==
  ASSUME FilesInv, NEW w \in Sweepers, Select(w)
  PROVE  FilesInv'
<1> DEFINE n == IF aged < MaxSweep THEN aged ELSE MaxSweep
           new == [pc |-> "row", todo |-> Selected(n), budget |-> MaxObjects, keys |-> {}]
<1>1. Selected(n) # <<>> /\ sweep' = [sweep EXCEPT ![w] = new] /\ UNCHANGED <<phase, rows, objects, req, fresh, faults>>
  BY DEF Select
<1>2. order \in Seq(Files) /\ aged \in 0..Len(order) /\ file \in [Files -> FileRows]
  BY DEF FilesInv, TypeOK
<1>3. n \in 0..Len(order)
  BY <1>2, LimitsAssumption
<1> HIDE DEF n
<1>4. ASSUME NEW i \in 1..n PROVE order[i] \in Files /\ file[order[i]].state \in Uncommitted
  <2>1. i \in 1..Len(order)
    BY <1>2, <1>3
  <2> QED  BY <1>2, <2>1 DEF FilesInv, Listed
<1>5. /\ Selected(n) \in Seq(Candidates)
      /\ \A i \in 1..Len(Selected(n)) :
           Selected(n)[i].seen \in Uncommitted /\ Selected(n)[i].seen = file[Selected(n)[i].file].state
  <2>1. \A i \in 1..n : [file |-> order[i], seen |-> file[order[i]].state] \in Candidates
    BY <1>4 DEF Candidates, States, Uncommitted
  <2>2. n \in Nat
    BY <1>2, <1>3
  <2>3. Selected(n) \in Seq(Candidates) /\ Len(Selected(n)) = n
    BY <2>1, <2>2 DEF Selected
  <2> QED  BY <1>4, <2>3 DEF Selected
<1>6. MaxObjects \in 0..MaxObjects
  BY LimitsAssumption
<1>7. new \in SweepStates
  BY <1>5, <1>6 DEF SweepStates
<1>8. SweepRight(file, new)
  BY <1>1, <1>5 DEF SweepRight
<1>9. faults' \in 0..MaxFaults
  BY <1>1 DEF FilesInv, TypeOK
<1> HIDE DEF new
<1> QED  BY <1>1, <1>7, <1>8, <1>9, QuietSweep

LEMMA SweepRowKeeps ==
  ASSUME FilesInv, NEW w \in Sweepers, SweepRow(w)
  PROVE  FilesInv'
<1>1. PICK s : s = sweep[w]
  OBVIOUS
<1>2. PICK x : x = Swept(w)
  OBVIOUS
<1>3. s.pc = "row" /\ UNCHANGED <<phase, requestRows, receipts, objects, req, fresh, faults>>
  BY <1>1 DEF SweepRow
<1>4. /\ s \in SweepStates /\ SweepRight(file, s) /\ x = s.todo[1]
      /\ x.file \in Files /\ x.seen \in Uncommitted /\ (x.seen = "REJECTED" => file[x.file].state = "REJECTED")
  BY <1>1, <1>2, <1>3, SweptRight
<1>5. s.todo # <<>> /\ s.budget \in 0..MaxObjects
  BY <1>3, <1>4 DEF SweepRight, SweepStates
<1>6. /\ file \in [Files -> FileRows] /\ order \in Seq(Files) /\ aged \in 0..Len(order) /\ faults' \in 0..MaxFaults
  BY <1>3 DEF FilesInv, TypeOK
<1>7. CASE x.seen = "REJECTED" /\ sweep' = [sweep EXCEPT ![w] = Looked(s)] /\ UNCHANGED <<file, clock>>
  <2>1. Looked(s) \in SweepStates /\ SweepRight(file, Looked(s))
    BY <1>3, <1>4, <1>5, <1>7, LookedRight
  <2>2. UNCHANGED rows
    BY <1>3, <1>7 DEF rows
  <2> QED  BY <1>3, <1>6, <1>7, <2>1, <2>2, QuietSweep
<1>8. CASE sweep' = [sweep EXCEPT ![w] = Missed(s)] /\ UNCHANGED <<file, clock>>
  <2>1. Missed(s) \in SweepStates /\ SweepRight(file, Missed(s))
    BY <1>4, <1>5, AdvancedRight DEF Missed
  <2>2. UNCHANGED rows
    BY <1>3, <1>8 DEF rows
  <2> QED  BY <1>3, <1>6, <1>8, <2>1, <2>2, QuietSweep
<1>9. CASE /\ x.seen # "REJECTED" /\ Abandoned(x) /\ file' = [file EXCEPT ![x.file].state = "REJECTED"]
           /\ Touch(x.file) /\ sweep' = [sweep EXCEPT ![w] = Looked(s)]
  <2>1. file[x.file].state = x.seen /\ file[x.file].state # "ABSENT"
    BY <1>4, <1>9 DEF Abandoned, Uncommitted
  <2>2. /\ file' \in [Files -> FileRows] /\ file'[x.file].state = "REJECTED"
        /\ \A g \in Files \ {x.file} : file'[g] = file[g]
    BY <1>4, <1>6, <1>9 DEF FileRows, States
  <2>3. Listed' /\ order' \in Seq(Files) /\ aged' \in 0..Len(order')
    <3>1. file[x.file].state \in Uncommitted /\ file'[x.file].state \in Uncommitted
      BY <1>4, <2>1, <2>2 DEF Uncommitted
    <3> QED  BY <1>4, <1>9, <2>2, <3>1, TouchedStaysListed
  <2>4. \A f \in Files : file[f].state = "REJECTED" => file'[f].state = "REJECTED"
    BY <2>2
  <2>5. Looked(s) \in SweepStates /\ SweepRight(file', Looked(s))
    BY <1>3, <1>4, <1>5, <2>2, <2>4, LookedRight
  <2>6. \A f \in Files : file'[f] = file[f] \/ (file[f].state # "ABSENT" /\ file'[f].state = "REJECTED")
    BY <2>1, <2>2
  <2> QED  BY <1>3, <1>6, <1>9, <2>2, <2>3, <2>5, <2>6, SweepStepKeeps
<1> QED  BY <1>1, <1>2, <1>7, <1>8, <1>9 DEF SweepRow

LEMMA SweepListKeeps ==
  ASSUME FilesInv, NEW w \in Sweepers, SweepList(w)
  PROVE  FilesInv'
<1> DEFINE s == sweep[w]
<1>1. PICK keys \in SUBSET Below(Swept(w).file) :
        /\ Cardinality(keys) <= s.budget
        /\ sweep' = [sweep EXCEPT ![w] = IF keys = {} THEN Advanced(s, s.budget) ELSE [s EXCEPT !.pc = "delete", !.keys = keys]]
  BY DEF SweepList
<1>2. s.pc = "list" /\ UNCHANGED <<phase, rows, objects, req, fresh, faults>>
  BY DEF SweepList
<1>3. /\ s \in SweepStates /\ SweepRight(file, s) /\ s.todo # <<>> /\ s.budget \in 0..MaxObjects
      /\ Swept(w) = s.todo[1]
  BY <1>2, SweptRight DEF SweepRight, SweepStates
<1>4. faults' \in 0..MaxFaults
  BY <1>2 DEF FilesInv, TypeOK
<1>5. CASE keys = {}
  <2>1. Advanced(s, s.budget) \in SweepStates /\ SweepRight(file, Advanced(s, s.budget))
    BY <1>3, AdvancedRight
  <2> QED  BY <1>1, <1>2, <1>4, <1>5, <2>1, QuietSweep
<1>6. CASE keys # {}
  <2> DEFINE new == [s EXCEPT !.pc = "delete", !.keys = keys]
  <2>1. keys \subseteq objects /\ \A o \in keys : o[1] = s.todo[1].file
    BY <1>3 DEF Below
  <2>2. Cardinality(keys) \in 0..s.budget
    <3>1. Cardinality(keys) \in Nat
      BY <2>1, FS_Subset, FS_CardinalityType DEF FilesInv
    <3> QED  BY <1>1, <1>3, <3>1
  <2>3. new \in SweepStates /\ new.pc = "delete" /\ new.keys = keys /\ new.todo = s.todo /\ new.budget = s.budget
    BY <1>3, <2>1 DEF SweepStates, FilesInv, TypeOK
  <2> HIDE DEF new
  <2>4. SweepRight(file, new)
    BY <1>2, <1>3, <2>1, <2>2, <2>3 DEF SweepRight
  <2> QED  BY <1>1, <1>2, <1>4, <1>6, <2>3, <2>4, QuietSweep DEF new
<1> QED  BY <1>5, <1>6

LEMMA SweepDeleteKeeps ==
  ASSUME FilesInv, NEW w \in Sweepers, SweepDelete(w)
  PROVE  FilesInv'
<1> DEFINE s == sweep[w]
           b == s.budget - Cardinality(s.keys)
<1>1. /\ s.pc = "delete" /\ objects' = objects \ s.keys /\ sweep' = [sweep EXCEPT ![w] = Advanced(s, b)]
      /\ UNCHANGED <<phase, rows, req, fresh, faults>>
  BY DEF SweepDelete
<1>2. /\ s \in SweepStates /\ SweepRight(file, s) /\ s.todo # <<>> /\ s.budget \in 0..MaxObjects
      /\ Cardinality(s.keys) \in 0..s.budget
      /\ \A o \in s.keys : o[1] = s.todo[1].file
      /\ file[s.todo[1].file].state = "REJECTED"
  BY <1>1, SweptRight DEF SweepRight, SweepStates
<1>3. b \in 0..MaxObjects
  BY <1>2, LimitsAssumption
<1> HIDE DEF b
<1>4. Advanced(s, b) \in SweepStates /\ SweepRight(file, Advanced(s, b))
  BY <1>2, <1>3, AdvancedRight
<1>5. faults' \in 0..MaxFaults
  BY <1>1 DEF FilesInv, TypeOK
<1> QED  BY <1>1, <1>2, <1>4, <1>5, QuietSweep

LEMMA SweepFailsKeeps ==
  ASSUME FilesInv, NEW w \in Sweepers, SweepFails(w)
  PROVE  FilesInv'
<1> DEFINE s == sweep[w]
<1>1. s.pc # "idle" /\ faults < MaxFaults /\ faults' = faults + 1 /\ UNCHANGED <<phase, rows, objects, req, fresh>>
  BY DEF SweepFails
<1>2. faults' \in 0..MaxFaults
  BY <1>1, LimitsAssumption DEF FilesInv, TypeOK
<1>3. CASE sweep' = [sweep EXCEPT ![w] = Asleep]
  <2>1. SweepRight(file, Asleep)
    BY DEF SweepRight, Asleep
  <2> QED  BY <1>1, <1>2, <1>3, <2>1, IdleTyped, QuietSweep
<1>4. CASE sweep' = [sweep EXCEPT ![w] = Advanced(s, s.budget)]
  <2>1. s \in SweepStates /\ SweepRight(file, s) /\ s.todo # <<>> /\ s.budget \in 0..MaxObjects
    BY <1>1, SweptRight DEF SweepRight, SweepStates
  <2>2. Advanced(s, s.budget) \in SweepStates /\ SweepRight(file, Advanced(s, s.budget))
    BY <2>1, AdvancedRight
  <2> QED  BY <1>1, <1>2, <1>4, <2>2, QuietSweep
<1> QED  BY <1>3, <1>4 DEF SweepFails

----
(* The engagement and time. *)
LEMMA QuietStepKeeps ==
  ASSUME FilesInv, EngagementMoves \/ DayPasses \/ UNCHANGED vars
  PROVE  FilesInv'
<1>1. UNCHANGED <<requestRows, file, order, receipts, objects, req, sweep, faults>>
  BY DEF EngagementMoves, DayPasses, vars, rows, clock
<1>2. phase' \in Phases /\ fresh' \subseteq Requests
  <2>1. CASE EngagementMoves
    BY <2>1 DEF FilesInv, TypeOK, EngagementMoves, Release, DeadlinePasses, PartnerLocks, CronLocks, Seal, Phases
  <2>2. CASE DayPasses \/ UNCHANGED vars
    BY <2>2 DEF FilesInv, TypeOK, DayPasses, vars
  <2> QED  BY <2>1, <2>2
<1>3. aged' \in 0..Len(order')
  <2>1. aged \in 0..Len(order) /\ Len(order) \in Nat /\ order' = order
    BY <1>1 DEF FilesInv, TypeOK
  <2>2. aged' = aged \/ (aged < Len(order) /\ aged' = aged + 1)
    BY DEF EngagementMoves, DayPasses, vars, rows, clock
  <2> QED  BY <2>1, <2>2
<1>4. TypeOK'
  BY <1>1, <1>2, <1>3 DEF FilesInv, TypeOK, requestRows
<1>5. Listed' /\ Answered' /\ BytesAreThere' /\ IsFiniteSet(objects')
  BY <1>1 DEF FilesInv, Listed, Answered, BytesAreThere, requestRows
<1>6. ASSUME NEW r \in Requests PROVE CommandRight(r)'
  <2>1. CommandRight(r)
    BY DEF FilesInv
  <2> QED  BY <1>1, <2>1 DEF CommandRight, WellFormed
<1>7. \A w \in Sweepers : SweepRight(file, sweep[w])'
  BY <1>1, SweeperStaysRight
<1> QED  BY <1>4, <1>5, <1>6, <1>7 DEF FilesInv

----
LEMMA FilesInvHolds == Spec => []FilesInv
<1>1. FilesInv /\ [Next]_vars => FilesInv'
  <2> SUFFICES ASSUME FilesInv, [Next]_vars PROVE FilesInv'
    OBVIOUS
  <2>1. CASE EngagementMoves \/ DayPasses \/ UNCHANGED vars
    BY <2>1, QuietStepKeeps
  <2>2. ASSUME NEW r \in Requests, Begin(r) \/ Upload(r) \/ Serve(r) \/ Die(r) PROVE FilesInv'
    BY <2>2, BeginKeeps, UploadKeeps, PutKeeps, PlanKeeps, CommitKeeps, RefusedKeeps DEF Serve
  <2>3. ASSUME NEW w \in Sweepers, Sweep(w) \/ SweepFails(w) PROVE FilesInv'
    BY <2>3, SelectKeeps, SweepRowKeeps, SweepListKeeps, SweepDeleteKeeps, SweepFailsKeeps DEF Sweep
  <2> QED  BY <2>1, <2>2, <2>3 DEF Next
<1> QED  BY <1>1, InitRight, PTL DEF Spec

(* In every reachable state rows, objects, requests and sweeps are of their *)
(* types: the sweep's old rows are among its rows, and a sweep never        *)
(* deletes more objects than its budget (file_versions, StaleFile,          *)
(* sweepStaleBusinessFiles).                                                *)
THEOREM TypeCorrect == Spec => []TypeOK
<1>1. FilesInv => TypeOK
  BY DEF FilesInv
<1> QED  BY <1>1, FilesInvHolds, PTL

(* A file that is staged or committed has its bytes in the store, for any   *)
(* number of requests and sweeps that overlap (file.stage and file.commit   *)
(* against sweepStaleBusinessFiles).                                        *)
THEOREM BytesKept == Spec => []BytesAreThere
<1>1. FilesInv => BytesAreThere
  BY DEF FilesInv
<1> QED  BY <1>1, FilesInvHolds, PTL

----
(* How a step changes the row of a file. *)
RowStep(f) ==
  \/ file'[f] = file[f]
  \/ /\ file[f].state = "ABSENT" /\ file'[f].state = "INITIALIZED"
     /\ phase = "sealed" => file'[f].purpose = "PAYMENT"
     /\ IF file'[f].purpose = "PBC"
          THEN Open /\ file'[f].asked = pbc.version /\ file'[f].prior = Predecessor
          ELSE file'[f].asked = 0
  \/ /\ file[f].state \in {"INITIALIZED", "STAGED"} /\ file'[f].state \in {"STAGED", "COMMITTED", "REJECTED"}
     /\ file'[f].purpose = file[f].purpose /\ file'[f].asked = file[f].asked /\ file'[f].prior = file[f].prior
     /\ file'[f].digest = file[f].digest \/ file'[f].digest \in Digests
     /\ file'[f].state = "COMMITTED" /\ Locked => file[f].purpose = "PAYMENT"
     /\ phase = "sealed" => file[f].purpose = "PAYMENT"

LEMMA CommitRows ==
  ASSUME FilesInv, NEW r \in Requests, Commit(r), NEW f \in Files
  PROVE  /\ RowStep(f)
         /\ \A o \in receipts' \ receipts :
              /\ o[1] \in Files /\ file'[o[1]].state = o[2]
              /\ o[2] = "STAGED" => file'[o[1]].digest \in Digests
<1> DEFINE c == req[r].command
<1>1. Asserted(c) /\ Permitted(c) /\ Effect(c)
  BY DEF Commit, Applies
<1>2. CommandRight(r) /\ c \in Commands
  BY DEF FilesInv, TypeOK, Commands
<1>3. file \in [Files -> FileRows]
  BY DEF FilesInv, TypeOK
<1>4. CASE c.op = "reserve" /\ Reserve(c)
  <2>1. c.file \in Files /\ file[c.file].state = "ABSENT"
    BY <1>2, <1>4 DEF CommandRight, WellFormed
  <2>2. phase = "sealed" => c.purpose = "PAYMENT"
    BY <1>1, <1>4 DEF Permitted
  <2> DEFINE row == [state |-> "INITIALIZED", purpose |-> c.purpose, digest |-> NoDigest,
                     asked |-> IF c.purpose = "PBC" THEN c.version ELSE 0,
                     prior |-> IF c.purpose = "PBC" THEN Predecessor ELSE NoFile]
  <2>3. /\ row.state = "INITIALIZED" /\ row.purpose = c.purpose
        /\ row.asked = (IF c.purpose = "PBC" THEN c.version ELSE 0)
        /\ row.prior = (IF c.purpose = "PBC" THEN Predecessor ELSE NoFile)
    OBVIOUS
  <2>4. file' = [file EXCEPT ![c.file] = row] /\ receipts' = receipts
    BY <1>4 DEF Reserve
  <2> HIDE DEF row
  <2>5. file'[c.file] = row /\ \A g \in Files \ {c.file} : file'[g] = file[g]
    BY <1>3, <2>1, <2>4
  <2>6. c.purpose = "PBC" => Open /\ c.version = pbc.version
    BY <1>1, <1>4 DEF Asserted
  <2> QED  BY <2>1, <2>2, <2>3, <2>4, <2>5, <2>6 DEF RowStep
<1>5. CASE c.op \in {"stage", "commit", "reject"} /\ UpdateFile(c)
  <2>1. c.file \in Files /\ file[c.file].state = c.seen /\ c.seen \in {"INITIALIZED", "STAGED"}
        /\ (c.op = "stage" => c.digest \in Digests)
    BY <1>1, <1>2, <1>5 DEF CommandRight, WellFormed, Asserted, RowUnmoved
  <2>2. /\ file' = [file EXCEPT ![c.file].state = Outcome(c),
                                ![c.file].digest = IF c.op = "stage" THEN c.digest ELSE @]
        /\ receipts' = receipts \cup {<<c.file, Outcome(c)>>}
    BY <1>5, <2>1 DEF UpdateFile
  <2>3. Outcome(c) = IF c.op = "stage" THEN "STAGED" ELSE IF c.op = "commit" THEN "COMMITTED" ELSE "REJECTED"
    BY <1>5 DEF Outcome
  <2>4. /\ \A g \in Files \ {c.file} : file'[g] = file[g]
        /\ file'[c.file].state = Outcome(c) /\ file'[c.file].purpose = file[c.file].purpose
        /\ file'[c.file].digest = IF c.op = "stage" THEN c.digest ELSE file[c.file].digest
        /\ file'[c.file].asked = file[c.file].asked /\ file'[c.file].prior = file[c.file].prior
    <3>1. file[c.file] \in FileRows
      BY <1>3, <2>1
    <3> QED  BY <1>3, <2>1, <2>2, <3>1 DEF FileRows
  <2>5. phase = "sealed" => file[c.file].purpose = "PAYMENT"
    BY <1>1, <1>5 DEF Permitted
  <2>6. c.op = "commit" /\ Locked => file[c.file].purpose = "PAYMENT"
    BY <1>1 DEF Asserted, Unlocked
  <2>7. RowStep(f)
    BY <2>1, <2>3, <2>4, <2>5, <2>6 DEF RowStep
  <2>8. ASSUME NEW o \in receipts' \ receipts
        PROVE  /\ o[1] \in Files /\ file'[o[1]].state = o[2]
               /\ o[2] = "STAGED" => file'[o[1]].digest \in Digests
    <3>1. o = <<c.file, Outcome(c)>>
      BY <2>2
    <3>2. o[1] = c.file /\ o[2] = Outcome(c)
      BY <3>1
    <3> QED  BY <2>1, <2>3, <2>4, <3>2
  <2> QED  BY <2>7, <2>8
<1>6. CASE UNCHANGED <<file, receipts>>
  BY <1>6 DEF RowStep
<1>7. CreateRequest \/ Submit(c) \/ Review => UNCHANGED <<file, receipts>>
  BY DEF CreateRequest, Submit, Review
<1> QED  BY <1>1, <1>4, <1>5, <1>6, <1>7 DEF Effect

LEMMA SweepRows ==
  ASSUME FilesInv, NEW w \in Sweepers, SweepRow(w), NEW f \in Files
  PROVE  RowStep(f) /\ receipts' = receipts
<1>1. PICK x : x = Swept(w)
  OBVIOUS
<1>2. sweep[w].pc # "idle" /\ receipts' = receipts
  BY DEF SweepRow
<1>3. x.file \in Files /\ x.seen \in Uncommitted
  BY <1>1, <1>2, SweptRight
<1>4. CASE file' = file
  BY <1>2, <1>4 DEF RowStep
<1>5. CASE x.seen # "REJECTED" /\ Abandoned(x) /\ file' = [file EXCEPT ![x.file].state = "REJECTED"]
  <2>1. file \in [Files -> FileRows]
    BY DEF FilesInv, TypeOK
  <2>2. file[x.file] \in FileRows
    BY <1>3, <2>1
  <2>3. file[x.file].state \in {"INITIALIZED", "STAGED"} /\ phase # "sealed"
    BY <1>3, <1>5 DEF Abandoned, Uncommitted
  <2>4. /\ file'[x.file].state = "REJECTED" /\ file'[x.file].purpose = file[x.file].purpose
        /\ file'[x.file].digest = file[x.file].digest
        /\ file'[x.file].asked = file[x.file].asked /\ file'[x.file].prior = file[x.file].prior
        /\ \A g \in Files \ {x.file} : file'[g] = file[g]
    BY <1>3, <1>5, <2>1, <2>2 DEF FileRows
  <2> QED  BY <1>2, <2>3, <2>4 DEF RowStep
<1> QED  BY <1>1, <1>4, <1>5 DEF SweepRow

LEMMA StepRows ==
  ASSUME FilesInv, [Next]_vars
  PROVE  /\ \A f \in Files : RowStep(f)
         /\ \A o \in receipts' \ receipts :
              /\ o[1] \in Files /\ file'[o[1]].state = o[2]
              /\ o[2] = "STAGED" => file'[o[1]].digest \in Digests
<1>1. CASE UNCHANGED <<file, receipts>>
  BY <1>1 DEF RowStep
<1>2. ASSUME NEW r \in Requests, Commit(r)
      PROVE  /\ \A f \in Files : RowStep(f)
             /\ \A o \in receipts' \ receipts :
                  /\ o[1] \in Files /\ file'[o[1]].state = o[2]
                  /\ o[2] = "STAGED" => file'[o[1]].digest \in Digests
  <2>1. \A f \in Files : RowStep(f)
    BY <1>2, CommitRows
  <2>2. CASE Files # {}
    BY <1>2, <2>2, CommitRows
  <2>3. CASE Files = {}
    <3>1. receipts' \subseteq Files \X States
      <4>1. FilesInv'
        BY <1>2, CommitKeeps
      <4> QED  BY <4>1 DEF FilesInv, TypeOK
    <3> QED  BY <2>1, <2>3, <3>1
  <2> QED  BY <2>1, <2>2, <2>3
<1>3. ASSUME NEW w \in Sweepers, SweepRow(w) PROVE (\A f \in Files : RowStep(f)) /\ receipts' \subseteq receipts
  BY <1>3, SweepRows DEF SweepRow
<1>4. CASE EngagementMoves \/ DayPasses \/ UNCHANGED vars
  BY <1>1, <1>4 DEF EngagementMoves, DayPasses, vars, rows
<1>5. ASSUME NEW r \in Requests, Begin(r) \/ Upload(r) \/ Put(r) \/ Plan(r) \/ Refused(r) \/ Die(r) PROVE UNCHANGED <<file, receipts>>
  BY <1>5 DEF Begin, Upload, Put, Plan, Refused, Die, rows
<1>6. ASSUME NEW w \in Sweepers, Select(w) \/ SweepList(w) \/ SweepDelete(w) \/ SweepFails(w) PROVE UNCHANGED <<file, receipts>>
  BY <1>6 DEF Select, SweepList, SweepDelete, SweepFails, rows
<1> QED  BY <1>1, <1>2, <1>3, <1>4, <1>5, <1>6 DEF Next, Serve, Sweep

(* A receipt is of a file that was reserved, and true. *)
ReceiptsInv ==
  /\ ReceiptsAreTrue
  /\ \A f \in Files : <<f, "STAGED">> \in receipts => file[f].state # "ABSENT"

(* A command that answered that it staged, committed or rejected a file did *)
(* so, for any number of sweeps between its builder and its batch (the      *)
(* assertions 72, 73 and 74 of file.stage, file.commit and file.reject).    *)
THEOREM AnswersAreTrue == Spec => []ReceiptsAreTrue
<1>1. Init => ReceiptsInv
  BY DEF Init, ReceiptsInv, ReceiptsAreTrue
<1>2. ReceiptsInv /\ FilesInv /\ [Next]_vars => ReceiptsInv'
  <2> SUFFICES ASSUME ReceiptsInv, FilesInv, [Next]_vars, NEW f \in Files
               PROVE  /\ <<f, "STAGED">> \in receipts' => file'[f].digest # NoDigest /\ file'[f].state # "ABSENT"
                      /\ <<f, "COMMITTED">> \in receipts' => file'[f].state = "COMMITTED"
                      /\ <<f, "REJECTED">> \in receipts' => file'[f].state = "REJECTED"
    BY DEF ReceiptsInv, ReceiptsAreTrue
  <2>1. RowStep(f)
    BY StepRows
  <2>2. \A s \in States : <<f, s>> \in receipts' => <<f, s>> \in receipts \/ file'[f].state = s
    BY StepRows
  <2>3. <<f, "STAGED">> \in receipts' => <<f, "STAGED">> \in receipts \/ file'[f].digest \in Digests
    BY StepRows
  <2>4. NoDigest \notin Digests
    BY NamesAssumption
  <2>5. <<f, "STAGED">> \in receipts' => file'[f].digest # NoDigest /\ file'[f].state # "ABSENT"
    BY <2>1, <2>2, <2>3, <2>4 DEF RowStep, ReceiptsInv, ReceiptsAreTrue, States
  <2>6. /\ <<f, "COMMITTED">> \in receipts' => file'[f].state = "COMMITTED"
        /\ <<f, "REJECTED">> \in receipts' => file'[f].state = "REJECTED"
    BY <2>1, <2>2 DEF RowStep, ReceiptsInv, ReceiptsAreTrue, States
  <2> QED  BY <2>5, <2>6
<1>3. ReceiptsInv => ReceiptsAreTrue
  BY DEF ReceiptsInv
<1> QED  BY <1>1, <1>2, <1>3, FilesInvHolds, PTL DEF Spec

(* Once an engagement is locked, only evidence of a payment is committed,   *)
(* and once it is sealed no other row of a file changes (the assertions 71  *)
(* and 73, the triggers of migration 0026, the sweep's join on the seal).   *)
THEOREM LockedStays == Spec => LockedContentStays
<1>1. ASSUME FilesInv, [Next]_vars
      PROVE  \A f \in Files : file'[f].purpose # "PAYMENT" =>
               /\ Locked /\ file'[f].state = "COMMITTED" => file[f].state = "COMMITTED"
               /\ phase = "sealed" => file'[f] = file[f]
  BY <1>1, StepRows DEF RowStep
<1>2. FilesInv /\ [Next]_vars =>
        [\A f \in Files : file'[f].purpose # "PAYMENT" =>
           /\ Locked /\ file'[f].state = "COMMITTED" => file[f].state = "COMMITTED"
           /\ phase = "sealed" => file'[f] = file[f]]_vars
  BY <1>1
<1> QED  BY <1>2, FilesInvHolds, PTL DEF Spec, LockedContentStays

----
(* The chain of answers. *)

(* What the status of the request says of its answers. *)
RequestRight ==
  /\ pbc.status = "ABSENT" => pbc.version = 0
  /\ pbc.current = Len(answers)
  /\ answers = <<>> <=> pbc.status \in {"ABSENT", "PENDING_UPLOAD"}
  /\ pbc.status = "UNDER_REVIEW" => answers[Len(answers)].decision = "NONE"
  /\ pbc.status = "REJECTED_REUPLOAD_REQUIRED" => answers[Len(answers)].decision = "REJECT"
  /\ pbc.status = "APPROVED" => answers[Len(answers)].decision = "APPROVE"

(* A file is reserved for a version that the request has had, and while the *)
(* request asks for that version, as the successor of what it then had.     *)
ReservedRight ==
  \A f \in Files :
    /\ file[f].asked <= pbc.version
    /\ file[f].purpose = "PBC" /\ file[f].asked = pbc.version /\ Open => file[f].prior = Predecessor

(* A file that answered was asked for by a version that is past. *)
AnsweredBefore == \A i \in 1..Len(answers) : file[answers[i].file].asked < pbc.version

ChainInv == RequestRight /\ ReservedRight /\ AnsweredBefore /\ AnswersFormAChain

(* Every answer is a row of the answers, of a file. *)
LEMMA AnswerTyped ==
  ASSUME FilesInv
  PROVE  /\ answers \in Seq(Answers) /\ Len(answers) \in Nat /\ DOMAIN answers = 1..Len(answers)
         /\ \A i \in 1..Len(answers) : answers[i] \in Answers /\ answers[i].file \in Files
         /\ pbc \in PbcRows /\ pbc.version \in Nat
<1>1. answers \in Seq(Answers) /\ pbc \in PbcRows
  BY DEF FilesInv, TypeOK
<1>2. \A i \in 1..Len(answers) : answers[i] \in Answers
  BY <1>1
<1> QED  BY <1>1, <1>2 DEF Answers, PbcRows

(* While the request and its answers stay, a file that answered is          *)
(* committed and stays, and a file that is reserved is so for the request.  *)
LEMMA ChainKeptByRows ==
  ASSUME FilesInv, ChainInv, UNCHANGED requestRows, \A f \in Files : RowStep(f)
  PROVE  ChainInv'
<1>1. pbc' = pbc /\ answers' = answers
  BY DEF requestRows
<1>2. \A i \in 1..Len(answers) : file'[answers[i].file] = file[answers[i].file]
  <2> SUFFICES ASSUME NEW i \in 1..Len(answers) PROVE file'[answers[i].file] = file[answers[i].file]
    OBVIOUS
  <2>1. answers[i].file \in Files /\ file[answers[i].file].state = "COMMITTED"
    BY AnswerTyped DEF ChainInv, AnswersFormAChain
  <2> QED  BY <2>1 DEF RowStep
<1>3. RequestRight' /\ (Open' <=> Open) /\ Predecessor' = Predecessor
  BY <1>1 DEF ChainInv, RequestRight, Open, Predecessor
<1>4. ASSUME NEW f \in Files
      PROVE  /\ file'[f].asked <= pbc.version
             /\ file'[f].purpose = "PBC" /\ file'[f].asked = pbc.version /\ Open => file'[f].prior = Predecessor
  <2>1. CASE file'[f].purpose = file[f].purpose /\ file'[f].asked = file[f].asked /\ file'[f].prior = file[f].prior
    BY <2>1 DEF ChainInv, ReservedRight
  <2>2. CASE IF file'[f].purpose = "PBC"
             THEN Open /\ file'[f].asked = pbc.version /\ file'[f].prior = Predecessor
             ELSE file'[f].asked = 0
    BY <2>2, AnswerTyped
  <2> QED  BY <2>1, <2>2 DEF RowStep
<1>5. AnsweredBefore'
  BY <1>1, <1>2 DEF ChainInv, AnsweredBefore
<1>6. AnswersFormAChain'
  BY <1>1, <1>2, AnswerTyped DEF ChainInv, AnswersFormAChain
<1> QED  BY <1>1, <1>3, <1>4, <1>5, <1>6 DEF ChainInv, ReservedRight

(* The request is made. *)
LEMMA ChainCreated ==
  ASSUME FilesInv, ChainInv, pbc.status = "ABSENT", CreateRequest
  PROVE  ChainInv'
<1>1. pbc' = [version |-> 1, status |-> "PENDING_UPLOAD", current |-> 0] /\ UNCHANGED <<answers, file>>
  BY DEF CreateRequest
<1>2. answers = <<>> /\ Len(answers) = 0 /\ pbc.version = 0
  BY DEF ChainInv, RequestRight
<1>3. RequestRight'
  BY <1>1, <1>2 DEF RequestRight
<1>4. ReservedRight'
  <2> SUFFICES ASSUME NEW f \in Files PROVE file[f].asked <= 1 /\ file[f].asked # 1
    BY <1>1 DEF ReservedRight
  <2>1. file[f].asked \in Nat /\ file[f].asked <= 0
    BY <1>2 DEF FilesInv, TypeOK, FileRows, ChainInv, ReservedRight
  <2> QED  BY <2>1
<1>5. AnsweredBefore' /\ AnswersFormAChain'
  BY <1>1, <1>2 DEF AnsweredBefore, AnswersFormAChain
<1> QED  BY <1>3, <1>4, <1>5 DEF ChainInv

(* An answer is given: it is the successor of the last one, if there is     *)
(* one, and its file, reserved for this version, has not answered before.   *)
LEMMA ChainExtended ==
  ASSUME FilesInv, ChainInv, NEW c, c.file \in Files, Open, AnswersRequest(c.file), Submit(c)
  PROVE  ChainInv'
<1> DEFINE n == Len(answers)
           a == [file |-> c.file, supersedes |-> IF Predecessor = NoFile THEN 0 ELSE pbc.current,
                 decision |-> "NONE", reviewed |-> NoDigest]
<1>1. /\ answers \in Seq(Answers) /\ n \in Nat /\ DOMAIN answers = 1..n /\ pbc.version \in Nat
      /\ \A i \in 1..n : answers[i].file \in Files
  BY AnswerTyped
<1>2. /\ answers' = Append(answers, a) /\ file' = file
      /\ pbc' = [version |-> pbc.version + 1, status |-> "UNDER_REVIEW", current |-> n + 1]
  BY DEF Submit
<1>3. /\ a.file = c.file /\ a.supersedes = (IF Predecessor = NoFile THEN 0 ELSE pbc.current)
      /\ a.decision = "NONE"
  OBVIOUS
<1>4. /\ file[c.file].purpose = "PBC" /\ file[c.file].state = "COMMITTED"
      /\ file[c.file].asked = pbc.version /\ file[c.file].prior = Predecessor
  BY DEF AnswersRequest, ChainInv, ReservedRight
<1>5. a.supersedes = n /\ Predecessor = IF n = 0 THEN NoFile ELSE answers[n].file
  <2>1. CASE pbc.status = "PENDING_UPLOAD"
    BY <1>3, <2>1 DEF ChainInv, RequestRight, Predecessor
  <2>2. CASE pbc.status = "REJECTED_REUPLOAD_REQUIRED"
    <3>1. answers # <<>> /\ pbc.current = n
      BY <2>2 DEF ChainInv, RequestRight
    <3>2. n \in 1..n
      BY <1>1, <3>1
    <3>3. Predecessor = answers[n].file /\ Predecessor # NoFile
      BY <1>1, <2>2, <3>1, <3>2, NamesAssumption DEF Predecessor
    <3> QED  BY <1>3, <3>1, <3>2, <3>3
  <2> QED  BY <2>1, <2>2 DEF Open
<1> HIDE DEF a, n
<1>6. /\ Len(answers') = n + 1 /\ DOMAIN answers' = 1..(n + 1)
      /\ answers'[n + 1] = a /\ \A i \in 1..n : answers'[i] = answers[i]
  BY <1>1, <1>2 DEF n
<1>7. \A i \in 1..(n + 1) : i = n + 1 \/ i \in 1..n
  BY <1>1
<1>8. /\ \A i \in 1..n : answers[i].decision = "REJECT"
      /\ \A i \in 1..n : file[answers[i].file].asked < pbc.version
  <2>1. n = 0 \/ answers[n].decision = "REJECT"
    BY <1>1 DEF ChainInv, RequestRight, Open, n
  <2> QED  BY <1>1, <2>1 DEF ChainInv, AnswersFormAChain, AnsweredBefore, n
<1>9. RequestRight'
  <2>1. answers' # <<>>
    BY <1>1, <1>6
  <2> QED  BY <1>1, <1>2, <1>3, <1>6, <2>1 DEF RequestRight
<1>10. ReservedRight'
  <2> SUFFICES ASSUME NEW f \in Files PROVE file[f].asked <= pbc.version + 1 /\ file[f].asked # pbc.version + 1
    BY <1>2 DEF ReservedRight
  <2>1. file[f].asked \in Nat /\ file[f].asked <= pbc.version
    BY DEF FilesInv, TypeOK, FileRows, ChainInv, ReservedRight
  <2> QED  BY <1>1, <2>1
<1>11. AnsweredBefore'
  <2> SUFFICES ASSUME NEW i \in 1..(n + 1) PROVE file[answers'[i].file].asked < pbc.version + 1
    BY <1>2, <1>6 DEF AnsweredBefore
  <2>1. answers'[i].file \in Files
    BY <1>1, <1>3, <1>6, <1>7
  <2>2. file[answers'[i].file].asked <= pbc.version
    BY <2>1 DEF ChainInv, ReservedRight
  <2>3. file[answers'[i].file].asked \in Nat
    BY <2>1 DEF FilesInv, TypeOK, FileRows
  <2> QED  BY <1>1, <2>2, <2>3
<1>12. ASSUME NEW i \in 1..(n + 1), NEW j \in 1..(n + 1), answers'[i].file = answers'[j].file PROVE i = j
  <2>1. \A k \in 1..n : answers[k].file # c.file
    BY <1>1, <1>4, <1>8
  <2>2. \A k, l \in 1..n : answers[k].file = answers[l].file => k = l
    BY <1>1 DEF ChainInv, AnswersFormAChain
  <2> QED  BY <1>3, <1>6, <1>7, <1>12, <2>1, <2>2
<1>13. ASSUME NEW i \in 1..(n + 1)
       PROVE  LET b == answers'[i]  f == file[b.file] IN
              /\ f.state = "COMMITTED"
              /\ b.supersedes = i - 1
              /\ f.prior = IF i = 1 THEN NoFile ELSE answers'[i - 1].file
              /\ i < n + 1 => b.decision = "REJECT"
              /\ b.decision # "NONE" => b.reviewed = f.digest
  <2>1. CASE i = n + 1
    <3>1. n # 0 => n \in 1..n
      BY <1>1
    <3>2. n + 1 - 1 = n /\ (n + 1 = 1 <=> n = 0)
      BY <1>1
    <3>3. answers'[i] = a /\ ~(i < n + 1) /\ i - 1 = n /\ (i = 1 <=> n = 0)
      BY <1>1, <1>6, <2>1, <3>2
    <3>4. n # 0 => answers'[i - 1] = answers[n]
      BY <1>6, <3>1, <3>3
    <3> QED  BY <1>3, <1>4, <1>5, <3>3, <3>4
  <2>2. CASE i \in 1..n
    <3>1. /\ file[answers[i].file].state = "COMMITTED" /\ answers[i].supersedes = i - 1
          /\ file[answers[i].file].prior = IF i = 1 THEN NoFile ELSE answers[i - 1].file
          /\ answers[i].decision # "NONE" => answers[i].reviewed = file[answers[i].file].digest
      BY <1>1, <2>2 DEF ChainInv, AnswersFormAChain
    <3>2. i # 1 => i - 1 \in 1..n
      BY <1>1, <2>2
    <3> QED  BY <1>6, <1>8, <2>2, <3>1, <3>2
  <2> QED  BY <1>7, <2>1, <2>2
<1>14. AnswersFormAChain'
  <2>1. pbc'.status # "APPROVED"
    BY <1>2
  <2> QED  BY <1>2, <1>6, <1>12, <1>13, <2>1 DEF AnswersFormAChain
<1> QED  BY <1>9, <1>10, <1>11, <1>14 DEF ChainInv

(* The last answer is reviewed. *)
LEMMA ChainReviewed ==
  ASSUME FilesInv, ChainInv, pbc.status = "UNDER_REVIEW", Review
  PROVE  ChainInv'
<1> DEFINE n == Len(answers)
<1>1. /\ answers \in Seq(Answers) /\ n \in Nat /\ DOMAIN answers = 1..n /\ pbc \in PbcRows /\ pbc.version \in Nat
      /\ \A i \in 1..n : answers[i] \in Answers /\ answers[i].file \in Files
  BY AnswerTyped
<1>2. pbc.current = n /\ n \in 1..n
  <2>1. answers # <<>> /\ pbc.current = n
    BY DEF ChainInv, RequestRight
  <2> QED  BY <1>1, <2>1
<1>3. PICK decision \in {"APPROVE", "REJECT"} :
        /\ answers' = [answers EXCEPT ![n].decision = decision,
                                      ![n].reviewed = file[answers[n].file].digest]
        /\ pbc' = [pbc EXCEPT !.version = pbc.version + 1,
                              !.status = IF decision = "APPROVE" THEN "APPROVED" ELSE "REJECTED_REUPLOAD_REQUIRED"]
        /\ file' = file
  BY <1>2 DEF Review
<1> HIDE DEF n
<1>4. /\ pbc'.version = pbc.version + 1 /\ pbc'.current = n
      /\ pbc'.status = IF decision = "APPROVE" THEN "APPROVED" ELSE "REJECTED_REUPLOAD_REQUIRED"
  BY <1>1, <1>2, <1>3 DEF PbcRows
<1>5. /\ DOMAIN answers' = 1..n /\ answers'[n].file = answers[n].file
      /\ answers'[n].supersedes = answers[n].supersedes
      /\ answers'[n].decision = decision /\ answers'[n].reviewed = file[answers[n].file].digest
      /\ \A i \in 1..n \ {n} : answers'[i] = answers[i]
  <2>1. answers[n] \in Answers
    BY <1>1, <1>2
  <2> QED  BY <1>1, <1>2, <1>3, <2>1 DEF Answers
<1>6. Len(answers') = n
  BY <1>1, <1>3 DEF n
<1>7. \A i \in 1..n : answers'[i].file = answers[i].file /\ answers'[i].supersedes = answers[i].supersedes
  BY <1>5
<1>8. RequestRight'
  <2>1. answers' # <<>>
    BY <1>1, <1>2, <1>6
  <2> QED  BY <1>3, <1>4, <1>5, <1>6, <2>1 DEF RequestRight
<1>9. ReservedRight'
  <2> SUFFICES ASSUME NEW f \in Files PROVE file[f].asked <= pbc.version + 1 /\ file[f].asked # pbc.version + 1
    BY <1>3, <1>4 DEF ReservedRight
  <2>1. file[f].asked \in Nat /\ file[f].asked <= pbc.version
    BY DEF FilesInv, TypeOK, FileRows, ChainInv, ReservedRight
  <2> QED  BY <1>1, <2>1
<1>10. AnsweredBefore'
  <2> SUFFICES ASSUME NEW i \in 1..n PROVE file[answers[i].file].asked < pbc.version + 1
    BY <1>3, <1>4, <1>6, <1>7 DEF AnsweredBefore
  <2>1. file[answers[i].file].asked \in Nat /\ file[answers[i].file].asked < pbc.version
    BY <1>1 DEF FilesInv, TypeOK, FileRows, ChainInv, AnsweredBefore, n
  <2> QED  BY <1>1, <2>1
<1>11. ASSUME NEW i \in 1..n
       PROVE  LET a == answers'[i]  f == file[a.file] IN
              /\ f.state = "COMMITTED"
              /\ a.supersedes = i - 1
              /\ f.prior = IF i = 1 THEN NoFile ELSE answers'[i - 1].file
              /\ i < n => a.decision = "REJECT"
              /\ a.decision # "NONE" => a.reviewed = f.digest
  <2>1. /\ file[answers[i].file].state = "COMMITTED" /\ answers[i].supersedes = i - 1
        /\ file[answers[i].file].prior = IF i = 1 THEN NoFile ELSE answers[i - 1].file
        /\ i < n => answers[i].decision = "REJECT"
        /\ answers[i].decision # "NONE" => answers[i].reviewed = file[answers[i].file].digest
    BY <1>1 DEF ChainInv, AnswersFormAChain, n
  <2>2. i # 1 => i - 1 \in 1..n
    BY <1>1
  <2>3. i = 1 \/ answers'[i - 1].file = answers[i - 1].file
    BY <1>7, <2>2
  <2>4. CASE i = n
    BY <1>1, <1>5, <1>7, <2>1, <2>3, <2>4
  <2>5. CASE i # n
    BY <1>5, <1>7, <2>1, <2>3, <2>5
  <2> QED  BY <2>4, <2>5
<1>12. AnswersFormAChain'
  <2>1. \A i, j \in 1..n : answers'[i].file = answers'[j].file => i = j
    BY <1>1, <1>7 DEF ChainInv, AnswersFormAChain
  <2>2. pbc'.status = "APPROVED" => answers' # <<>> /\ answers'[n].decision = "APPROVE"
    BY <1>1, <1>2, <1>3, <1>4, <1>5, <1>6
  <2> QED  BY <1>3, <1>5, <1>6, <1>11, <2>1, <2>2 DEF AnswersFormAChain
<1> QED  BY <1>8, <1>9, <1>10, <1>12 DEF ChainInv

(* The answers to a request form one chain, for any number of files and     *)
(* answers, whatever is reserved, swept and reviewed in between (pbc.submit *)
(* and pbc.review against file.reserve, whose predecessor is fixed then).   *)
THEOREM AnswersChained == Spec => []AnswersFormAChain
<1>1. Init => ChainInv
  <2> SUFFICES ASSUME Init PROVE ChainInv
    OBVIOUS
  <2>1. RequestRight /\ AnsweredBefore /\ AnswersFormAChain
    BY DEF Init, RequestRight, AnsweredBefore, AnswersFormAChain
  <2>2. ReservedRight
    BY DEF Init, ReservedRight
  <2> QED  BY <2>1, <2>2 DEF ChainInv
<1>2. FilesInv /\ ChainInv /\ [Next]_vars => ChainInv'
  <2> SUFFICES ASSUME FilesInv, ChainInv, [Next]_vars PROVE ChainInv'
    OBVIOUS
  <2>1. CASE UNCHANGED requestRows
    BY <2>1, StepRows, ChainKeptByRows
  <2>2. ASSUME NEW r \in Requests, Commit(r) PROVE ChainInv'
    <3> DEFINE c == req[r].command
    <3>1. Asserted(c) /\ Effect(c) /\ WellFormed(c)
      BY <2>2 DEF Commit, Applies, FilesInv, CommandRight
    <3>2. CASE c.op \in {"reserve", "stage", "commit", "reject"}
      BY <2>1, <3>1, <3>2 DEF Effect, Reserve, UpdateFile
    <3>3. CASE c.op = "create"
      BY <3>1, <3>3, ChainCreated DEF Asserted, Effect
    <3>4. CASE c.op = "submit"
      <4>1. Open /\ AnswersRequest(c.file) /\ Submit(c) /\ c.file \in Files
        BY <3>1, <3>4 DEF Asserted, Effect, WellFormed
      <4> QED  BY <4>1, ChainExtended
    <3>5. CASE c.op = "review"
      BY <3>1, <3>5, ChainReviewed DEF Asserted, Effect
    <3> QED  BY <3>1, <3>2, <3>3, <3>4, <3>5 DEF Effect
  <2>3. (\E r \in Requests : Commit(r)) \/ UNCHANGED requestRows
    BY DEF Next, Serve, Sweep, EngagementMoves, DayPasses, Begin, Upload, Put, Plan, Refused, Die,
           Select, SweepRow, SweepList, SweepDelete, SweepFails, vars, rows
  <2> QED  BY <2>1, <2>2, <2>3
<1>3. ChainInv => AnswersFormAChain
  BY DEF ChainInv
<1> QED  BY <1>1, <1>2, <1>3, FilesInvHolds, PTL DEF Spec

================================================================================
