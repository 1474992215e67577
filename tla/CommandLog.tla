------------------------------ MODULE CommandLog ------------------------------
(***************************************************************************)
(* What the business command bus promises its callers, whatever happens    *)
(* underneath: a workspace has one append-only log of events; an           *)
(* idempotency key executes at most one command, all of whose events enter *)
(* the log together; a caller told that its command succeeded is told so   *)
(* of a command that is in the log, and of the one it sent; a caller told  *)
(* that its command was refused did not put it there.                      *)
(*                                                                         *)
(* CommandBus, the detailed specification, implements this one.            *)
(***************************************************************************)
EXTENDS Naturals, Sequences

CONSTANTS
  Requests,     (* HTTP requests, each of them sent once                   *)
  Keys,         (* idempotency keys                                        *)
  Commands,     (* what a request may ask for                              *)
  System,       (* the author of the events that no request causes         *)
  NoOutcome,    (* the outcome of a key that has executed nothing          *)
  Parts(_)      (* how many events a command puts into the log             *)

VARIABLES
  sent,         (* sent[r]: the key and the command of request r           *)
  outcome,      (* outcome[k]: the request and command key k executed      *)
  log,          (* the events, in order                                    *)
  answer        (* answer[r]: what the sender of r was told                *)

abstractVars == <<sent, outcome, log, answer>>

Init ==
  /\ sent \in [Requests -> [key : Keys, cmd : Commands]]
  /\ outcome = [k \in Keys |-> NoOutcome]
  /\ log = <<>>
  /\ answer = [r \in Requests |-> "none"]

OutcomeFor(r) == outcome[sent[r].key]

(* The events of request r's command. *)
Entry(r) == [i \in 1..Parts(sent[r].cmd) |-> <<r, i>>]

(* r's key executes r's command; r may learn of it in the same step. *)
Execute(r) ==
  /\ OutcomeFor(r) = NoOutcome
  /\ answer[r] = "none"
  /\ outcome' = [outcome EXCEPT ![sent[r].key] = [by |-> r, cmd |-> sent[r].cmd]]
  /\ log' = log \o Entry(r)
  /\ answer' \in {answer, [answer EXCEPT ![r] = "done"]}
  /\ UNCHANGED sent

(* The command r asked for is the one its key has executed, for r or for    *)
(* another request.                                                         *)
Confirm(r) ==
  /\ answer[r] = "none"
  /\ OutcomeFor(r) # NoOutcome
  /\ OutcomeFor(r).cmd = sent[r].cmd
  /\ answer' = [answer EXCEPT ![r] = "done"]
  /\ UNCHANGED <<sent, outcome, log>>

(* r is told that its command did not take effect, and it did not. *)
Refuse(r) ==
  /\ answer[r] = "none"
  /\ \A k \in Keys : outcome[k] # NoOutcome => outcome[k].by # r
  /\ answer' = [answer EXCEPT ![r] = "refused"]
  /\ UNCHANGED <<sent, outcome, log>>

(* r's sender is left not knowing. *)
Lose(r) ==
  /\ answer[r] = "none"
  /\ answer' = [answer EXCEPT ![r] = "unknown"]
  /\ UNCHANGED <<sent, outcome, log>>

(* A background job appends an event of its own. *)
SystemEvent ==
  /\ log' = Append(log, <<System, 1>>)
  /\ UNCHANGED <<sent, outcome, answer>>

Next ==
  \/ \E r \in Requests : Execute(r) \/ Confirm(r) \/ Refuse(r) \/ Lose(r)
  \/ SystemEvent

Spec == Init /\ [][Next]_abstractVars
===============================================================================
