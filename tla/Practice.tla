------------------------------- MODULE Practice -------------------------------
(***************************************************************************)
(* Charge-out rates, the time of one member of staff on one engagement,    *)
(* its budget and the management reports drawn from them and from its      *)
(* billing (worker/businessPractice.ts, worker/businessPolicy.ts).         *)
(*                                                                         *)
(* The engagement has its letter and is not locked.  A report's cutoff is  *)
(* the end of a day.  Money is minutes times the number of the rate.       *)
(***************************************************************************)
EXTENDS Billing, SequencesExt

CONSTANTS
  Preparer,       (* the member of staff, an actor too                     *)
  TimeEntries,    (* names of time entries                                 *)
  DayMinutes,     (* 1,440 in the code                                     *)
  Starts,         (* minutes of the day a timed entry starts at            *)
  MaxRates,       (* bound: rates set, the bootstrap's included            *)
  MaxSnapshots    (* bound: reports captured                               *)

ASSUME PracticeAssumption ==
  /\ DayMinutes \in Nat \ {0} /\ MaxRates \in Nat \ {0} /\ MaxSnapshots \in Nat
  /\ Starts \subseteq 1..DayMinutes /\ Preparer \notin Actors
  /\ IsFiniteSet(TimeEntries)

VARIABLES
  activations,    (* policy_activations of one grade, in the order approved*)
  rank,           (* the grade of the member of staff                      *)
  entries,        (* firm_time_entries and firm_time_corrections           *)
  budgets,        (* engagement_budgets, the days approved                 *)
  snapshots       (* profitability_snapshots and utilization_snapshots     *)

practice == <<activations, rank, entries, budgets, snapshots>>
books == <<ledger, billing>>

----
People == Actors \cup {Preparer}
Untimed == 0

(* The event of a grade that holds on a day: of those effective by then,    *)
(* the one that takes effect last, and of equals the one approved last.     *)
Takes(k, d) ==
  /\ activations[k].from <= d
  /\ \A l \in DOMAIN activations :
       activations[l].from <= d =>
         \/ activations[l].from < activations[k].from
         \/ activations[l].from = activations[k].from /\ l <= k
NoRate == 0
RateOn(d) ==
  LET held == {k \in DOMAIN activations : Takes(k, d) /\ activations[k].action = "ACTIVATE"}
  IN IF held = {} THEN NoRate ELSE activations[CHOOSE k \in held : TRUE].rate

(* Whoever is of another grade is charged that grade's rate, which stays    *)
(* the bootstrap's.                                                         *)
Ranks == {"SENIOR", "ASSOCIATE"}
OtherRate == MaxRates + 1
StaffRate(d) == IF rank = "SENIOR" THEN RateOn(d) ELSE OtherRate

Event(rate, action, from) == [rate |-> rate, action |-> action, from |-> from]
LatestFrom == Max({activations[k].from : k \in DOMAIN activations})
Rates == {activations[k].rate : k \in DOMAIN activations}

(* A policy supersedes the one in force on the day it takes effect, which   *)
(* is retired the same day.                                                 *)
Activate(rate, from) ==
  /\ today <= from
  /\ LatestFrom <= from
  /\ RateOn(from) # rate
  /\ LET retired == IF RateOn(from) = NoRate THEN <<>> ELSE <<Event(RateOn(from), "RETIRE", from)>>
     IN activations' = activations \o Append(retired, Event(rate, "ACTIVATE", from))

RateSet(from) ==
  /\ Cardinality(Rates) < MaxRates
  /\ today < from
  /\ ~\E k \in DOMAIN activations : activations[k].action = "ACTIVATE" /\ from <= activations[k].from
  /\ Activate(Cardinality(Rates) + 1, from)
  /\ UNCHANGED <<today, books, rank, entries, budgets, snapshots>>

(* Mutant: a rate is retired from any day. *)
RateRetireEver(rate, from) ==
  /\ RateOn(from) = rate
  /\ activations' = Append(activations, Event(rate, "RETIRE", from))
  /\ UNCHANGED <<today, books, rank, entries, budgets, snapshots>>

RateRetire(rate, from) ==
  /\ today <= from
  /\ RateOn(from) = rate
  /\ activations' = Append(activations, Event(rate, "RETIRE", from))
  /\ UNCHANGED <<today, books, rank, entries, budgets, snapshots>>

(* A preparer may be of any grade; what was charged stays.                  *)
Regrade(g) ==
  /\ rank' = g
  /\ UNCHANGED <<today, books, activations, entries, budgets, snapshots>>

----
NoEntry == [status |-> "ABSENT", day |-> 0, minutes |-> 0, start |-> Untimed, rate |-> NoRate, creator |-> "none",
            submitter |-> "none", approver |-> "none", createdOn |-> 0, approvedOn |-> 0, correctedOn |-> 0]

Corrected(t) == entries[t].correctedOn # 0
Others(t, d, statuses) == {u \in TimeEntries \ {t} : entries[u].status \in statuses /\ entries[u].day = d}
Standing(t, d, statuses) == {u \in Others(t, d, statuses) : ~Corrected(u)}
MinutesOf(S) == SumFunction([u \in S |-> entries[u].minutes])

Overlap(s, m, u) ==
  /\ s # Untimed /\ entries[u].start # Untimed
  /\ entries[u].start < s + m /\ s < entries[u].start + entries[u].minutes

TimeCreate(x, t, d, m, s) ==
  /\ entries[t].status = "ABSENT"
  /\ ~\E u \in Others(t, d, {"DRAFT", "SUBMITTED", "APPROVED"}) : Overlap(s, m, u)
  /\ entries' = [entries EXCEPT ![t] =
       [NoEntry EXCEPT !.status = "DRAFT", !.day = d, !.minutes = m, !.start = s, !.creator = x, !.createdOn = today]]
  /\ UNCHANGED <<today, books, activations, rank, budgets, snapshots>>

FitsDay(t, d, m, statuses) == MinutesOf(Standing(t, d, statuses)) + m <= DayMinutes

(* Mutant: time is submitted though no rate holds on its day. *)
TimeSubmitUnrated(x, t) ==
  LET e == entries[t] IN
  /\ e.status \in {"DRAFT", "RETURNED"} /\ FitsDay(t, e.day, e.minutes, {"SUBMITTED", "APPROVED"})
  /\ entries' = [entries EXCEPT ![t] = [e EXCEPT !.status = "SUBMITTED", !.rate = StaffRate(e.day), !.submitter = x]]
  /\ UNCHANGED <<today, books, activations, rank, budgets, snapshots>>

TimeSubmit(x, t) ==
  LET e == entries[t] IN
  /\ e.status \in {"DRAFT", "RETURNED"}
  /\ x = Preparer => e.creator = x
  /\ StaffRate(e.day) # NoRate
  /\ FitsDay(t, e.day, e.minutes, {"SUBMITTED", "APPROVED"})
  /\ ~\E u \in Standing(t, e.day, {"SUBMITTED", "APPROVED"}) : Overlap(e.start, e.minutes, u)
  /\ entries' = [entries EXCEPT ![t] = [e EXCEPT !.status = "SUBMITTED", !.rate = StaffRate(e.day), !.submitter = x]]
  /\ UNCHANGED <<today, books, activations, rank, budgets, snapshots>>

TimeDecide(x, t, status) ==
  LET e == entries[t] IN
  /\ e.status = "SUBMITTED"
  /\ x \notin {e.submitter, e.creator}
  /\ entries' = [entries EXCEPT ![t] =
       IF status = "APPROVED" THEN [e EXCEPT !.status = status, !.approver = x, !.approvedOn = today]
                              ELSE [e EXCEPT !.status = status]]
  /\ UNCHANGED <<today, books, activations, rank, budgets, snapshots>>

(* Approved time is never changed: it is struck out, or replaced by an      *)
(* entry that is approved at once and whose day counts approved time only.  *)
Correctable(x, t) ==
  /\ entries[t].status = "APPROVED"
  /\ x \notin {entries[t].approver, entries[t].submitter}
  /\ ~Corrected(t)

TimeStrike(x, t) ==
  /\ Correctable(x, t)
  /\ entries' = [entries EXCEPT ![t].correctedOn = today]
  /\ UNCHANGED <<today, books, activations, rank, budgets, snapshots>>

TimeReplace(x, t, r, d, m, s) ==
  /\ Correctable(x, t)
  /\ entries[r].status = "ABSENT"
  /\ StaffRate(d) # NoRate
  /\ FitsDay(t, d, m, {"APPROVED"})
  /\ entries' = [entries EXCEPT ![t].correctedOn = today,
       ![r] = [status |-> "APPROVED", day |-> d, minutes |-> m, start |-> s, rate |-> StaffRate(d), creator |-> x,
               submitter |-> entries[t].submitter, approver |-> x, createdOn |-> today, approvedOn |-> today,
               correctedOn |-> 0]]
  /\ UNCHANGED <<today, books, activations, rank, budgets, snapshots>>

----
(* The budget takes the rate of the UTC day, which is yesterday for the     *)
(* first hours of a day in Qatar.                                           *)
BudgetApprove(d) ==
  /\ Len(budgets) < 1
  /\ RateOn(d) # NoRate
  /\ budgets' = Append(budgets, today)
  /\ UNCHANGED <<today, books, activations, rank, entries, snapshots>>

(* Mutant: a correction strikes the entry from reports of days before it. *)
StandsNow(t, c) == ~Corrected(t)

StandsAt(t, c) == ~(Corrected(t) /\ entries[t].correctedOn <= c)
ApprovedBy(t, c) == entries[t].status = "APPROVED" /\ entries[t].approvedOn <= c

CountedBy(c) == {t \in TimeEntries : ApprovedBy(t, c) /\ StandsAt(t, c)}
ChargeOut(c) == SumFunction([t \in CountedBy(c) |-> entries[t].minutes * entries[t].rate])
Pending(c) ==
  MinutesOf({t \in TimeEntries : /\ entries[t].status # "ABSENT" /\ entries[t].createdOn <= c
                                 /\ ~ApprovedBy(t, c) /\ StandsAt(t, c)})
BudgetAt(c) ==
  LET by == {k \in DOMAIN budgets : budgets[k] <= c} IN IF by = {} THEN 0 ELSE Max(by)
Work(c) == [budget |-> BudgetAt(c), minutes |-> MinutesOf(CountedBy(c)), value |-> ChargeOut(c), pending |-> Pending(c)]

(* Bills and receipts go by their own dates, not by when they were entered. *)
Billed(c) ==
  Max({0, SumFunction([i \in {k \in Kinds : IssuedBy(k, c)} |-> Total(i)])
            - SumFunction([i \in Kinds |-> Until(credits[i], c)])})
Collected(c) ==
  SumFunction([p \in {q \in Payments : Original(q) /\ payments[q].date <= c} |-> payments[p].amount])
    - SumFunction([p \in {q \in Payments : IsReversed(q) /\ payments[q].reversedOn <= c} |-> payments[p].amount])

(* All the time is grouped under the grade its member of staff has now.     *)
Report(c) == [cutoff |-> c, work |-> Work(c), grade |-> rank, billed |-> Billed(c), collected |-> Collected(c)]

(* The cutoffs here are days that are over; a report of today may change.   *)
CaptureProfitability(c) ==
  /\ Cardinality(snapshots) < MaxSnapshots
  /\ BudgetAt(c) # 0
  /\ snapshots' = snapshots \cup {Report(c)}
  /\ UNCHANGED <<today, books, activations, rank, entries, budgets>>

PracticeNextDay == today < LastDay /\ today' = today + 1 /\ UNCHANGED <<books, practice>>

----
(* The bootstrap approves a rate for every grade.                           *)
PracticeInit ==
  /\ BillingInit
  /\ activations = <<Event(1, "ACTIVATE", 1)>>
  /\ rank \in Ranks
  /\ entries = [t \in TimeEntries |-> NoEntry]
  /\ budgets = <<>>
  /\ snapshots = {}

PracticeNext ==
  \/ PracticeNextDay
  \/ \E d \in Days : RateSet(d)
  \/ \E g \in Ranks : Regrade(g)
  \/ \E c \in 1..(today - 1) : CaptureProfitability(c)
  \/ \E d \in {today - 1, today} : BudgetApprove(d)
  \/ \E rate \in Rates, d \in Days : RateRetire(rate, d)
  \/ \E x \in People, t \in TimeEntries : TimeSubmit(x, t)
  \/ \E x \in Actors, t \in TimeEntries :
       \/ TimeStrike(x, t)
       \/ \E status \in {"APPROVED", "RETURNED"} : TimeDecide(x, t, status)
  \/ \E t \in TimeEntries, d \in Days, m \in 1..DayMinutes, s \in Starts \cup {Untimed} :
       \/ \E x \in People : TimeCreate(x, t, d, m, s)
       \/ \E x \in Actors, r \in TimeEntries : TimeReplace(x, t, r, d, m, s)

PracticeSpec == PracticeInit /\ [][PracticeNext]_<<today, books, practice>>

----
PracticeTypeOK ==
  /\ rank \in Ranks
  /\ \A t \in TimeEntries :
       /\ entries[t].status \in {"ABSENT", "DRAFT", "SUBMITTED", "RETURNED", "APPROVED"}
       /\ entries[t].status = "SUBMITTED" => entries[t].rate # NoRate
       /\ Corrected(t) => entries[t].status = "APPROVED" /\ entries[t].approvedOn <= entries[t].correctedOn
  /\ \A k \in DOMAIN activations : activations[k].action \in {"ACTIVATE", "RETIRE"} /\ activations[k].from \in Days

(* Property: "Historical work keeps its approved rate": the rate of a day   *)
(* that is over never changes, whatever is scheduled, superseded or retired *)
(* later (activationStatements, retirePolicy).                              *)
PastRatesAreFixed == [][\A d \in 1..(today - 1) : RateOn(d)' = RateOn(d)]_<<today, activations>>

(* Property: the work a report counts is reproducible.  Drawn up again, it  *)
(* gives the budget, the minutes, their value and what was pending as the   *)
(* snapshot kept them of a day that was over, though entries dated before   *)
(* it have been submitted, approved, struck out or replaced since, the      *)
(* member of staff regraded, and rates changed (profitability,              *)
(* buildCaptureProfitability).  Not so the grade the time is grouped under, *)
(* nor what is billed and collected, until the books are closed:            *)
SnapshotsReproduce == \A s \in snapshots : s.work = Work(s.cutoff)

(* Property: what a report says is billed and collected by a cutoff is      *)
(* final once every period up to it is closed, though invoices, receipts,   *)
(* reversals and credit notes are recorded later and may be dated earlier   *)
(* (profitability, payment.record, credit-note.issue).                      *)
SettledFiguresAreFinal ==
  [][\A c \in Days : (\A d \in 1..c : Closed(d)) =>
       Billed(c)' = Billed(c) /\ Collected(c)' = Collected(c)]_<<periods, billing>>
================================================================================
