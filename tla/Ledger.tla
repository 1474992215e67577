-------------------------------- MODULE Ledger --------------------------------
(***************************************************************************)
(* The firm's own books (worker/businessPractice.ts): accounting periods,  *)
(* journals, expenses, partner withdrawals and petty cash.                 *)
(*                                                                         *)
(* A journal is named by its source_event_key, which the database keeps    *)
(* unique, and its lines by the balance they add to each account; dates    *)
(* are days 1, 2, ...  A command is one step: CommandBus shows that its    *)
(* batch commits only on the audit head its checks were made on.           *)
(***************************************************************************)
EXTENDS Integers, FiniteSets, Functions, FiniteSetsExt

CONSTANTS
  Actors,         (* reviewers and partners                                *)
  LastDay,        (* bound: days 1..LastDay                                *)
  YearEnd,        (* last day of the period that the bootstrap opens       *)
  Entries,        (* names for manual journals, expenses and transfers     *)
  Amounts,        (* amounts of an entry, in minor units                   *)
  MaxCorrections  (* bound: corrections of what was booked before          *)

ASSUME LedgerAssumption ==
  /\ LastDay \in Nat /\ YearEnd \in 1..LastDay /\ MaxCorrections \in Nat
  /\ Amounts \subseteq Nat \ {0}

VARIABLES
  today,          (* the Qatar calendar day                                *)
  periods,        (* accounting_periods                                    *)
  journals,       (* firm_journals and their lines, by source event key    *)
  expenses        (* firm_expenses, by name                                *)

ledger == <<periods, journals, expenses>>

----
Days == 1..LastDay
Accounts == {"BANK", "CASH", "AR", "UNALLOCATED", "LIABILITY", "VAT",
             "AP", "DRAWINGS", "REVENUE", "EXPENSE"}

NoKey == <<"none">>

Period(first, last, status) == [first |-> first, last |-> last, status |-> status]
Covers(p, d) == p.first <= d /\ d <= p.last
(* Mutant: any period of the day will do, closed or open. *)
PeriodOn(d) == \E p \in periods : Covers(p, d)

OpenOn(d) == \E p \in periods : p.status = "OPEN" /\ Covers(p, d)

Booked(key) == key \in DOMAIN journals /\ journals[key].status = "POSTED"
Drafts == {key \in DOMAIN journals : journals[key].status = "DRAFT"}
PostedKeys == DOMAIN journals \ Drafts

Journal(d, status, by, net, reverses) ==
  [date |-> d, status |-> status, by |-> by, net |-> net, reverses |-> reverses]

WithJournal(key, j) == [k \in DOMAIN journals \cup {key} |-> IF k = key THEN j ELSE journals[k]]

(* Lines: a debit of n on an account counts n, a credit -n.                *)
Nothing == [a \in Accounts |-> 0]
Line(account, n) == [Nothing EXCEPT ![account] = n]
Plus(x, y) == [a \in Accounts |-> x[a] + y[a]]
Minus(x) == [a \in Accounts |-> -x[a]]
Transfer(debit, credit, n) == Plus(Line(debit, n), Line(credit, -n))

IsBalanced(net) == SumFunction(net) = 0 /\ net # Nothing

BalanceOn(account, d) ==
  SumFunction([k \in {key \in PostedKeys : journals[key].date <= d} |-> journals[k].net[account]])

(* A posted journal is inserted with its lines, unless its event is booked  *)
(* already, when nothing is; both ends of it must balance.                  *)
Book(key, d, by, net, reverses) ==
  IF Booked(key)
    THEN UNCHANGED journals
    ELSE /\ OpenOn(d)
         /\ IsBalanced(net)
         /\ journals' = WithJournal(key, Journal(d, "POSTED", by, net, reverses))

----
PeriodOpen(first, last) ==
  /\ first <= last
  /\ ~\E p \in periods : p.first <= last /\ first <= p.last
  /\ periods' = periods \cup {Period(first, last, "OPEN")}
  /\ UNCHANGED <<today, journals, expenses>>

PeriodClose(p) ==
  /\ p.status = "OPEN"
  /\ ~\E key \in Drafts : Covers(p, journals[key].date)
  /\ periods' = (periods \ {p}) \cup {[p EXCEPT !.status = "CLOSED"]}
  /\ UNCHANGED <<today, journals, expenses>>

Manual(e) == <<"manual", e>>

JournalCreate(actor, e, d, debit, credit, n) ==
  /\ Manual(e) \notin DOMAIN journals
  /\ debit # credit
  /\ OpenOn(d)
  /\ journals' = WithJournal(Manual(e), Journal(d, "DRAFT", actor, Transfer(debit, credit, n), NoKey))
  /\ UNCHANGED <<today, periods, expenses>>

JournalPost(actor, key) ==
  /\ key \in Drafts
  /\ journals[key].by # actor
  /\ OpenOn(journals[key].date)
  /\ IsBalanced(journals[key].net)
  /\ journals' = [journals EXCEPT ![key].status = "POSTED", ![key].by = actor]
  /\ UNCHANGED <<today, periods, expenses>>

Reversed(key) == \E k \in DOMAIN journals : journals[k].reverses = key
Corrections == {k \in DOMAIN journals : k[1] \in {"reverse", "return", "credit"}}

JournalReverse(actor, key, d) ==
  /\ Cardinality(Corrections) < MaxCorrections
  /\ Booked(key)
  /\ journals[key].by # actor
  /\ ~Reversed(key)
  /\ Book(<<"reverse", key>>, d, actor, Minus(journals[key].net), key)
  /\ UNCHANGED <<today, periods, expenses>>

----
NoExpense == [status |-> "ABSENT", by |-> "none", date |-> 0, settled |-> "none", amount |-> 0]
Settlements == {"BANK", "CASH", "AP"}

ExpenseCreate(actor, e, d, settled, n) ==
  /\ expenses[e].status = "ABSENT"
  /\ expenses' = [expenses EXCEPT ![e] =
                    [status |-> "DRAFT", by |-> actor, date |-> d, settled |-> settled, amount |-> n]]
  /\ UNCHANGED <<today, periods, journals>>

ExpensePost(actor, e) ==
  /\ expenses[e].status = "DRAFT"
  /\ expenses[e].by # actor
  /\ Book(<<"expense", e>>, expenses[e].date, actor,
          Transfer("EXPENSE", expenses[e].settled, expenses[e].amount), NoKey)
  /\ expenses' = [expenses EXCEPT ![e].status = "POSTED"]
  /\ UNCHANGED <<today, periods>>

(* A withdrawal is approved by another actor than the partner it is of.     *)
Withdrawal(actor, partner, e, d, n) ==
  /\ actor # partner
  /\ <<"withdrawal", e>> \notin DOMAIN journals
  /\ Book(<<"withdrawal", e>>, d, actor, Transfer("DRAWINGS", "BANK", n), NoKey)
  /\ UNCHANGED <<today, periods, expenses>>

PettyCashReplenish(actor, e, d, n) ==
  /\ <<"replenishment", e>> \notin DOMAIN journals
  /\ Book(<<"replenishment", e>>, d, actor, Transfer("CASH", "BANK", n), NoKey)
  /\ UNCHANGED <<today, periods, expenses>>

----
LedgerInit ==
  /\ today = 1
  /\ periods = {Period(1, YearEnd, "OPEN")}
  /\ journals = [k \in {} |-> 0]
  /\ expenses = [e \in Entries |-> NoExpense]

LedgerNext ==
  \/ \E first, last \in Days : PeriodOpen(first, last)
  \/ \E p \in periods : PeriodClose(p)
  \/ \E actor \in Actors, e \in Entries, d \in Days, n \in Amounts :
       \/ \E debit, credit \in {"BANK", "EXPENSE"} : JournalCreate(actor, e, d, debit, credit, n)
       \/ \E settled \in Settlements : ExpenseCreate(actor, e, d, settled, n)
       \/ \E partner \in Actors : Withdrawal(actor, partner, e, d, n)
       \/ PettyCashReplenish(actor, e, d, n)
  \/ \E actor \in Actors, key \in DOMAIN journals :
       \/ JournalPost(actor, key)
       \/ \E d \in Days : JournalReverse(actor, key, d)
  \/ \E actor \in Actors, e \in Entries : ExpensePost(actor, e)

LedgerSpec == LedgerInit /\ [][LedgerNext]_<<today, ledger>>

----
(* Amounts move between accounts and are never made.                       *)
LedgerTypeOK ==
  /\ today \in Days
  /\ \A p \in periods : p.first \in Days /\ p.last \in p.first..LastDay /\ p.status \in {"OPEN", "CLOSED"}
  /\ \A key \in DOMAIN journals :
       /\ journals[key].date \in Days /\ journals[key].by \in Actors
       /\ journals[key].net \in [Accounts -> Int] /\ IsBalanced(journals[key].net)
       /\ journals[key].status \in {"DRAFT", "POSTED"}
       /\ journals[key].reverses \in PostedKeys \cup {NoKey}
  /\ \A e \in Entries : expenses[e].status \in {"ABSENT", "DRAFT", "POSTED"}

Closed(d) == \E p \in periods : p.status = "CLOSED" /\ Covers(p, d)
BookedOn(d) == [k \in {key \in PostedKeys : journals[key].date = d} |-> journals[k].net]

(* Property: the trial balance of a closed period is final.  Of the         *)
(* journals dated in it none is posted, redated or changed once it is       *)
(* closed, whichever command books it, and no period that would take more   *)
(* of them is opened over it (accounting_periods_close_only, openPeriod).   *)
ClosedPeriodsAreFinal ==
  [][\A d \in Days : Closed(d) => Closed(d)' /\ BookedOn(d)' = BookedOn(d)]_<<periods, journals>>
================================================================================
