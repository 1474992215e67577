------------------------------ MODULE FirmProofs ------------------------------
(***************************************************************************)
(* What holds of the firm's own records for any number of actors, days,    *)
(* journals, payments, time entries, clients, contacts and inquiries:      *)
(*   - the books: closed periods are final, under the manual commands of   *)
(*     the ledger and under those that bill an engagement; money is        *)
(*     applied once; journals balance, and a document has its journal;     *)
(*   - the rate of a day that is over is fixed, and so is the work that a  *)
(*     report counts of it; what it says is billed and collected is fixed  *)
(*     once the periods are closed;                                        *)
(*   - the directory holds together.                                       *)
(***************************************************************************)
EXTENDS MCFirm, Sums, SequenceTheorems

----
(* Journals are dated records, drafts or posted, and no day is in two       *)
(* periods.  Without the latter a journal booked in an open period could be *)
(* dated in a closed one.                                                   *)
JournalForm(j) ==
  /\ j = Journal(j.date, j.status, j.by, j.net, j.reverses)
  /\ j.status \in {"DRAFT", "POSTED"} /\ j.date \in Days

JournalsForm ==
  /\ journals = [k \in DOMAIN journals |-> journals[k]]
  /\ \A k \in DOMAIN journals : JournalForm(journals[k])

PeriodsForm ==
  \A p \in periods : p.first \in Days /\ p.last \in Days /\ p = Period(p.first, p.last, p.status)

PeriodsDisjoint ==
  \A p, q \in periods : \A d \in Days : Covers(p, d) /\ Covers(q, d) => p = q

LedgerInv == JournalsForm /\ PeriodsForm /\ PeriodsDisjoint

(* What a step may do to the closed periods; ClosedPeriodsAreFinal says it  *)
(* of every step.                                                           *)
KeepsClosed == \A d \in Days : Closed(d) => Closed(d)' /\ BookedOn(d)' = BookedOn(d)

----
(* A day that is open is not closed. *)
LEMMA OpenIsNotClosed ==
  ASSUME PeriodsDisjoint, NEW d \in Days, OpenOn(d)
  PROVE  ~Closed(d)
BY DEF PeriodsDisjoint, OpenOn, Closed

(* Nothing is booked on a day when the posted journals of that day are the  *)
(* same and unchanged.                                                      *)
LEMMA SameBooks ==
  ASSUME NEW d,
         NEW S, S = {key \in PostedKeys : journals[key].date = d},
         S = {key \in PostedKeys' : journals'[key].date = d},
         \A key \in S : journals'[key].net = journals[key].net
  PROVE  BookedOn(d)' = BookedOn(d)
BY DEF BookedOn

(* Steps that leave the books alone keep everything. *)
LEMMA Untouched ==
  ASSUME LedgerInv, UNCHANGED <<periods, journals>>
  PROVE  LedgerInv' /\ KeepsClosed
BY DEF LedgerInv, JournalsForm, JournalForm, Journal, PeriodsForm, PeriodsDisjoint, Covers,
       KeepsClosed, Closed, BookedOn, PostedKeys, Drafts

(* A journal that is new, or replaces a draft, and is either a draft or     *)
(* dated in an open period.                                                 *)
LEMMA Inserted ==
  ASSUME LedgerInv, periods' = periods,
         NEW key, NEW d \in Days, NEW status \in {"DRAFT", "POSTED"}, NEW by, NEW net, NEW reverses,
         key \notin PostedKeys, OpenOn(d),
         journals' = WithJournal(key, Journal(d, status, by, net, reverses))
  PROVE  LedgerInv' /\ KeepsClosed
<1> DEFINE j == Journal(d, status, by, net, reverses)
<1>1. JournalForm(j) /\ j.date = d /\ j.status = status
  BY DEF JournalForm, Journal
<1>2. /\ DOMAIN journals' = DOMAIN journals \cup {key}
      /\ journals'[key] = j
      /\ \A k \in DOMAIN journals : k # key => journals'[k] = journals[k]
  BY DEF WithJournal
<1>3. JournalsForm'
  <2>1. journals' = [k \in DOMAIN journals' |-> journals'[k]]
    BY DEF WithJournal
  <2>2. \A k \in DOMAIN journals' : JournalForm(journals'[k])
    BY <1>1, <1>2 DEF LedgerInv, JournalsForm
  <2> QED  BY <2>1, <2>2 DEF JournalsForm, JournalForm, Journal
<1>4. PeriodsForm' /\ PeriodsDisjoint'
  BY DEF LedgerInv, PeriodsForm, PeriodsDisjoint, Covers
<1>5. KeepsClosed
  <2> SUFFICES ASSUME NEW e \in Days, Closed(e)
               PROVE  Closed(e)' /\ BookedOn(e)' = BookedOn(e)
    BY DEF KeepsClosed
  <2>1. e # d
    BY OpenIsNotClosed DEF LedgerInv
  <2>2. Closed(e)'
    BY DEF Closed, Covers
  <2> DEFINE S == {k \in PostedKeys : journals[k].date = e}
  <2>3. \A k : k \in S <=> k \in PostedKeys' /\ journals'[k].date = e
    BY <1>1, <1>2, <2>1 DEF PostedKeys, Drafts
  <2>4. \A k \in S : journals'[k].net = journals[k].net
    BY <1>2 DEF PostedKeys, Drafts
  <2>5. S = {k \in PostedKeys' : journals'[k].date = e}
    BY <2>3
  <2>6. BookedOn(e)' = BookedOn(e)
    BY <2>4, <2>5, SameBooks
  <2> QED  BY <2>2, <2>6
<1> QED  BY <1>3, <1>4, <1>5 DEF LedgerInv

(* Whatever books an event books it in an open period, or not at all. *)
LEMMA Booking ==
  ASSUME LedgerInv, periods' = periods,
         NEW key, NEW d \in Days, NEW by, NEW net, NEW reverses,
         Book(key, d, by, net, reverses)
  PROVE  LedgerInv' /\ KeepsClosed
<1>1. CASE Booked(key)
  BY <1>1, Untouched DEF Book
<1>2. CASE ~Booked(key)
  <2>1. /\ OpenOn(d)
        /\ journals' = WithJournal(key, Journal(d, "POSTED", by, net, reverses))
    BY <1>2 DEF Book
  <2>2. key \notin PostedKeys
    BY <1>2 DEF Booked, PostedKeys, Drafts, LedgerInv, JournalsForm, JournalForm
  <2> QED  BY <2>1, <2>2, Inserted
<1> QED  BY <1>1, <1>2

----
(* A period is opened over days that no other covers, and closed for good. *)
LEMMA Opening ==
  ASSUME LedgerInv, NEW first \in Days, NEW last \in Days, PeriodOpen(first, last)
  PROVE  LedgerInv' /\ KeepsClosed
<1> DEFINE new == Period(first, last, "OPEN")
<1>1. new.first = first /\ new.last = last /\ new.status = "OPEN" /\ new = Period(new.first, new.last, new.status)
  BY DEF Period
<1>2. periods' = periods \cup {new} /\ journals' = journals
  BY DEF PeriodOpen
<1>3. PeriodsForm'
  BY <1>1, <1>2 DEF LedgerInv, PeriodsForm
<1>4. \A p \in periods, d \in Days : ~(Covers(p, d) /\ Covers(new, d))
  BY <1>1, LedgerAssumption DEF PeriodOpen, Covers, LedgerInv, PeriodsForm, Days
<1>5. PeriodsDisjoint'
  BY <1>2, <1>4 DEF LedgerInv, PeriodsDisjoint, Covers
<1>6. JournalsForm'
  BY <1>2 DEF LedgerInv, JournalsForm, JournalForm, Journal
<1>7. KeepsClosed
  BY <1>2 DEF KeepsClosed, Closed, Covers, BookedOn, PostedKeys, Drafts
<1> QED  BY <1>3, <1>5, <1>6, <1>7 DEF LedgerInv

LEMMA Closing ==
  ASSUME LedgerInv, NEW p \in periods, PeriodClose(p)
  PROVE  LedgerInv' /\ KeepsClosed
<1> DEFINE new == [p EXCEPT !.status = "CLOSED"]
<1>1. p = Period(p.first, p.last, p.status) /\ p.first \in Days /\ p.last \in Days
  BY DEF LedgerInv, PeriodsForm
<1>2. new.first = p.first /\ new.last = p.last /\ new.status = "CLOSED" /\ new = Period(new.first, new.last, new.status)
  BY <1>1 DEF Period
<1>3. periods' = (periods \ {p}) \cup {new} /\ journals' = journals
  BY DEF PeriodClose
<1>4. PeriodsForm'
  BY <1>1, <1>2, <1>3 DEF LedgerInv, PeriodsForm
<1>5. \A d : Covers(new, d) <=> Covers(p, d)
  BY <1>2 DEF Covers
<1>6. PeriodsDisjoint'
  BY <1>3, <1>5 DEF LedgerInv, PeriodsDisjoint, Covers
<1>7. JournalsForm'
  BY <1>3 DEF LedgerInv, JournalsForm, JournalForm, Journal
<1>8. \A d : Closed(d) => Closed(d)'
  BY <1>2, <1>3, <1>5 DEF Closed, Covers
<1>9. KeepsClosed
  BY <1>3, <1>8 DEF KeepsClosed, BookedOn, PostedKeys, Drafts
<1> QED  BY <1>4, <1>6, <1>7, <1>9 DEF LedgerInv

(* The record that posting leaves in the place of a draft. *)
LEMMA PostedJournal ==
  ASSUME NEW j, JournalForm(j), NEW actor
  PROVE  [j EXCEPT !.status = "POSTED", !.by = actor] = Journal(j.date, "POSTED", actor, j.net, j.reverses)
<1>1. [j EXCEPT !.status = "POSTED"] = Journal(j.date, "POSTED", j.by, j.net, j.reverses)
  BY DEF JournalForm, Journal
<1>2. [Journal(j.date, "POSTED", j.by, j.net, j.reverses) EXCEPT !.by = actor]
        = Journal(j.date, "POSTED", actor, j.net, j.reverses)
  BY DEF Journal
<1>3. [[j EXCEPT !.status = "POSTED"] EXCEPT !.by = actor] = Journal(j.date, "POSTED", actor, j.net, j.reverses)
  BY <1>1, <1>2
<1>4. [j EXCEPT !.status = "POSTED", !.by = actor] = [[j EXCEPT !.status = "POSTED"] EXCEPT !.by = actor]
  OBVIOUS
<1> QED  BY <1>3, <1>4

(* A draft is posted in an open period by another actor. *)
LEMMA PostingForm ==
  ASSUME LedgerInv, NEW actor, NEW key \in DOMAIN journals, JournalPost(actor, key)
  PROVE  LET j == journals[key] IN
         /\ key \in Drafts /\ key \notin PostedKeys
         /\ OpenOn(j.date) /\ UNCHANGED <<today, periods, expenses>>
         /\ j.date \in Days
         /\ journals' = WithJournal(key, Journal(j.date, "POSTED", actor, j.net, j.reverses))
<1> DEFINE j == journals[key]
<1>1. JournalForm(j) /\ j.status = "DRAFT" /\ OpenOn(j.date) /\ UNCHANGED <<today, periods, expenses>>
  BY DEF JournalPost, Drafts, LedgerInv, JournalsForm
<1>2. j.date \in Days
  BY <1>1 DEF JournalForm
<1> DEFINE new == Journal(j.date, "POSTED", actor, j.net, j.reverses)
<1>3. [j EXCEPT !.status = "POSTED", !.by = actor] = new
  <2> HIDE DEF j
  <2> QED  BY <1>1, PostedJournal
<1>4. journals = [k \in DOMAIN journals |-> journals[k]]
  BY DEF LedgerInv, JournalsForm
<1>5. journals' = [journals EXCEPT ![key] = [j EXCEPT !.status = "POSTED", !.by = actor]]
  BY <1>4 DEF JournalPost
<1>6. journals' = [k \in DOMAIN journals |-> IF k = key THEN new ELSE journals[k]]
  BY <1>3, <1>4, <1>5
<1>7. DOMAIN journals \cup {key} = DOMAIN journals
  OBVIOUS
<1>8. journals' = WithJournal(key, new)
  BY <1>6, <1>7 DEF WithJournal
<1>9. key \in Drafts /\ key \notin PostedKeys
  BY DEF JournalPost, PostedKeys
<1> QED  BY <1>1, <1>2, <1>8, <1>9

LEMMA Posting ==
  ASSUME LedgerInv, NEW actor, NEW key \in DOMAIN journals, JournalPost(actor, key)
  PROVE  LedgerInv' /\ KeepsClosed
BY PostingForm, Inserted

----
LEMMA LedgerStarts == LedgerInit => LedgerInv
<1> SUFFICES ASSUME LedgerInit PROVE LedgerInv
  OBVIOUS
<1>1. journals = [k \in {} |-> 0]
  BY DEF LedgerInit
<1>2. DOMAIN journals = {}
  BY <1>1
<1>3. JournalsForm
  BY <1>1, <1>2 DEF JournalsForm
<1>4. PeriodsForm /\ PeriodsDisjoint
  BY LedgerAssumption DEF LedgerInit, Period, Days, PeriodsForm, PeriodsDisjoint
<1> QED  BY <1>3, <1>4 DEF LedgerInv

(* An expense is booked on the date it was entered with, so that date too   *)
(* has to be known to be a day, or none.                                    *)
ExpenseForm(x) ==
  /\ x = [status |-> x.status, by |-> x.by, date |-> x.date, settled |-> x.settled, amount |-> x.amount]
  /\ x.date \in Days \cup {0}
ExpensesForm ==
  /\ expenses = [e \in Entries |-> expenses[e]]
  /\ \A e \in Entries : ExpenseForm(expenses[e])

LEMMA ExpensesStart == LedgerInit => ExpensesForm
BY DEF LedgerInit, NoExpense, ExpensesForm, ExpenseForm

LEMMA ExpensesStep ==
  ASSUME ExpensesForm, LedgerNext
  PROVE  ExpensesForm'
<1>1. CASE UNCHANGED expenses
  BY <1>1 DEF ExpensesForm, ExpenseForm
<1>2. ASSUME NEW actor, NEW e \in Entries, NEW d \in Days, NEW n, NEW settled,
             ExpenseCreate(actor, e, d, settled, n)
      PROVE  ExpensesForm'
  <2> DEFINE new == [status |-> "DRAFT", by |-> actor, date |-> d, settled |-> settled, amount |-> n]
  <2>1. ExpenseForm(new)
    BY DEF ExpenseForm
  <2>2. expenses' = [x \in Entries |-> IF x = e THEN new ELSE expenses[x]]
    BY <1>2 DEF ExpenseCreate, ExpensesForm
  <2> QED  BY <2>1, <2>2 DEF ExpensesForm, ExpenseForm
<1>3. ASSUME NEW actor, NEW e \in Entries, ExpensePost(actor, e)
      PROVE  ExpensesForm'
  <2> DEFINE new == [expenses[e] EXCEPT !.status = "POSTED"]
  <2>1. ExpenseForm(new)
    BY DEF ExpensesForm, ExpenseForm
  <2>2. expenses' = [x \in Entries |-> IF x = e THEN new ELSE expenses[x]]
    BY <1>3 DEF ExpensePost, ExpensesForm
  <2> QED  BY <2>1, <2>2 DEF ExpensesForm, ExpenseForm
<1> QED
  BY <1>1, <1>2, <1>3 DEF LedgerNext, PeriodOpen, PeriodClose, JournalCreate, Withdrawal,
     PettyCashReplenish, JournalPost, JournalReverse

----
(* Each manual command of the ledger. *)


LEMMA LedgerStep ==
  ASSUME LedgerInv, ExpensesForm, LedgerNext
  PROVE  LedgerInv' /\ KeepsClosed
<1>1. CASE \E first, last \in Days : PeriodOpen(first, last)
  BY <1>1, Opening
<1>2. CASE \E p \in periods : PeriodClose(p)
  BY <1>2, Closing
<1>3. ASSUME NEW actor \in Actors, NEW e \in Entries, NEW d \in Days, NEW n \in Amounts,
             NEW debit, NEW credit, JournalCreate(actor, e, d, debit, credit, n)
      PROVE  LedgerInv' /\ KeepsClosed
  <2>1. Manual(e) \notin PostedKeys
    BY <1>3 DEF JournalCreate, PostedKeys
  <2> QED  BY <1>3, <2>1, Inserted DEF JournalCreate
<1>4. ASSUME NEW actor \in Actors, NEW e \in Entries, NEW d \in Days, NEW n \in Amounts,
             NEW settled, ExpenseCreate(actor, e, d, settled, n)
      PROVE  LedgerInv' /\ KeepsClosed
  BY <1>4, Untouched DEF ExpenseCreate
<1>5. ASSUME NEW actor \in Actors, NEW e \in Entries, NEW d \in Days, NEW n \in Amounts,
             NEW partner, Withdrawal(actor, partner, e, d, n)
      PROVE  LedgerInv' /\ KeepsClosed
  BY <1>5, Booking DEF Withdrawal
<1>6. ASSUME NEW actor \in Actors, NEW e \in Entries, NEW d \in Days, NEW n \in Amounts,
             PettyCashReplenish(actor, e, d, n)
      PROVE  LedgerInv' /\ KeepsClosed
  BY <1>6, Booking DEF PettyCashReplenish
<1>7. ASSUME NEW actor \in Actors, NEW key \in DOMAIN journals, JournalPost(actor, key)
      PROVE  LedgerInv' /\ KeepsClosed
  BY <1>7, Posting
<1>8. ASSUME NEW actor \in Actors, NEW key, NEW d \in Days, JournalReverse(actor, key, d)
      PROVE  LedgerInv' /\ KeepsClosed
  BY <1>8, Booking DEF JournalReverse
<1>9. ASSUME NEW actor \in Actors, NEW e \in Entries, ExpensePost(actor, e)
      PROVE  LedgerInv' /\ KeepsClosed
  <2> DEFINE d == expenses[e].date
  <2>1. d \in Days \cup {0}
    BY DEF ExpensesForm, ExpenseForm
  <2>2. CASE d = 0
    <3>1. ~OpenOn(d)
      BY <2>2 DEF OpenOn, Covers, LedgerInv, PeriodsForm, Days
    <3>2. UNCHANGED <<periods, journals>>
      BY <1>9, <3>1 DEF ExpensePost, Book
    <3> QED  BY <3>2, Untouched
  <2>3. CASE d \in Days
    BY <1>9, <2>3, Booking DEF ExpensePost
  <2> QED  BY <2>1, <2>2, <2>3
<1> QED  BY <1>1, <1>2, <1>3, <1>4, <1>5, <1>6, <1>7, <1>8, <1>9 DEF LedgerNext

(* The commands that bill an engagement book through the same operator, on  *)
(* the day they run or on a day the caller names.                           *)
LEMMA BillingStep ==
  ASSUME LedgerInv, today \in Days, BillingNext
  PROVE  LedgerInv' /\ KeepsClosed /\ today' \in Days
<1>1. ASSUME NEW actor, NEW key, JournalReverse(actor, key, LastDay)
      PROVE  LedgerInv' /\ KeepsClosed /\ today' \in Days
  BY <1>1, Booking, LedgerAssumption DEF JournalReverse, Days
<1>2. CASE NextDay
  BY <1>2, Untouched, LedgerAssumption DEF NextDay, ledger, Days
<1>3. ASSUME NEW actor, NEW i, IssueInvoice(i, actor), UNCHANGED <<today, periods>>
      PROVE  LedgerInv' /\ KeepsClosed /\ today' \in Days
  BY <1>3, Booking DEF IssueInvoice
<1>4. ASSUME NEW actor, NEW p, NEW n, NEW d \in Days, NEW shares, PaymentRecord(actor, p, n, d, shares)
      PROVE  LedgerInv' /\ KeepsClosed /\ today' \in Days
  BY <1>4, Booking DEF PaymentRecord
<1>5. ASSUME NEW actor, NEW p, PaymentReverse(actor, p)
      PROVE  LedgerInv' /\ KeepsClosed /\ today' \in Days
  BY <1>5, Booking DEF PaymentReverse
<1>6. ASSUME NEW actor, NEW p, NEW i, NEW n, NEW d \in Days, PaymentAllocate(actor, p, i, n, d)
      PROVE  LedgerInv' /\ KeepsClosed /\ today' \in Days
  BY <1>6, Booking DEF PaymentAllocate
<1>7. ASSUME NEW actor, NEW p, NEW i, NEW n, NEW d \in Days, AllocationReverse(actor, p, i, n, d)
      PROVE  LedgerInv' /\ KeepsClosed /\ today' \in Days
  BY <1>7, Booking DEF AllocationReverse
<1>8. ASSUME NEW actor, NEW i, NEW n, NEW d \in Days, CreditNote(actor, i, n, d)
      PROVE  LedgerInv' /\ KeepsClosed /\ today' \in Days
  BY <1>8, Booking DEF CreditNote
<1>9. ASSUME NEW actor, NEW policy, NEW n, NEW d \in Days, RevenueRecognize(actor, policy, n, d)
      PROVE  LedgerInv' /\ KeepsClosed /\ today' \in Days
  BY <1>9, Booking DEF RevenueRecognize
<1>10. ASSUME NEW p, NEW which, ReceiptDocument(p, which)
       PROVE  LedgerInv' /\ KeepsClosed /\ today' \in Days
  BY <1>10, Untouched DEF ReceiptDocument, ledger
<1>11. ASSUME NEW method, NEW from, RevenuePolicySave(method, from)
       PROVE  LedgerInv' /\ KeepsClosed /\ today' \in Days
  BY <1>11, Untouched DEF RevenuePolicySave, ledger
<1>12. ASSUME NEW first \in Days, NEW last \in Days, PeriodOpen(first, last)
       PROVE  LedgerInv' /\ KeepsClosed /\ today' \in Days
  BY <1>12, Opening DEF PeriodOpen
<1>13. ASSUME NEW p \in periods, PeriodClose(p)
       PROVE  LedgerInv' /\ KeepsClosed /\ today' \in Days
  BY <1>13, Closing DEF PeriodClose
<1> QED
  BY <1>1, <1>2, <1>3, <1>4, <1>5, <1>6, <1>7, <1>8, <1>9, <1>10, <1>11, <1>12, <1>13
     DEF BillingNext, AdvanceDocument, FinalInvoice

----
(* The trial balance of a closed period is final under the manual commands  *)
(* of the ledger, however many journals, expenses and periods there are     *)
(* (businessPractice.ts).                                                   *)
THEOREM LedgerClosesForGood == LedgerSpec => ClosedPeriodsAreFinal
<1>1. LedgerInit => LedgerInv /\ ExpensesForm
  BY LedgerStarts, ExpensesStart
<1>2. LedgerInv /\ ExpensesForm /\ [LedgerNext]_<<today, ledger>> => (LedgerInv /\ ExpensesForm)'
  <2>1. CASE LedgerNext
    BY <2>1, LedgerStep, ExpensesStep
  <2>2. CASE UNCHANGED <<today, ledger>>
    BY <2>2, Untouched DEF ledger, ExpensesForm, ExpenseForm
  <2> QED  BY <2>1, <2>2
<1>3. LedgerInv /\ ExpensesForm /\ [LedgerNext]_<<today, ledger>> => [KeepsClosed]_<<periods, journals>>
  <2>1. CASE LedgerNext
    BY <2>1, LedgerStep
  <2>2. CASE UNCHANGED <<today, ledger>>
    BY <2>2 DEF ledger
  <2> QED  BY <2>1, <2>2
<1> QED  BY <1>1, <1>2, <1>3, PTL DEF LedgerSpec, ClosedPeriodsAreFinal, KeepsClosed

(* And under those that bill an engagement while periods open and close:    *)
(* invoices, payments, their                                                *)
(* reversals and returns, credit notes and recognised revenue, for any      *)
(* fee, tax and number of payments (businessDelivery.ts).                   *)
THEOREM BillingClosesForGood == BillingSpec => ClosedPeriodsAreFinal
<1>1. BillingInit => LedgerInv /\ today \in Days
  BY LedgerStarts, LedgerAssumption DEF BillingInit, LedgerInit, Days
<1>2. LedgerInv /\ today \in Days /\ [BillingNext]_<<today, ledger, billing>> => (LedgerInv /\ today \in Days)'
  <2>1. CASE BillingNext
    BY <2>1, BillingStep
  <2>2. CASE UNCHANGED <<today, ledger, billing>>
    BY <2>2, Untouched DEF ledger, Days
  <2> QED  BY <2>1, <2>2
<1>3. LedgerInv /\ today \in Days /\ [BillingNext]_<<today, ledger, billing>> => [KeepsClosed]_<<periods, journals>>
  <2>1. CASE BillingNext
    BY <2>1, BillingStep
  <2>2. CASE UNCHANGED <<today, ledger, billing>>
    BY <2>2 DEF ledger
  <2> QED  BY <2>1, <2>2
<1> QED  BY <1>1, <1>2, <1>3, PTL DEF BillingSpec, ClosedPeriodsAreFinal, KeepsClosed

----
(* Money is applied once. *)

Charges == [status : {"ABSENT", "VERIFIED"}, amount : Nat, date : Nat, reversedOn : Nat,
            voucher : {"NONE", "PENDING", "ISSUED"}, reversalVoucher : {"NONE", "PENDING", "ISSUED"}]
Shares == [amount : Nat, date : Nat]
Recorded == payments \in [Payments -> Charges] /\ allocations \in [Payments -> [Kinds -> Shares]]

(* Nothing is allocated of a payment that is not recorded.  Without it, the *)
(* commit of a payment would change more than its shares.                   *)
MoneyInv ==
  /\ today \in Days
  /\ Recorded
  /\ \A p \in Payments : payments[p].status = "ABSENT" => ~IsReversed(p) /\ \A i \in Kinds : Alloc(p, i) = 0
  /\ NeverOverAllocated

Net(i) == [p \in Payments |-> IF IsReversed(p) THEN 0 ELSE Alloc(p, i)]
SharesOf(p) == [i \in Kinds |-> Alloc(p, i)]

LEMMA KindsFinite == IsFiniteSet(Kinds)
<1>1. IsFiniteSet({"ADVANCE"})
  BY FS_Singleton
<1>2. Kinds = {"ADVANCE"} \cup {"FINAL"}
  BY DEF Kinds
<1> QED  BY <1>1, <1>2, FS_AddElement

(* An invoice is of a whole amount, its tax included. *)
LEMMA Taxes ==
  ASSUME NEW i \in Kinds
  PROVE  Subtotal(i) \in Nat /\ Tax(i) \in Nat /\ Total(i) = Subtotal(i) + Tax(i) /\ Total(i) \in Nat
<1>1. Fee \in Nat /\ TaxBasisPoints \in Nat
  BY BillingAssumption
<1>2. AdvanceFee \in Nat /\ AdvanceFee <= Fee
  BY <1>1, BillingAssumption DEF AdvanceFee
<1>3. Subtotal(i) \in Nat
  BY <1>1, <1>2 DEF Subtotal
<1>4. Subtotal(i) * TaxBasisPoints \in Nat
  BY <1>1, <1>3
<1>5. Tax(i) \in Nat
  BY <1>4 DEF Tax
<1> QED  BY <1>3, <1>5 DEF Total

LEMMA Totals == ASSUME NEW i \in Kinds PROVE Total(i) \in Nat
BY Taxes

(* What is summed up, of an invoice and of a payment. *)
Counted ==
  /\ \A i \in Kinds : /\ Allocated(i) = SumFunctionOnSet(Net(i), Payments)
                      /\ \A p \in Payments : Net(i)[p] \in Nat
                      /\ Allocated(i) \in Nat
  /\ \A p \in Payments : /\ AllocatedOf(p) = SumFunctionOnSet(SharesOf(p), Kinds)
                         /\ \A i \in Kinds : SharesOf(p)[i] \in Nat
                         /\ AllocatedOf(p) \in Nat

LEMMA Counts == Recorded => Counted
<1> SUFFICES ASSUME Recorded PROVE Counted
  OBVIOUS
<1>1. \A i \in Kinds, p \in Payments : Alloc(p, i) \in Nat
  BY DEF Shares, Alloc, Recorded
<1>2. ASSUME NEW i \in Kinds
      PROVE  /\ Allocated(i) = SumFunctionOnSet(Net(i), Payments)
             /\ \A p \in Payments : Net(i)[p] \in Nat
  BY <1>1 DEF Allocated, Net, SumFunction
<1>3. ASSUME NEW p \in Payments
      PROVE  /\ AllocatedOf(p) = SumFunctionOnSet(SharesOf(p), Kinds)
             /\ \A i \in Kinds : SharesOf(p)[i] \in Nat
  BY <1>1 DEF AllocatedOf, SharesOf, SumFunction
<1>4. \A i \in Kinds : SumFunctionOnSet(Net(i), Payments) \in Nat
  BY <1>2, SumType, BillingAssumption
<1>5. \A p \in Payments : SumFunctionOnSet(SharesOf(p), Kinds) \in Nat
  BY <1>3, SumType, KindsFinite
<1> QED  BY <1>2, <1>3, <1>4, <1>5 DEF Counted

LEMMA CountsNext == Recorded' => Counted'
BY Counts, PTL

(* A step that changes one payment, or its allocations, changes what an     *)
(* invoice is paid by what it changes of that payment.                      *)
LEMMA OnePayment ==
  ASSUME Recorded, Recorded', NEW p \in Payments, NEW i \in Kinds,
         \A q \in Payments \ {p} : payments'[q] = payments[q] /\ allocations'[q] = allocations[q]
  PROVE  Allocated(i)' = Allocated(i) - Net(i)[p] + Net(i)'[p]
<1>1. \A q \in Payments : Net(i)[q] \in Int /\ Net(i)'[q] \in Int
  BY Counts, CountsNext DEF Counted
<1>2. \A q \in Payments \ {p} : Net(i)[q] = Net(i)'[q]
  BY DEF Net, IsReversed, Alloc
<1>3. SumFunctionOnSet(Net(i)', Payments) = SumFunctionOnSet(Net(i), Payments) - Net(i)[p] + Net(i)'[p]
  BY <1>1, <1>2, SumChanges, BillingAssumption
<1> QED  BY <1>3, Counts, CountsNext DEF Counted

LEMMA MoneyRecorded ==
  ASSUME MoneyInv, NEW actor, NEW p \in Payments, NEW n \in Amounts, NEW d \in Days,
         NEW shares \in [Kinds -> 0..Fee], PaymentRecord(actor, p, n, d, shares)
  PROVE  MoneyInv'
<1> DEFINE new == [payments[p] EXCEPT !.status = "VERIFIED", !.amount = n, !.date = d, !.voucher = "PENDING"]
           share(i) == IF shares[i] > 0 THEN [amount |-> shares[i], date |-> d] ELSE allocations[p][i]
<1>1. n \in Nat /\ d \in Nat /\ \A i \in Kinds : shares[i] \in Nat
  BY LedgerAssumption, BillingAssumption DEF Days
<1>2. payments[p] \in Charges /\ ~IsReversed(p) /\ \A i \in Kinds : Alloc(p, i) = 0 /\ allocations[p][i] \in Shares
  BY DEF MoneyInv, Recorded, PaymentRecord
<1>3. new \in Charges /\ new.status = "VERIFIED" /\ new.amount = n /\ new.reversedOn = payments[p].reversedOn
  BY <1>1, <1>2 DEF Charges
<1>4. \A i \in Kinds : share(i) \in Shares /\ share(i).amount = shares[i]
  BY <1>1, <1>2 DEF Shares, Alloc
<1>5. payments' = [payments EXCEPT ![p] = new] /\ allocations' = [allocations EXCEPT ![p] = [i \in Kinds |-> share(i)]]
  BY DEF PaymentRecord, MoneyInv, Recorded
<1> HIDE DEF new, share
<1>6. Recorded'
  BY <1>3, <1>4, <1>5 DEF MoneyInv, Recorded
<1>7. /\ \A q \in Payments \ {p} : payments'[q] = payments[q] /\ allocations'[q] = allocations[q]
      /\ payments'[p] = new /\ \A i \in Kinds : allocations'[p][i].amount = shares[i]
  BY <1>4, <1>5 DEF MoneyInv, Recorded
<1>8. \A i \in Kinds : Allocated(i)' = Allocated(i) + shares[i]
  <2> TAKE i \in Kinds
  <2>1. Net(i)[p] = 0 /\ Net(i)'[p] = shares[i]
    BY <1>2, <1>3, <1>7 DEF Net, IsReversed, Alloc
  <2>2. Allocated(i) \in Nat
    BY Counts DEF MoneyInv, Counted
  <2>3. Allocated(i)' = Allocated(i) - 0 + shares[i]
    BY <1>6, <1>7, <2>1, OnePayment DEF MoneyInv
  <2> QED  BY <1>1, <2>2, <2>3
<1>9. \A i \in Kinds : Allocated(i)' \in 0..Total(i)
  <2> TAKE i \in Kinds
  <2>1. Allocated(i) \in 0..Total(i) /\ Total(i) \in Nat /\ shares[i] \in Nat
    BY <1>1, Totals DEF MoneyInv, NeverOverAllocated
  <2>2. shares[i] > 0 => Allocated(i) + shares[i] <= Total(i)
    BY DEF PaymentRecord, ScopeGuard
  <2> QED  BY <1>8, <2>1, <2>2
<1>10. AllocatedOf(p)' <= n
  <2>1. SumFunctionOnSet(SharesOf(p)', Kinds) = SumFunctionOnSet(shares, Kinds)
    <3>1. \A i \in Kinds : SharesOf(p)'[i] = shares[i]
      BY <1>7 DEF SharesOf, Alloc
    <3> QED  BY <3>1, KindsFinite, SumSame
  <2>2. SumFunctionOnSet(shares, Kinds) <= n
    BY DEF PaymentRecord, SumFunction
  <2> QED  BY <1>6, <2>1, <2>2, CountsNext DEF Counted
<1>11. \A q \in Payments \ {p} : AllocatedOf(q)' = AllocatedOf(q)
  BY <1>7 DEF AllocatedOf, Alloc
<1>12. NeverOverAllocated'
  BY <1>3, <1>7, <1>9, <1>10, <1>11, Totals DEF MoneyInv, NeverOverAllocated, Total, Subtotal, Tax
<1>13. \A q \in Payments : payments'[q].status = "ABSENT" => ~IsReversed(q)' /\ \A i \in Kinds : Alloc(q, i)' = 0
  BY <1>3, <1>7 DEF MoneyInv, IsReversed, Alloc
<1> QED  BY <1>6, <1>12, <1>13 DEF MoneyInv, PaymentRecord

LEMMA MoneyAllocated ==
  ASSUME MoneyInv, NEW actor, NEW p \in Payments, NEW i \in Kinds, NEW n \in Amounts, NEW d \in Days,
         PaymentAllocate(actor, p, i, n, d)
  PROVE  MoneyInv'
<1> DEFINE new == [amount |-> n, date |-> d]
<1>1. n \in Nat /\ d \in Nat
  BY LedgerAssumption DEF Days
<1>2. new \in Shares /\ new.amount = n
  BY <1>1 DEF Shares
<1>3. payments' = payments /\ allocations' = [allocations EXCEPT ![p][i] = new]
  BY DEF PaymentAllocate
<1> HIDE DEF new
<1>4. Recorded'
  BY <1>2, <1>3 DEF MoneyInv, Recorded
<1>5. /\ \A q \in Payments \ {p} : payments'[q] = payments[q] /\ allocations'[q] = allocations[q]
      /\ allocations'[p][i].amount = n
      /\ \A j \in Kinds \ {i} : allocations'[p][j] = allocations[p][j]
  BY <1>2, <1>3 DEF MoneyInv, Recorded
<1>6. Alloc(p, i) = 0 /\ ~IsReversed(p) /\ ~IsReversed(p)' /\ Alloc(p, i)' = n
  BY <1>3, <1>5 DEF PaymentAllocate, IsReversed, Alloc
<1>7. /\ Allocated(i) \in Nat /\ Allocated(i)' = Allocated(i) + n
      /\ \A j \in Kinds \ {i} : Allocated(j)' = Allocated(j)
  <2>1. \A j \in Kinds : Allocated(j) \in Nat
    BY Counts DEF MoneyInv, Counted
  <2>2. Net(i)[p] = 0 /\ Net(i)'[p] = n
    BY <1>6 DEF Net
  <2>3. \A j \in Kinds \ {i} : Net(j)'[p] = Net(j)[p] /\ Net(j)[p] \in Nat
    <3>1. \A j \in Kinds \ {i} : Net(j)'[p] = Net(j)[p]
      BY <1>5, <1>3 DEF Net, IsReversed, Alloc
    <3> QED  BY <3>1, Counts DEF MoneyInv, Counted
  <2>4. \A j \in Kinds : Allocated(j)' = Allocated(j) - Net(j)[p] + Net(j)'[p]
    BY <1>4, <1>5, OnePayment DEF MoneyInv
  <2>5. Allocated(i)' = Allocated(i) - 0 + n
    BY <2>2, <2>4
  <2> QED  BY <1>1, <2>1, <2>3, <2>4, <2>5
<1>8. \A j \in Kinds : Allocated(j)' \in 0..Total(j)
  <2> TAKE j \in Kinds
  <2>1. Allocated(j) \in 0..Total(j) /\ Total(j) \in Nat /\ Total(i) \in Nat
    BY Totals DEF MoneyInv, NeverOverAllocated
  <2>2. Allocated(i) + n <= Total(i)
    BY DEF PaymentAllocate, ScopeGuard
  <2> QED  BY <1>1, <1>7, <2>1, <2>2
<1>9. AllocatedOf(p)' <= payments[p].amount
  <2>1. AllocatedOf(p) + n <= payments[p].amount
    BY DEF PaymentAllocate, ScopeGuard
  <2>2. /\ \A j \in Kinds : SharesOf(p)[j] \in Int /\ SharesOf(p)'[j] \in Int
        /\ \A j \in Kinds \ {i} : SharesOf(p)[j] = SharesOf(p)'[j]
        /\ SharesOf(p)[i] = 0 /\ SharesOf(p)'[i] = n
    <3>1. \A j \in Kinds : SharesOf(p)[j] \in Int /\ SharesOf(p)'[j] \in Int
      BY <1>4, Counts, CountsNext DEF MoneyInv, Counted
    <3> QED  BY <1>5, <1>6, <3>1 DEF SharesOf, Alloc
  <2>3. SumFunctionOnSet(SharesOf(p)', Kinds) = SumFunctionOnSet(SharesOf(p), Kinds) - SharesOf(p)[i] + SharesOf(p)'[i]
    <3> DEFINE F == SharesOf(p)
               G == SharesOf(p)'
    <3>1. /\ IsFiniteSet(Kinds) /\ i \in Kinds
          /\ \A j \in Kinds : F[j] \in Int /\ G[j] \in Int
          /\ \A j \in Kinds \ {i} : F[j] = G[j]
      BY <2>2, KindsFinite
    <3> HIDE DEF F, G
    <3>2. SumFunctionOnSet(G, Kinds) = SumFunctionOnSet(F, Kinds) - F[i] + G[i]
      BY <3>1, SumChanges
    <3> QED  BY <3>2 DEF F, G
  <2>4. AllocatedOf(p) \in Nat /\ AllocatedOf(p)' = AllocatedOf(p) - 0 + n
    BY <1>4, <2>2, <2>3, Counts, CountsNext DEF MoneyInv, Counted
  <2> QED  BY <1>1, <2>1, <2>4
<1>10. \A q \in Payments \ {p} : AllocatedOf(q)' = AllocatedOf(q)
  BY <1>5 DEF AllocatedOf, Alloc
<1>11. NeverOverAllocated'
  BY <1>3, <1>8, <1>9, <1>10 DEF MoneyInv, NeverOverAllocated, Total, Subtotal, Tax
<1>12. \A q \in Payments : payments'[q].status = "ABSENT" => ~IsReversed(q)' /\ \A j \in Kinds : Alloc(q, j)' = 0
  BY <1>3, <1>5 DEF MoneyInv, IsReversed, Alloc, PaymentAllocate, Original
<1> QED  BY <1>4, <1>11, <1>12 DEF MoneyInv, PaymentAllocate

(* Of a payment that is reversed nothing is applied any more. *)
LEMMA MoneyReversed ==
  ASSUME MoneyInv, NEW actor, NEW p \in Payments, PaymentReverse(actor, p)
  PROVE  MoneyInv'
<1> DEFINE new == [payments[p] EXCEPT !.reversedOn = today, !.reversalVoucher = "PENDING"]
<1>1. today \in Nat /\ today # 0 /\ payments[p] \in Charges
  BY DEF MoneyInv, Days, Recorded
<1>2. new \in Charges /\ new.status = payments[p].status /\ new.amount = payments[p].amount /\ new.reversedOn # 0
  BY <1>1 DEF Charges
<1>3. payments' = [payments EXCEPT ![p] = new] /\ allocations' = allocations
  BY DEF PaymentReverse, MoneyInv, Recorded
<1> HIDE DEF new
<1>4. Recorded'
  BY <1>2, <1>3 DEF MoneyInv, Recorded
<1>5. payments'[p] = new /\ \A q \in Payments \ {p} : payments'[q] = payments[q] /\ allocations'[q] = allocations[q]
  BY <1>3 DEF MoneyInv, Recorded
<1>6. \A i \in Kinds : Allocated(i)' \in 0..Total(i)
  <2> TAKE i \in Kinds
  <2>1. Net(i)[p] \in Nat /\ Net(i)'[p] = 0
    BY <1>2, <1>5, Counts DEF Net, IsReversed, MoneyInv, Counted
  <2>2. Allocated(i)' = Allocated(i) - Net(i)[p] + 0
    BY <1>4, <1>5, <2>1, OnePayment DEF MoneyInv
  <2>3. Allocated(i)' \in Nat /\ Allocated(i) \in 0..Total(i) /\ Total(i) \in Nat
    BY <1>4, CountsNext, Totals DEF Counted, MoneyInv, NeverOverAllocated
  <2> QED  BY <2>1, <2>2, <2>3
<1>7. \A q \in Payments : AllocatedOf(q)' = AllocatedOf(q) /\ payments'[q].amount = payments[q].amount
  BY <1>2, <1>3, <1>5 DEF AllocatedOf, Alloc
<1>8. NeverOverAllocated'
  BY <1>6, <1>7 DEF MoneyInv, NeverOverAllocated, Total, Subtotal, Tax
<1>9. \A q \in Payments : payments'[q].status = "ABSENT" => ~IsReversed(q)' /\ \A i \in Kinds : Alloc(q, i)' = 0
  <2>1. payments'[p].status # "ABSENT"
    BY <1>2, <1>5 DEF PaymentReverse, Original
  <2> QED  BY <1>3, <1>5, <2>1 DEF MoneyInv, IsReversed, Alloc
<1> QED  BY <1>4, <1>8, <1>9 DEF MoneyInv, PaymentReverse

(* The documents of a receipt change its vouchers alone. *)
LEMMA MoneyKept ==
  ASSUME MoneyInv, Recorded', allocations' = allocations, today' \in Days,
         \A p \in Payments : /\ payments'[p].status = payments[p].status
                             /\ payments'[p].amount = payments[p].amount
                             /\ payments'[p].reversedOn = payments[p].reversedOn
  PROVE  MoneyInv'
<1>1. \A i \in Kinds : Allocated(i)' = Allocated(i)
  BY DEF Allocated, IsReversed, Alloc
<1>2. \A p \in Payments : AllocatedOf(p)' = AllocatedOf(p)
  BY DEF AllocatedOf, Alloc
<1>3. NeverOverAllocated'
  BY <1>1, <1>2 DEF MoneyInv, NeverOverAllocated, Total, Subtotal, Tax
<1> QED  BY <1>3 DEF MoneyInv, IsReversed, Alloc

LEMMA MoneyDocumented ==
  ASSUME MoneyInv, NEW p \in Payments, NEW which \in {"voucher", "reversalVoucher"}, ReceiptDocument(p, which)
  PROVE  MoneyInv'
<1>1. \A q \in Payments : payments[q] \in Charges
  BY DEF MoneyInv, Recorded
<1>2. ASSUME NEW new, payments' = [payments EXCEPT ![p] = new], new \in Charges,
             new.status = payments[p].status, new.amount = payments[p].amount,
             new.reversedOn = payments[p].reversedOn
      PROVE  MoneyInv'
  <2>1. Recorded' /\ allocations' = allocations /\ today' \in Days
    BY <1>2 DEF MoneyInv, Recorded, ReceiptDocument
  <2>2. \A q \in Payments : /\ payments'[q].status = payments[q].status
                            /\ payments'[q].amount = payments[q].amount
                            /\ payments'[q].reversedOn = payments[q].reversedOn
    BY <1>2 DEF MoneyInv, Recorded
  <2> QED  BY <2>1, <2>2, MoneyKept
<1>3. CASE which = "voucher"
  <2> DEFINE new == [payments[p] EXCEPT !.voucher = "ISSUED"]
  <2>1. payments' = [payments EXCEPT ![p] = new]
    BY <1>3 DEF ReceiptDocument
  <2>2. /\ new \in Charges /\ new.status = payments[p].status
        /\ new.amount = payments[p].amount /\ new.reversedOn = payments[p].reversedOn
    BY <1>1 DEF Charges
  <2> HIDE DEF new
  <2> QED  BY <1>2, <2>1, <2>2
<1>4. CASE which = "reversalVoucher"
  <2> DEFINE new == [payments[p] EXCEPT !.reversalVoucher = "ISSUED"]
  <2>1. payments' = [payments EXCEPT ![p] = new]
    BY <1>4 DEF ReceiptDocument
  <2>2. /\ new \in Charges /\ new.status = payments[p].status
        /\ new.amount = payments[p].amount /\ new.reversedOn = payments[p].reversedOn
    BY <1>1 DEF Charges
  <2> HIDE DEF new
  <2> QED  BY <1>2, <2>1, <2>2
<1> QED  BY <1>3, <1>4

LEMMA MoneyBegins ==
  ASSUME BillingInit
  PROVE  MoneyInv
<1>1. NoPayment \in Charges
  BY DEF NoPayment, Charges
<1>2. Recorded
  BY <1>1 DEF BillingInit, Recorded, Shares
<1>3. \A p \in Payments : ~IsReversed(p) /\ payments[p].amount = 0 /\ \A i \in Kinds : Alloc(p, i) = 0
  BY DEF BillingInit, NoPayment, IsReversed, Alloc
<1>4. \A i \in Kinds : Allocated(i) = 0
  <2> TAKE i \in Kinds
  <2>1. \A p \in Payments : Net(i)[p] = 0
    BY <1>3 DEF Net
  <2> QED  BY <1>2, <2>1, SumOfZeros, BillingAssumption, Counts DEF Counted
<1>5. \A p \in Payments : AllocatedOf(p) = 0
  <2> TAKE p \in Payments
  <2>1. \A i \in Kinds : SharesOf(p)[i] = 0
    BY <1>3 DEF SharesOf
  <2> QED  BY <1>2, <2>1, SumOfZeros, KindsFinite, Counts DEF Counted
<1>6. NeverOverAllocated
  BY <1>3, <1>4, <1>5, Totals DEF NeverOverAllocated
<1>7. today \in Days
  BY LedgerAssumption DEF BillingInit, LedgerInit, Days
<1> QED  BY <1>2, <1>3, <1>6, <1>7 DEF MoneyInv

LEMMA MoneyStep ==
  ASSUME MoneyInv, BillingNext
  PROVE  MoneyInv'
<1>1. ASSUME UNCHANGED <<payments, allocations>>, today' \in Days
      PROVE  MoneyInv'
  <2>1. Recorded'
    BY <1>1 DEF MoneyInv, Recorded
  <2> QED  BY <1>1, <2>1, MoneyKept
<1>2. today \in Days
  BY DEF MoneyInv
<1>3. ASSUME NEW actor, NEW key, JournalReverse(actor, key, LastDay), UNCHANGED billing
      PROVE  MoneyInv'
  BY <1>1, <1>2, <1>3 DEF JournalReverse, billing
<1>4. ASSUME NextDay PROVE MoneyInv'
  BY <1>1, <1>2, <1>4, LedgerAssumption DEF NextDay, billing, Days
<1>5. ASSUME NEW actor, AdvanceDocument(actor) \/ FinalInvoice(actor)
      PROVE  MoneyInv'
  BY <1>1, <1>2, <1>5 DEF AdvanceDocument, FinalInvoice
<1>6. ASSUME NEW actor, NEW p \in Payments, NEW n \in Amounts, NEW d \in Days,
             NEW shares \in [Kinds -> 0..Fee], PaymentRecord(actor, p, n, d, shares)
      PROVE  MoneyInv'
  BY <1>6, MoneyRecorded
<1>7. ASSUME NEW actor, NEW p \in Payments, PaymentReverse(actor, p)
      PROVE  MoneyInv'
  BY <1>7, MoneyReversed
<1>8. ASSUME NEW actor, NEW p \in Payments, NEW i \in Kinds, NEW n \in Amounts, NEW d \in Days,
             PaymentAllocate(actor, p, i, n, d)
      PROVE  MoneyInv'
  BY <1>8, MoneyAllocated
<1>9. ASSUME NEW actor, NEW p, NEW i, NEW n, NEW d, AllocationReverse(actor, p, i, n, d)
      PROVE  MoneyInv'
  BY <1>1, <1>2, <1>9 DEF AllocationReverse
<1>10. ASSUME NEW actor, NEW i, NEW n, NEW d, CreditNote(actor, i, n, d)
       PROVE  MoneyInv'
  BY <1>1, <1>2, <1>10 DEF CreditNote
<1>11. ASSUME NEW actor, NEW policy, NEW n, NEW d, RevenueRecognize(actor, policy, n, d)
       PROVE  MoneyInv'
  BY <1>1, <1>2, <1>11 DEF RevenueRecognize
<1>12. ASSUME NEW p \in Payments, NEW which \in {"voucher", "reversalVoucher"}, ReceiptDocument(p, which)
       PROVE  MoneyInv'
  BY <1>12, MoneyDocumented
<1>13. ASSUME NEW method, NEW from, RevenuePolicySave(method, from)
       PROVE  MoneyInv'
  BY <1>1, <1>2, <1>13 DEF RevenuePolicySave
<1>14. ASSUME NEW first, NEW last, PeriodOpen(first, last), UNCHANGED billing
       PROVE  MoneyInv'
  BY <1>1, <1>2, <1>14 DEF PeriodOpen, billing
<1>15. ASSUME NEW p, PeriodClose(p), UNCHANGED billing
       PROVE  MoneyInv'
  BY <1>1, <1>2, <1>15 DEF PeriodClose, billing
<1> QED
  BY <1>3, <1>4, <1>5, <1>6, <1>7, <1>8, <1>9, <1>10, <1>11, <1>12, <1>13, <1>14, <1>15 DEF BillingNext

(* Money is applied once: no invoice is paid beyond its total and no        *)
(* payment allocated beyond its amount, for any number of receipts, any fee *)
(* and tax, and any order of receipts, reversals, returns and credit notes  *)
(* (payment_allocations_scope_guard).                                       *)
THEOREM MoneyIsAppliedOnce == BillingSpec => []NeverOverAllocated
<1>1. BillingInit => MoneyInv
  BY MoneyBegins
<1>2. MoneyInv /\ [BillingNext]_<<today, ledger, billing>> => MoneyInv'
  <2>1. CASE BillingNext
    BY <2>1, MoneyStep
  <2>2. CASE UNCHANGED <<today, ledger, billing>>
    <3>1. MoneyInv /\ UNCHANGED <<today, ledger, billing>> => Recorded'
      BY <2>2 DEF MoneyInv, Recorded, billing
    <3> QED  BY <2>2, <3>1, MoneyKept DEF billing, MoneyInv
  <2> QED  BY <2>1, <2>2
<1>3. MoneyInv => NeverOverAllocated
  BY DEF MoneyInv
<1> QED  BY <1>1, <1>2, <1>3, PTL DEF BillingSpec
----
(* Rates and reports of days that are over. *)

Events == [rate : Nat, action : {"ACTIVATE", "RETIRE"}, from : Days]
Times == [status : {"ABSENT", "DRAFT", "SUBMITTED", "RETURNED", "APPROVED"},
          day : Nat, minutes : Nat, start : Nat, rate : Nat,
          creator : People \cup {"none"}, submitter : People \cup {"none"}, approver : People \cup {"none"},
          createdOn : Nat, approvedOn : Nat, correctedOn : Nat]

EntryForm(e) ==
  /\ e.approvedOn <= today
  /\ e.status = "SUBMITTED" => e.rate # NoRate
  /\ e.correctedOn # 0 => e.status = "APPROVED" /\ e.approvedOn <= e.correctedOn

(* Reports are kept of days that are over, and say of the work what they    *)
(* would say now.                                                           *)
PracticeInv ==
  /\ today \in Days
  /\ rank \in Ranks
  /\ activations \in Seq(Events)
  /\ budgets \in Seq(Days)
  /\ entries \in [TimeEntries -> Times]
  /\ \A t \in TimeEntries : EntryForm(entries[t])
  /\ \A s \in snapshots : s.cutoff \in 1..(today - 1) /\ s.work = Work(s.cutoff)

KeepsPast == \A d \in 1..(today - 1) : RateOn(d)' = RateOn(d)

LEMMA RateTypes ==
  ASSUME activations \in Seq(Events)
  PROVE  /\ \A d : RateOn(d) \in Nat
         /\ Rates \subseteq Nat /\ Cardinality(Rates) \in Nat
<1>1. \A k \in DOMAIN activations : activations[k].rate \in Nat
  <2>1. \A k \in DOMAIN activations : activations[k] \in Events
    BY ElementOfSeq, LenProperties
  <2> QED  BY <2>1 DEF Events
<1>2. ASSUME NEW d PROVE RateOn(d) \in Nat
  <2> DEFINE held == {k \in DOMAIN activations : Takes(k, d) /\ activations[k].action = "ACTIVATE"}
  <2>1. CASE held = {}
    BY <2>1 DEF RateOn, NoRate
  <2>2. CASE held # {}
    <3>1. (CHOOSE k \in held : TRUE) \in DOMAIN activations
      BY <2>2
    <3> QED  BY <1>1, <2>2, <3>1 DEF RateOn
  <2> QED  BY <2>1, <2>2
<1>3. Cardinality(Rates) \in Nat
  <2> DEFINE f == [k \in 1..Len(activations) |-> activations[k].rate]
  <2>1. Len(activations) \in Nat /\ DOMAIN activations = 1..Len(activations)
    BY LenProperties
  <2>2. f \in Surjection(1..Len(activations), Rates)
    BY <2>1 DEF Surjection, Rates
  <2>3. IsFiniteSet(1..Len(activations))
    BY <2>1, FS_Interval
  <2> HIDE DEF f
  <2>4. IsFiniteSet(Rates)
    BY <2>2, <2>3, FS_Surjection
  <2> QED  BY <2>4, FS_CardinalityType
<1> QED  BY <1>1, <1>2, <1>3 DEF Rates

LEMMA StaffRateType ==
  ASSUME activations \in Seq(Events)
  PROVE  \A d : StaffRate(d) \in Nat
BY RateTypes, PracticeAssumption DEF StaffRate, OtherRate

(* Events that take effect from today on change no rate of the days before. *)
LEMMA Later ==
  ASSUME today \in Days, activations \in Seq(Events), NEW more \in Seq(Events),
         \A k \in 1..Len(more) : today <= more[k].from,
         activations' = activations \o more
  PROVE  activations' \in Seq(Events) /\ KeepsPast
<1>1. /\ activations' \in Seq(Events)
      /\ Len(activations) \in Nat /\ Len(more) \in Nat
      /\ DOMAIN activations = 1..Len(activations)
      /\ DOMAIN activations' = 1..(Len(activations) + Len(more))
      /\ \A k \in 1..Len(activations) : activations'[k] = activations[k]
      /\ \A k \in DOMAIN activations' : k \notin DOMAIN activations => activations'[k] = more[k - Len(activations)]
  BY ConcatProperties, LenProperties
<1>2. \A k \in DOMAIN activations' \ DOMAIN activations : today <= activations'[k].from
  <2> TAKE k \in DOMAIN activations' \ DOMAIN activations
  <2>1. k - Len(activations) \in 1..Len(more)
    BY <1>1
  <2> QED  BY <1>1, <2>1
<1>3. \A k \in DOMAIN activations' : activations'[k].from \in Nat
  <2>1. \A k \in DOMAIN activations' : activations'[k] \in Events
    BY <1>1, ElementOfSeq
  <2> QED  BY <2>1 DEF Events, Days
<1>4. ASSUME NEW d \in 1..(today - 1) PROVE RateOn(d)' = RateOn(d)
  <2>1. d \in Nat /\ d < today
    BY <1>4 DEF Days
  <2>2. \A k \in DOMAIN activations' \ DOMAIN activations : ~(activations'[k].from <= d)
    BY <1>2, <1>3, <2>1 DEF Days
  <2>3. DOMAIN activations \subseteq DOMAIN activations' /\ \A k \in DOMAIN activations : activations'[k] = activations[k]
    BY <1>1
  <2>4. \A k \in DOMAIN activations : Takes(k, d)' <=> Takes(k, d)
    BY <2>2, <2>3 DEF Takes
  <2>5. {k \in DOMAIN activations' : Takes(k, d)' /\ activations'[k].action = "ACTIVATE"}
          = {k \in DOMAIN activations : Takes(k, d) /\ activations[k].action = "ACTIVATE"}
    <3>1. \A k \in DOMAIN activations' \ DOMAIN activations : ~Takes(k, d)'
      BY <2>2 DEF Takes
    <3>2. \A k : k \in DOMAIN activations' /\ Takes(k, d)' <=> k \in DOMAIN activations /\ Takes(k, d)
      BY <2>3, <2>4, <3>1
    <3> QED  BY <2>3, <3>2
  <2> DEFINE held == {k \in DOMAIN activations : Takes(k, d) /\ activations[k].action = "ACTIVATE"}
  <2>6. CASE held = {}
    BY <2>5, <2>6 DEF RateOn
  <2>7. CASE held # {}
    <3>1. (CHOOSE k \in held : TRUE) \in DOMAIN activations
      BY <2>7
    <3>2. activations'[CHOOSE k \in held : TRUE].rate = activations[CHOOSE k \in held : TRUE].rate
      BY <2>3, <3>1
    <3> QED  BY <2>5, <2>7, <3>2 DEF RateOn
  <2> QED  BY <2>6, <2>7
<1> QED  BY <1>1, <1>4 DEF KeepsPast

LEMMA RatesSet ==
  ASSUME today \in Days, activations \in Seq(Events), NEW from \in Days, RateSet(from)
  PROVE  activations' \in Seq(Events) /\ KeepsPast
<1> DEFINE rate == Cardinality(Rates) + 1
           retired == IF RateOn(from) = NoRate THEN <<>> ELSE <<Event(RateOn(from), "RETIRE", from)>>
           more == Append(retired, Event(rate, "ACTIVATE", from))
<1>1. today <= from /\ activations' = activations \o more
  BY DEF RateSet, Activate
<1>2. Event(RateOn(from), "RETIRE", from) \in Events /\ Event(rate, "ACTIVATE", from) \in Events
  BY RateTypes DEF Event, Events
<1>3. retired \in Seq(Events) /\ \A k \in 1..Len(retired) : today <= retired[k].from
  BY <1>1, <1>2 DEF Event
<1>4. Event(rate, "ACTIVATE", from).from = from
  BY DEF Event
<1> HIDE DEF retired, rate
<1>5. /\ more \in Seq(Events) /\ Len(retired) \in Nat
      /\ Len(more) = Len(retired) + 1
      /\ \A k \in 1..Len(retired) : more[k] = retired[k]
      /\ more[Len(retired) + 1].from = from
  BY <1>2, <1>3, <1>4, AppendProperties, LenProperties
<1>6. \A k \in 1..Len(more) : today <= more[k].from
  <2> TAKE k \in 1..Len(more)
  <2>1. k \in 1..Len(retired) \/ k = Len(retired) + 1
    BY <1>5
  <2> QED  BY <1>1, <1>3, <1>5, <2>1
<1> HIDE DEF more
<1> QED  BY <1>1, <1>5, <1>6, Later

LEMMA RatesRetired ==
  ASSUME today \in Days, activations \in Seq(Events), NEW rate \in Rates, NEW from \in Days, RateRetire(rate, from)
  PROVE  activations' \in Seq(Events) /\ KeepsPast
<1> DEFINE event == Event(rate, "RETIRE", from)
<1>1. event \in Events /\ event.from = from /\ today <= from
  BY RateTypes DEF Event, Events, RateRetire
<1>2. activations' = Append(activations, event)
  BY DEF RateRetire
<1> HIDE DEF event
<1>3. activations' = activations \o <<event>>
  BY <1>1, <1>2, AppendIsConcat
<1>4. <<event>> \in Seq(Events) /\ \A k \in 1..Len(<<event>>) : today <= <<event>>[k].from
  BY <1>1
<1> QED  BY <1>3, <1>4, Later

(* What a command does to one entry: it is made today, moved on to where it *)
(* is approved today at the earliest, or struck out today.                  *)
Fresh(e, f) == e.status = "ABSENT" /\ f.createdOn = today /\ (f.status = "APPROVED" => f.approvedOn = today)
Moved(e, f) ==
  /\ e.status \in {"DRAFT", "RETURNED", "SUBMITTED"} /\ f.status # "ABSENT"
  /\ f.status = "APPROVED" => f.approvedOn = today
  /\ f.createdOn = e.createdOn /\ f.minutes = e.minutes /\ f.correctedOn = e.correctedOn
Struck(e, f) ==
  /\ e.correctedOn = 0 /\ f.correctedOn = today
  /\ f.status = e.status /\ f.createdOn = e.createdOn /\ f.approvedOn = e.approvedOn
  /\ f.minutes = e.minutes /\ f.rate = e.rate
Becomes(e, f) == f = e \/ Fresh(e, f) \/ Moved(e, f) \/ Struck(e, f)

LEMMA ReportStays ==
  ASSUME today \in Days, NEW c \in 1..(today - 1),
         entries \in [TimeEntries -> Times], entries' \in [TimeEntries -> Times],
         \A t \in TimeEntries : Becomes(entries[t], entries'[t]),
         BudgetAt(c)' = BudgetAt(c)
  PROVE  Work(c)' = Work(c)
<1>1. c \in Nat /\ today \in Nat /\ c < today
  BY DEF Days
<1>2. ASSUME NEW t \in TimeEntries
      PROVE  /\ ApprovedBy(t, c)' <=> ApprovedBy(t, c)
             /\ ApprovedBy(t, c) => /\ StandsAt(t, c)' <=> StandsAt(t, c)
                                    /\ entries'[t].minutes = entries[t].minutes
                                    /\ entries'[t].rate = entries[t].rate
             /\ (entries'[t].status # "ABSENT" /\ entries'[t].createdOn <= c)
                  <=> (entries[t].status # "ABSENT" /\ entries[t].createdOn <= c)
             /\ entries[t].status # "ABSENT" =>
                  /\ StandsAt(t, c)' <=> StandsAt(t, c)
                  /\ entries'[t].minutes = entries[t].minutes
  <2>1. CASE entries'[t] = entries[t]
    BY <2>1 DEF ApprovedBy, StandsAt, Corrected
  <2>2. CASE Fresh(entries[t], entries'[t])
    BY <1>1, <2>2 DEF Fresh, ApprovedBy
  <2>3. CASE Moved(entries[t], entries'[t])
    BY <1>1, <2>3 DEF Moved, ApprovedBy, StandsAt, Corrected
  <2>4. CASE Struck(entries[t], entries'[t])
    BY <1>1, <2>4 DEF Struck, ApprovedBy, StandsAt, Corrected
  <2> QED  BY <2>1, <2>2, <2>3, <2>4 DEF Becomes
<1>3. CountedBy(c)' = CountedBy(c)
  BY <1>2 DEF CountedBy
<1>4. ASSUME NEW t \in CountedBy(c)
      PROVE  entries'[t].minutes = entries[t].minutes /\ entries'[t].rate = entries[t].rate
  BY <1>2, <1>4 DEF CountedBy
<1>5. ChargeOut(c)' = ChargeOut(c)
  <2>1. [t \in CountedBy(c)' |-> entries'[t].minutes * entries'[t].rate]
          = [t \in CountedBy(c) |-> entries[t].minutes * entries[t].rate]
    BY <1>3, <1>4
  <2> QED  BY <2>1 DEF ChargeOut
<1>6. MinutesOf(CountedBy(c))' = MinutesOf(CountedBy(c))
  <2>1. [t \in CountedBy(c)' |-> entries'[t].minutes] = [t \in CountedBy(c) |-> entries[t].minutes]
    BY <1>3, <1>4
  <2> QED  BY <2>1 DEF MinutesOf
<1>7. Pending(c)' = Pending(c)
  <2> DEFINE open == {t \in TimeEntries : /\ entries[t].status # "ABSENT" /\ entries[t].createdOn <= c
                                          /\ ~ApprovedBy(t, c) /\ StandsAt(t, c)}
  <2>1. open' = open
    BY <1>2
  <2>2. \A t \in open : entries'[t].minutes = entries[t].minutes
    BY <1>2
  <2>3. [t \in open' |-> entries'[t].minutes] = [t \in open |-> entries[t].minutes]
    <3> HIDE DEF open
    <3> QED  BY <2>1, <2>2
  <2> QED  BY <2>3 DEF Pending, MinutesOf
<1> QED  BY <1>5, <1>6, <1>7 DEF Work

(* A budget approved today is in no report of a day before. *)
LEMMA BudgetStays ==
  ASSUME today \in Days, budgets \in Seq(Days), budgets' = budgets \/ budgets' = Append(budgets, today)
  PROVE  budgets' \in Seq(Days) /\ \A c \in 1..(today - 1) : BudgetAt(c)' = BudgetAt(c)
<1>1. CASE budgets' = budgets
  BY <1>1 DEF BudgetAt
<1>2. CASE budgets' = Append(budgets, today)
  <2>1. /\ budgets' \in Seq(Days) /\ Len(budgets) \in Nat /\ Len(budgets') = Len(budgets) + 1
        /\ \A k \in 1..Len(budgets) : budgets'[k] = budgets[k]
        /\ budgets'[Len(budgets) + 1] = today
    BY <1>2, AppendProperties, LenProperties
  <2>2. DOMAIN budgets = 1..Len(budgets) /\ DOMAIN budgets' = 1..(Len(budgets) + 1)
    BY <2>1, LenProperties
  <2>3. ASSUME NEW c \in 1..(today - 1)
        PROVE  {k \in DOMAIN budgets' : budgets'[k] <= c} = {k \in DOMAIN budgets : budgets[k] <= c}
    <3>1. ~(today <= c)
      BY DEF Days
    <3>2. \A k \in DOMAIN budgets' : k \in DOMAIN budgets \/ k = Len(budgets) + 1
      BY <2>1, <2>2
    <3>3. \A k \in DOMAIN budgets : k \in DOMAIN budgets' /\ budgets'[k] = budgets[k]
      BY <2>1, <2>2
    <3> QED  BY <2>1, <3>1, <3>2, <3>3
  <2> QED  BY <2>1, <2>3 DEF BudgetAt
<1> QED  BY <1>1, <1>2

LEMMA ReportsStay ==
  ASSUME PracticeInv, entries' \in [TimeEntries -> Times],
         \A t \in TimeEntries : Becomes(entries[t], entries'[t]),
         budgets' = budgets \/ budgets' = Append(budgets, today)
  PROVE  \A c \in 1..(today - 1) : Work(c)' = Work(c)
<1>1. \A c \in 1..(today - 1) : BudgetAt(c)' = BudgetAt(c)
  BY BudgetStays DEF PracticeInv
<1> QED  BY <1>1, ReportStays DEF PracticeInv

LEMMA EntriesChange ==
  ASSUME PracticeInv, entries' \in [TimeEntries -> Times],
         \A t \in TimeEntries : Becomes(entries[t], entries'[t]) /\ EntryForm(entries'[t]),
         UNCHANGED <<today, activations, rank, budgets, snapshots>>
  PROVE  PracticeInv' /\ KeepsPast
<1>1. \A c \in 1..(today - 1) : Work(c)' = Work(c)
  BY ReportsStay
<1>2. \A t \in TimeEntries : EntryForm(entries[t])'
  BY DEF EntryForm, NoRate
<1>3. KeepsPast
  BY DEF KeepsPast, RateOn, Takes
<1> QED  BY <1>1, <1>2, <1>3 DEF PracticeInv

LEMMA TimeCreated ==
  ASSUME PracticeInv, NEW x \in People, NEW t \in TimeEntries, NEW d \in Days, NEW m \in 1..DayMinutes,
         NEW s \in Starts \cup {Untimed}, TimeCreate(x, t, d, m, s)
  PROVE  PracticeInv' /\ KeepsPast
<1> DEFINE new == [NoEntry EXCEPT !.status = "DRAFT", !.day = d, !.minutes = m, !.start = s,
                                  !.creator = x, !.createdOn = today]
<1>1. today \in Nat /\ d \in Nat /\ m \in Nat /\ s \in Nat
  BY PracticeAssumption DEF PracticeInv, Days, Untimed
<1>2. new \in Times /\ new.status = "DRAFT" /\ new.createdOn = today /\ new.approvedOn = 0 /\ new.correctedOn = 0
  BY <1>1 DEF NoEntry, Times, Untimed, NoRate
<1>3. entries' = [entries EXCEPT ![t] = new]
  BY DEF TimeCreate
<1> HIDE DEF new
<1>4. entries' \in [TimeEntries -> Times]
  BY <1>2, <1>3 DEF PracticeInv
<1>5. Fresh(entries[t], new) /\ EntryForm(new)
  BY <1>1, <1>2 DEF TimeCreate, Fresh, EntryForm
<1>6. ASSUME NEW u \in TimeEntries PROVE Becomes(entries[u], entries'[u]) /\ EntryForm(entries'[u])
  BY <1>3, <1>5 DEF PracticeInv, Becomes
<1> QED  BY <1>4, <1>6, EntriesChange DEF TimeCreate

LEMMA TimeMoves ==
  ASSUME PracticeInv, NEW t \in TimeEntries, NEW new \in Times, Moved(entries[t], new), EntryForm(new),
         entries' = [entries EXCEPT ![t] = new],
         UNCHANGED <<today, activations, rank, budgets, snapshots>>
  PROVE  PracticeInv' /\ KeepsPast
<1>1. entries' \in [TimeEntries -> Times]
  BY DEF PracticeInv
<1>2. ASSUME NEW u \in TimeEntries PROVE Becomes(entries[u], entries'[u]) /\ EntryForm(entries'[u])
  BY DEF PracticeInv, Becomes
<1> QED  BY <1>1, <1>2, EntriesChange

LEMMA TimeSubmitted ==
  ASSUME PracticeInv, NEW x \in People, NEW t \in TimeEntries, TimeSubmit(x, t)
  PROVE  PracticeInv' /\ KeepsPast
<1> DEFINE e == entries[t]
           new == [e EXCEPT !.status = "SUBMITTED", !.rate = StaffRate(e.day), !.submitter = x]
<1>1. e \in Times /\ EntryForm(e)
  BY DEF PracticeInv
<1>2. StaffRate(e.day) \in Nat /\ StaffRate(e.day) # NoRate
  BY StaffRateType DEF PracticeInv, TimeSubmit
<1>3. /\ new \in Times /\ new.status = "SUBMITTED" /\ new.rate # NoRate
      /\ new.createdOn = e.createdOn /\ new.minutes = e.minutes
      /\ new.correctedOn = e.correctedOn /\ new.approvedOn = e.approvedOn
  BY <1>1, <1>2 DEF Times
<1>4. entries' = [entries EXCEPT ![t] = new] /\ e.status \in {"DRAFT", "RETURNED"}
  BY DEF TimeSubmit
<1> HIDE DEF new
<1>5. Moved(e, new)
  BY <1>3, <1>4 DEF Moved
<1>6. EntryForm(new)
  BY <1>1, <1>3, <1>4 DEF EntryForm
<1> QED  BY <1>3, <1>4, <1>5, <1>6, TimeMoves DEF TimeSubmit

LEMMA TimeDecided ==
  ASSUME PracticeInv, NEW x \in Actors, NEW t \in TimeEntries, NEW status \in {"APPROVED", "RETURNED"},
         TimeDecide(x, t, status)
  PROVE  PracticeInv' /\ KeepsPast
<1> DEFINE e == entries[t]
           new == IF status = "APPROVED" THEN [e EXCEPT !.status = status, !.approver = x, !.approvedOn = today]
                                         ELSE [e EXCEPT !.status = status]
<1>1. e \in Times /\ EntryForm(e) /\ today \in Nat /\ x \in People
  BY DEF PracticeInv, Days, People
<1>2. /\ new \in Times /\ new.status = status
      /\ new.createdOn = e.createdOn /\ new.minutes = e.minutes
      /\ new.correctedOn = e.correctedOn
      /\ new.approvedOn = IF status = "APPROVED" THEN today ELSE e.approvedOn
  <2>1. CASE status = "APPROVED"
    BY <1>1, <2>1 DEF Times
  <2>2. CASE status = "RETURNED"
    BY <1>1, <2>2 DEF Times
  <2> QED  BY <2>1, <2>2
<1>3. entries' = [entries EXCEPT ![t] = new] /\ e.status = "SUBMITTED"
  BY DEF TimeDecide
<1> HIDE DEF new
<1>4. Moved(e, new)
  BY <1>2, <1>3 DEF Moved
<1>5. EntryForm(new)
  BY <1>1, <1>2, <1>3 DEF EntryForm
<1> QED  BY <1>2, <1>3, <1>4, <1>5, TimeMoves DEF TimeDecide

LEMMA TimeStruck ==
  ASSUME PracticeInv, NEW t \in TimeEntries, entries[t].status = "APPROVED", ~Corrected(t)
  PROVE  LET new == [entries[t] EXCEPT !.correctedOn = today]
         IN  new \in Times /\ Struck(entries[t], new) /\ EntryForm(new)
<1> DEFINE e == entries[t]
           new == [e EXCEPT !.correctedOn = today]
<1>1. e \in Times /\ EntryForm(e) /\ today \in Nat
  BY DEF PracticeInv, Days
<1>2. /\ new \in Times /\ new.correctedOn = today
      /\ new.status = e.status /\ new.createdOn = e.createdOn /\ new.approvedOn = e.approvedOn
      /\ new.minutes = e.minutes /\ new.rate = e.rate
  BY <1>1 DEF Times
<1> HIDE DEF new
<1>3. Struck(e, new) /\ EntryForm(new)
  BY <1>1, <1>2 DEF Struck, Corrected, EntryForm
<1> QED  BY <1>2, <1>3 DEF new

LEMMA TimeStrikes ==
  ASSUME PracticeInv, NEW x \in Actors, NEW t \in TimeEntries, TimeStrike(x, t)
  PROVE  PracticeInv' /\ KeepsPast
<1> DEFINE new == [entries[t] EXCEPT !.correctedOn = today]
<1>1. entries' = [entries EXCEPT ![t] = new] /\ entries[t].status = "APPROVED" /\ ~Corrected(t)
  BY DEF TimeStrike, Correctable, PracticeInv
<1>2. new \in Times /\ Struck(entries[t], new) /\ EntryForm(new)
  BY <1>1, TimeStruck
<1> HIDE DEF new
<1>3. entries' \in [TimeEntries -> Times]
  BY <1>1, <1>2 DEF PracticeInv
<1>4. ASSUME NEW u \in TimeEntries PROVE Becomes(entries[u], entries'[u]) /\ EntryForm(entries'[u])
  BY <1>1, <1>2 DEF PracticeInv, Becomes
<1> QED  BY <1>3, <1>4, EntriesChange DEF TimeStrike

LEMMA TimeReplaced ==
  ASSUME PracticeInv, NEW x \in Actors, NEW t \in TimeEntries, NEW r \in TimeEntries, NEW d \in Days,
         NEW m \in 1..DayMinutes, NEW s \in Starts \cup {Untimed}, TimeReplace(x, t, r, d, m, s)
  PROVE  PracticeInv' /\ KeepsPast
<1> DEFINE old == [entries[t] EXCEPT !.correctedOn = today]
           new == [status |-> "APPROVED", day |-> d, minutes |-> m, start |-> s, rate |-> StaffRate(d), creator |-> x,
                   submitter |-> entries[t].submitter, approver |-> x, createdOn |-> today, approvedOn |-> today,
                   correctedOn |-> 0]
<1>1. entries[t].status = "APPROVED" /\ ~Corrected(t) /\ entries[r].status = "ABSENT" /\ t # r
  BY DEF TimeReplace, Correctable
<1>2. old \in Times /\ Struck(entries[t], old) /\ EntryForm(old)
  BY <1>1, TimeStruck
<1>3. /\ today \in Nat /\ d \in Nat /\ m \in Nat /\ s \in Nat /\ x \in People /\ StaffRate(d) \in Nat
      /\ entries[t].submitter \in People \cup {"none"}
  <2>1. StaffRate(d) \in Nat
    BY StaffRateType DEF PracticeInv
  <2>2. entries[t].submitter \in People \cup {"none"}
    BY DEF PracticeInv, Times
  <2> QED  BY <2>1, <2>2, PracticeAssumption DEF PracticeInv, Days, Untimed, People
<1>4. new \in Times
  BY <1>3 DEF Times
<1>5. Fresh(entries[r], new) /\ EntryForm(new)
  BY <1>1, <1>3 DEF Fresh, EntryForm
<1>6. entries' = [entries EXCEPT ![t] = old, ![r] = new]
  BY DEF TimeReplace, PracticeInv
<1> HIDE DEF old, new
<1>7. entries' \in [TimeEntries -> Times]
  BY <1>2, <1>4, <1>6 DEF PracticeInv
<1>8. ASSUME NEW u \in TimeEntries PROVE Becomes(entries[u], entries'[u]) /\ EntryForm(entries'[u])
  <2>1. CASE u = r
    BY <1>5, <1>6, <2>1 DEF PracticeInv, Becomes
  <2>2. CASE u = t
    BY <1>1, <1>2, <1>6, <2>2 DEF PracticeInv, Becomes
  <2>3. CASE u # t /\ u # r
    BY <1>6, <2>3 DEF PracticeInv, Becomes
  <2> QED  BY <2>1, <2>2, <2>3
<1> QED  BY <1>7, <1>8, EntriesChange DEF TimeReplace

LEMMA PracticeBegins ==
  ASSUME PracticeInit
  PROVE  PracticeInv
<1>1. today = 1 /\ today \in Days /\ 1 \in Days
  BY LedgerAssumption DEF PracticeInit, BillingInit, LedgerInit, Days
<1>2. Event(1, "ACTIVATE", 1) \in Events
  BY <1>1 DEF Event, Events
<1>3. activations \in Seq(Events) /\ budgets \in Seq(Days)
  BY <1>2 DEF PracticeInit
<1>4. NoEntry \in Times /\ EntryForm(NoEntry)
  BY <1>1 DEF NoEntry, Times, EntryForm, Untimed, NoRate
<1> QED  BY <1>1, <1>3, <1>4 DEF PracticeInit, PracticeInv

LEMMA PracticeAges ==
  ASSUME PracticeInv, UNCHANGED <<activations, rank, entries, budgets, snapshots>>,
         today' \in Days, today <= today'
  PROVE  PracticeInv'
<1>1. today \in Nat /\ today' \in Nat
  BY LedgerAssumption DEF PracticeInv, Days
<1>2. \A t \in TimeEntries : EntryForm(entries[t])'
  BY <1>1 DEF PracticeInv, EntryForm, Times
<1>3. \A c : Work(c)' = Work(c)
  BY DEF Work, BudgetAt, CountedBy, ChargeOut, Pending, MinutesOf, ApprovedBy, StandsAt, Corrected
<1>4. \A c \in 1..(today - 1) : c \in 1..(today' - 1)
  <2>1. \A m, n \in Nat : m <= n => \A c \in 1..(m - 1) : c \in 1..(n - 1)
    OBVIOUS
  <2> QED  BY <1>1, <2>1
<1> QED  BY <1>2, <1>3, <1>4 DEF PracticeInv

LEMMA PracticeStep ==
  ASSUME PracticeInv, PracticeNext
  PROVE  PracticeInv' /\ KeepsPast
<1>1. ASSUME entries' = entries, today' = today, rank' \in Ranks, budgets' = budgets \/ budgets' = Append(budgets, today),
             activations' \in Seq(Events), KeepsPast,
             \A s \in snapshots' : s \in snapshots \/ \E c \in 1..(today - 1) : s = Report(c)
      PROVE  PracticeInv'
  <2>1. \A c \in 1..(today - 1) : Work(c)' = Work(c)
    BY <1>1, ReportsStay DEF PracticeInv, Becomes
  <2>2. \A c : Report(c).cutoff = c /\ Report(c).work = Work(c)
    BY DEF Report
  <2>3. budgets' \in Seq(Days)
    BY <1>1, BudgetStays DEF PracticeInv
  <2>4. \A t \in TimeEntries : EntryForm(entries[t])'
    BY <1>1 DEF PracticeInv, EntryForm
  <2>5. \A s \in snapshots' : s.cutoff \in 1..(today - 1) /\ s.work = Work(s.cutoff)
    BY <1>1, <2>2 DEF PracticeInv
  <2> QED  BY <1>1, <2>1, <2>3, <2>4, <2>5 DEF PracticeInv
<1>2. UNCHANGED activations => activations' \in Seq(Events) /\ KeepsPast
  BY DEF PracticeInv, KeepsPast, RateOn, Takes
<1>3. ASSUME PracticeNextDay PROVE PracticeInv' /\ KeepsPast
  <2>1. today' \in Days /\ today <= today'
    BY <1>3, LedgerAssumption DEF PracticeNextDay, PracticeInv, Days
  <2>2. UNCHANGED <<activations, rank, entries, budgets, snapshots>>
    BY <1>3 DEF PracticeNextDay, practice
  <2> QED  BY <1>2, <2>1, <2>2, PracticeAges
<1>4. ASSUME NEW d \in Days, RateSet(d) PROVE PracticeInv' /\ KeepsPast
  <2>1. activations' \in Seq(Events) /\ KeepsPast
    BY <1>4, RatesSet DEF PracticeInv
  <2> QED  BY <1>1, <1>4, <2>1 DEF RateSet, PracticeInv
<1>5. ASSUME NEW rate \in Rates, NEW d \in Days, RateRetire(rate, d) PROVE PracticeInv' /\ KeepsPast
  <2>1. activations' \in Seq(Events) /\ KeepsPast
    BY <1>5, RatesRetired DEF PracticeInv
  <2> QED  BY <1>1, <1>5, <2>1 DEF RateRetire, PracticeInv
<1>6. ASSUME NEW c \in 1..(today - 1), CaptureProfitability(c) PROVE PracticeInv' /\ KeepsPast
  BY <1>1, <1>2, <1>6 DEF CaptureProfitability, PracticeInv
<1>7. ASSUME NEW d, BudgetApprove(d) PROVE PracticeInv' /\ KeepsPast
  BY <1>1, <1>2, <1>7 DEF BudgetApprove, PracticeInv
<1>8. ASSUME NEW g \in Ranks, Regrade(g) PROVE PracticeInv' /\ KeepsPast
  BY <1>1, <1>2, <1>8 DEF Regrade
<1> QED
  BY <1>3, <1>4, <1>5, <1>6, <1>7, <1>8, TimeSubmitted, TimeStrikes, TimeDecided, TimeCreated, TimeReplaced
     DEF PracticeNext

LEMMA PracticeRests ==
  ASSUME PracticeInv, UNCHANGED <<today, activations, rank, entries, budgets, snapshots>>
  PROVE  PracticeInv'
<1>1. today' \in Days /\ today <= today'
  BY LedgerAssumption DEF PracticeInv, Days
<1> QED  BY <1>1, PracticeAges

(* The work a report counts is as its snapshot kept it when the report is   *)
(* drawn up again, for any number of entries, rates and reports             *)
(* (buildCaptureProfitability).  It is not claimed of what it says is       *)
(* billed and collected; SettledFiguresStay says when that is final.        *)
THEOREM ReportsReproduce == PracticeSpec => []SnapshotsReproduce
<1>1. PracticeInit => PracticeInv
  BY PracticeBegins
<1>2. PracticeInv /\ [PracticeNext]_<<today, books, practice>> => PracticeInv'
  <2>1. CASE PracticeNext
    BY <2>1, PracticeStep
  <2>2. CASE UNCHANGED <<today, books, practice>>
    BY <2>2, PracticeRests DEF practice
  <2> QED  BY <2>1, <2>2
<1>3. PracticeInv => SnapshotsReproduce
  BY DEF PracticeInv, SnapshotsReproduce
<1> QED  BY <1>1, <1>2, <1>3, PTL DEF PracticeSpec

(* Historical work keeps its approved rate: no later event changes the rate *)
(* of a day that is over (activationStatements, retirePolicy).              *)
THEOREM HistoryKeepsItsRate == PracticeSpec => PastRatesAreFixed
<1>1. PracticeInit => PracticeInv
  BY PracticeBegins
<1>2. PracticeInv /\ [PracticeNext]_<<today, books, practice>> => PracticeInv' /\ [KeepsPast]_<<today, activations>>
  <2>1. CASE PracticeNext
    BY <2>1, PracticeStep
  <2>2. CASE UNCHANGED <<today, books, practice>>
    BY <2>2, PracticeRests DEF practice
  <2> QED  BY <2>1, <2>2
<1> QED  BY <1>1, <1>2, PTL DEF PracticeSpec, PastRatesAreFixed, KeepsPast

----
(* Of a relation that orders numbers 1..N there is a sequence in that       *)
(* order: a number stands after as many as there are before it.             *)
LEMMA Enumerated ==
  ASSUME NEW N \in Nat, NEW order \in [1..N -> 1..N],
         \A n, m \in 1..N : order[n] = order[m] => n = m
  PROVE  \A i \in 1..N : \E n \in 1..N : order[n] = i
<1>1. IsFiniteSet(1..N)
  BY FS_Interval
<1>2. order \in Injection(1..N, 1..N)
  BY DEF Injection, IsInjective
<1>3. order \in Surjection(1..N, 1..N)
  BY <1>1, <1>2, FS_Injection
<1> QED  BY <1>3 DEF Surjection

LEMMA Sortable ==
  ASSUME NEW N \in Nat, NEW R,
         \A i \in 1..N : <<i, i>> \notin R,
         \A i, j, k \in 1..N : <<i, j>> \in R /\ <<j, k>> \in R => <<i, k>> \in R,
         \A i, j \in 1..N : i = j \/ <<i, j>> \in R \/ <<j, i>> \in R
  PROVE  \E order \in [1..N -> 1..N] : \A n, m \in 1..N : n < m => <<order[n], order[m]>> \in R
<1> DEFINE before == [i \in 1..N |-> {j \in 1..N : <<j, i>> \in R}]
           size == [i \in 1..N |-> Cardinality(before[i])]
           place == [i \in 1..N |-> size[i] + 1]
           order == [n \in 1..N |-> CHOOSE i \in 1..N : place[i] = n]
<1>1. \A i \in 1..N : before[i] \in SUBSET (1..N) /\ i \notin before[i]
  OBVIOUS
<1>2. \A i, j \in 1..N : <<i, j>> \in R => before[i] \subseteq before[j] /\ i \in before[j]
  OBVIOUS
<1> HIDE DEF before
<1>3. IsFiniteSet(1..N) /\ Cardinality(1..N) = N
  BY FS_Interval
<1>4. ASSUME NEW i \in 1..N
      PROVE  IsFiniteSet(before[i]) /\ size[i] = Cardinality(before[i]) /\ size[i] \in 0..(N - 1)
  <2>1. IsFiniteSet(before[i]) /\ Cardinality(before[i]) <= N /\ Cardinality(before[i]) # N
    BY <1>1, <1>3, FS_Subset
  <2> QED  BY <2>1, FS_CardinalityType
<1> HIDE DEF size
<1>5. ASSUME NEW i \in 1..N, NEW j \in 1..N, <<i, j>> \in R
      PROVE  size[i] < size[j]
  <2>1. before[i] \in SUBSET before[j] /\ before[i] # before[j]
    BY <1>1, <1>2, <1>5
  <2>2. IsFiniteSet(before[j]) /\ size[i] = Cardinality(before[i]) /\ size[j] = Cardinality(before[j])
        /\ size[i] \in Nat /\ size[j] \in Nat
    BY <1>4
  <2>3. size[i] <= size[j] /\ size[i] # size[j]
    BY <2>1, <2>2, FS_Subset
  <2> QED  BY <2>2, <2>3
<1>6. place \in [1..N -> 1..N] /\ \A i, j \in 1..N : place[i] = place[j] => i = j
  <2>1. place \in [1..N -> 1..N]
    BY <1>4
  <2>2. ASSUME NEW i \in 1..N, NEW j \in 1..N, place[i] = place[j] PROVE i = j
    <3>1. size[i] \in Nat /\ size[j] \in Nat
      BY <1>4
    <3>2. size[i] = size[j]
      BY <2>2, <3>1
    <3>3. ~(<<i, j>> \in R) /\ ~(<<j, i>> \in R)
      BY <1>5, <3>1, <3>2
    <3> QED  BY <3>3
  <2> QED  BY <2>1, <2>2
<1>7. \A n \in 1..N : \E i \in 1..N : place[i] = n
  <2> HIDE DEF place
  <2> QED  BY <1>6, Enumerated
<1>8. \A n \in 1..N : order[n] \in 1..N /\ place[order[n]] = n
  <2> HIDE DEF place
  <2> QED  BY <1>7
<1>9. order \in [1..N -> 1..N]
  BY <1>8
<1> HIDE DEF order
<1>10. ASSUME NEW n \in 1..N, NEW m \in 1..N, n < m PROVE <<order[n], order[m]>> \in R
  <2> DEFINE i == order[n]
             j == order[m]
  <2>1. i \in 1..N /\ j \in 1..N /\ place[i] = n /\ place[j] = m
    BY <1>8
  <2> HIDE DEF i, j
  <2>2. size[i] \in Nat /\ size[j] \in Nat /\ size[i] < size[j]
    BY <1>4, <1>10, <2>1
  <2>3. ~(<<j, i>> \in R) /\ i # j
    BY <1>5, <2>1, <2>2
  <2>4. <<i, j>> \in R
    BY <2>1, <2>3
  <2> QED  BY <2>4 DEF i, j
<1> QED  BY <1>9, <1>10

----
(* A sequence of states, each of which a function makes of the one before.  *)
IsIteration(u, F, a, N) == u[0] = a /\ \A n \in 1..N : u[n] = F[u[n - 1]]

LEMMA Iterates ==
  ASSUME NEW S, NEW F \in [S -> S], NEW a \in S, NEW N \in Nat
  PROVE  \E u \in [0..N -> S] : IsIteration(u, F, a, N)
<1> DEFINE B == {n \in Nat : ~\E u \in [0..n -> S] : IsIteration(u, F, a, n)}
<1>1. SUFFICES ASSUME B # {} PROVE FALSE
  OBVIOUS
<1>2. PICK m \in B : \A n \in B : m <= n
  <2>1. B \in SUBSET Nat
    OBVIOUS
  <2> HIDE DEF B
  <2> QED  BY <1>1, <2>1, LeastOf
<1>3. CASE m = 0
  <2>1. [n \in 0..0 |-> a] \in [0..0 -> S] /\ IsIteration([n \in 0..0 |-> a], F, a, 0)
    BY DEF IsIteration
  <2> QED  BY <1>2, <1>3, <2>1
<1>4. CASE m # 0
  <2>1. m \in Nat /\ m - 1 \in Nat /\ m - 1 \notin B
    BY <1>2, <1>4
  <2>2. PICK u \in [0..(m - 1) -> S] : IsIteration(u, F, a, m - 1)
    BY <2>1
  <2> DEFINE v == [n \in 0..m |-> IF n = m THEN F[u[m - 1]] ELSE u[n]]
  <2>3. v \in [0..m -> S]
    BY <2>1, <2>2
  <2>4. IsIteration(v, F, a, m)
    BY <1>4, <2>1, <2>2 DEF IsIteration
  <2> QED  BY <1>2, <2>3, <2>4
<1> QED  BY <1>3, <1>4

----
(* The order of an import.  The way up from a row, as long as its file: the *)
(* next row up is put in front, until there is none.                        *)
Paths(f) == Seq(Rows(f)) \ {<<>>}
Up(f, s) == IF ParentRow(f, Head(s)) = NoClient THEN s ELSE <<ParentRow(f, Head(s))>> \o s
Ups(f) == [s \in Paths(f) |-> Up(f, s)]
Way(f, i) == CHOOSE u : u = [n \in 0..Len(f) |-> IF n = 0 THEN <<i>> ELSE Up(f, u[n - 1])]
IsFile(f) == \E T : f \in Seq(T)

LEMMA ParentRowType ==
  ASSUME NEW f, NEW i
  PROVE  /\ ParentRow(f, i) \in Rows(f) \cup {NoClient}
         /\ IsFile(f) => (ParentRow(f, i) = NoClient <=> \A j \in Rows(f) : f[j].ref # f[i].parent)
         /\ (\E j \in Rows(f) : f[j].ref = f[i].parent) => f[ParentRow(f, i)].ref = f[i].parent
<1>1. IsFile(f) => NoClient \notin Rows(f)
  BY DEF IsFile, NoClient, Rows
<1> QED  BY <1>1 DEF ParentRow

(* What Up does. *)
LEMMA UpStep ==
  ASSUME NEW f, IsFile(f), NEW s \in Paths(f)
  PROVE  /\ Up(f, s) \in Paths(f) /\ Head(s) \in Rows(f) /\ Len(s) \in Nat \ {0}
         /\ Up(f, s)[Len(Up(f, s))] = s[Len(s)]
         /\ Len(Up(f, s)) = IF ParentRow(f, Head(s)) = NoClient THEN Len(s) ELSE Len(s) + 1
<1> DEFINE p == ParentRow(f, Head(s))
<1>1. s \in Seq(Rows(f)) /\ Len(s) \in Nat \ {0} /\ Head(s) \in Rows(f)
  BY DEF Paths
<1>2. CASE p = NoClient
  BY <1>1, <1>2 DEF Up
<1>3. CASE p # NoClient
  <2>1. p \in Rows(f)
    BY <1>3, ParentRowType
  <2> DEFINE q == <<p>>
  <2>2. q \in Seq(Rows(f)) /\ Len(q) = 1
    BY <2>1
  <2>3. Up(f, s) = q \o s
    BY <1>3 DEF Up
  <2> HIDE DEF q, p
  <2>4. /\ q \o s \in Seq(Rows(f)) /\ Len(q \o s) = 1 + Len(s)
        /\ (q \o s)[1 + Len(s)] = s[Len(s)]
    BY <1>1, <2>2, ConcatProperties
  <2> QED  BY <1>1, <1>3, <2>3, <2>4 DEF p, Paths
<1> QED  BY <1>1, <1>2, <1>3

(* The way up is defined. *)
LEMMA WayDefined ==
  ASSUME NEW f, IsFile(f), NEW i \in Rows(f)
  PROVE  /\ Way(f, i) \in [0..Len(f) -> Paths(f)]
         /\ Way(f, i)[0] = <<i>>
         /\ \A n \in 1..Len(f) : Way(f, i)[n] = Up(f, Way(f, i)[n - 1])
         /\ PathTo(f, i) = Way(f, i)[Len(f)]
<1>1. Len(f) \in Nat
  BY DEF IsFile
<1>2. Ups(f) \in [Paths(f) -> Paths(f)] /\ <<i>> \in Paths(f)
  <2>1. Ups(f) \in [Paths(f) -> Paths(f)]
    BY UpStep DEF Ups
  <2> QED  BY <2>1 DEF Paths
<1>3. PICK u \in [0..Len(f) -> Paths(f)] : IsIteration(u, Ups(f), <<i>>, Len(f))
  BY <1>1, <1>2, Iterates
<1>4. \A n \in 1..Len(f) : u[n] = Up(f, u[n - 1])
  <2> SUFFICES ASSUME NEW n \in 1..Len(f) PROVE u[n] = Up(f, u[n - 1])
    OBVIOUS
  <2>1. u[n - 1] \in Paths(f) /\ u[n] = Ups(f)[u[n - 1]]
    BY <1>1, <1>3 DEF IsIteration
  <2> QED  BY <2>1 DEF Ups
<1>5. u = [n \in 0..Len(f) |-> IF n = 0 THEN <<i>> ELSE Up(f, u[n - 1])]
  <2>1. u[0] = <<i>>
    BY <1>3 DEF IsIteration
  <2> QED  BY <1>1, <1>3, <1>4, <2>1
<1> DEFINE w == Way(f, i)
<1>6. w = [n \in 0..Len(f) |-> IF n = 0 THEN <<i>> ELSE Up(f, w[n - 1])]
  BY <1>5 DEF Way
<1>7. PathTo(f, i) = w[Len(f)]
  BY DEF PathTo, Way, Up
<1> HIDE DEF w
<1>8. w[0] = <<i>> /\ \A n \in 1..Len(f) : w[n] = Up(f, w[n - 1])
  BY <1>1, <1>6
<1> DEFINE B == {n \in 0..Len(f) : w[n] \notin Paths(f)}
<1>9. B = {}
  <2> SUFFICES ASSUME B # {} PROVE FALSE
    OBVIOUS
  <2>1. PICK m \in B : \A n \in B : m <= n
    <3>1. B \in SUBSET Nat
      BY <1>1
    <3> HIDE DEF B
    <3> QED  BY <3>1, LeastOf
  <2>2. m # 0
    BY <1>2, <1>8, <2>1
  <2>3. m - 1 \in 0..Len(f) /\ m - 1 \notin B /\ m \in 1..Len(f)
    BY <1>1, <2>1, <2>2
  <2>4. w[m] = Up(f, w[m - 1]) /\ w[m - 1] \in Paths(f)
    BY <1>8, <2>3
  <2> QED  BY <2>1, <2>4, UpStep
<1>10. w \in [0..Len(f) -> Paths(f)]
  BY <1>6, <1>9
<1> QED  BY <1>7, <1>8, <1>10 DEF w

(* The way up from a row ends in it, and is as long as the steps taken      *)
(* unless it has reached the top.                                           *)
LEMMA WayForm ==
  ASSUME NEW f, IsFile(f), NEW i \in Rows(f)
  PROVE  \A n \in 0..Len(f) :
           /\ Way(f, i)[n][Len(Way(f, i)[n])] = i
           /\ Len(Way(f, i)[n]) = n + 1 \/ ParentRow(f, Head(Way(f, i)[n])) = NoClient
<1> DEFINE w == Way(f, i)
           Good(n) == w[n][Len(w[n])] = i /\ (Len(w[n]) = n + 1 \/ ParentRow(f, Head(w[n])) = NoClient)
           B == {n \in 0..Len(f) : ~Good(n)}
<1>1. /\ w \in [0..Len(f) -> Paths(f)] /\ w[0] = <<i>>
      /\ \A n \in 1..Len(f) : w[n] = Up(f, w[n - 1])
  BY WayDefined
<1> HIDE DEF w
<1>2. Len(f) \in Nat
  BY DEF IsFile
<1>3. SUFFICES ASSUME B # {} PROVE FALSE
  BY DEF w
<1>4. PICK m \in B : \A n \in B : m <= n
  <2>1. B \in SUBSET Nat
    BY <1>2
  <2> HIDE DEF B
  <2> QED  BY <1>3, <2>1, LeastOf
<1>5. m # 0
  BY <1>1, <1>4
<1>6. m \in 1..Len(f) /\ m - 1 \in 0..Len(f) /\ Good(m - 1) /\ ~Good(m)
  BY <1>2, <1>4, <1>5
<1> DEFINE s == w[m - 1]
<1>7. s \in Paths(f) /\ w[m] = Up(f, s)
  BY <1>1, <1>6
<1>8. /\ s[Len(s)] = i /\ (Len(s) = m \/ ParentRow(f, Head(s)) = NoClient)
      /\ m \in Nat
  BY <1>2, <1>6
<1> HIDE DEF s
<1>9. CASE ParentRow(f, Head(s)) = NoClient
  <2>1. w[m] = s
    BY <1>7, <1>9 DEF Up
  <2> QED  BY <1>6, <1>8, <1>9, <2>1
<1>10. CASE ParentRow(f, Head(s)) # NoClient
  <2>1. Len(w[m]) = m + 1 /\ w[m][Len(w[m])] = i
    BY <1>7, <1>8, <1>10, UpStep
  <2> QED  BY <1>6, <2>1
<1> QED  BY <1>9, <1>10

(* From a row the way goes over its parent.                                 *)
LEMMA WayOverParent ==
  ASSUME NEW f, IsFile(f), NEW i \in Rows(f), NEW j \in Rows(f), ParentRow(f, i) = j
  PROVE  \A n \in 1..Len(f) : Way(f, i)[n] = Way(f, j)[n - 1] \o <<i>>
<1> DEFINE w == Way(f, i)
           v == Way(f, j)
           B == {n \in 1..Len(f) : w[n] # v[n - 1] \o <<i>>}
<1>1. /\ w \in [0..Len(f) -> Paths(f)] /\ w[0] = <<i>>
      /\ \A n \in 1..Len(f) : w[n] = Up(f, w[n - 1])
      /\ v \in [0..Len(f) -> Paths(f)] /\ v[0] = <<j>>
      /\ \A n \in 1..Len(f) : v[n] = Up(f, v[n - 1])
  BY WayDefined
<1> HIDE DEF w, v
<1>2. Len(f) \in Nat /\ j # NoClient
  BY DEF IsFile, Rows, NoClient
<1>3. SUFFICES ASSUME B # {} PROVE FALSE
  BY DEF w, v
<1>4. PICK m \in B : \A n \in B : m <= n
  <2>1. B \in SUBSET Nat
    BY <1>2
  <2> HIDE DEF B
  <2> QED  BY <1>3, <2>1, LeastOf
<1>5. m \in 1..Len(f) /\ w[m] # v[m - 1] \o <<i>>
  BY <1>4
<1>6. CASE m = 1
  <2>0. m - 1 = 0 /\ 1 \in 1..Len(f)
    BY <1>2, <1>5, <1>6
  <2>1. w[1] = Up(f, <<i>>) /\ v[0] = <<j>>
    BY <1>1, <2>0
  <2>2. Up(f, <<i>>) = <<j>> \o <<i>>
    BY <1>2 DEF Up
  <2>3. w[m] = <<j>> \o <<i>> /\ v[m - 1] = <<j>>
    BY <1>6, <2>0, <2>1, <2>2
  <2> QED  BY <1>5, <2>3
<1>7. CASE m # 1
  <2> DEFINE s == v[m - 2]
  <2>1. /\ m - 1 \in 1..Len(f) /\ m - 2 \in 0..Len(f)
        /\ (m - 1) - 1 = m - 2 /\ m - 1 < m
    BY <1>2, <1>5, <1>7
  <2>a. m - 1 \notin B
    BY <1>2, <1>4, <1>5, <2>1
  <2>2. w[m - 1] = s \o <<i>> /\ v[m - 1] = Up(f, s) /\ s \in Paths(f)
    BY <1>1, <2>1, <2>a
  <2>3. w[m] = Up(f, s \o <<i>>)
    BY <1>1, <1>5, <2>2
  <2> HIDE DEF s
  <2>4. Head(s \o <<i>>) = Head(s)
    BY <2>2 DEF Paths
  <2>5. CASE ParentRow(f, Head(s)) = NoClient
    BY <1>5, <2>2, <2>3, <2>4, <2>5 DEF Up
  <2>6. CASE ParentRow(f, Head(s)) # NoClient
    <3> DEFINE q == ParentRow(f, Head(s))
    <3>1. q \in Rows(f)
      BY <2>6, ParentRowType
    <3> HIDE DEF q
    <3>2. <<q>> \o (s \o <<i>>) = (<<q>> \o s) \o <<i>>
      BY <2>2, <3>1, ConcatAssociative DEF Paths
    <3>3. w[m] = <<q>> \o (s \o <<i>>) /\ v[m - 1] = <<q>> \o s
      BY <2>2, <2>3, <2>4, <2>6 DEF Up, q
    <3> QED  BY <1>5, <3>2, <3>3
  <2> QED  BY <2>5, <2>6
<1> QED  BY <1>6, <1>7

(* Of a file of which every row fits, paths are of rows, each ends in its   *)
(* row, and that of a row's parent is shorter.                              *)
FileFits(f) == IsFile(f) /\ \A i \in Rows(f) : RowFits(f, i)

LEMMA PathForm ==
  ASSUME NEW f, FileFits(f), NEW i \in Rows(f)
  PROVE  /\ PathTo(f, i) \in Paths(f)
         /\ PathTo(f, i)[Len(PathTo(f, i))] = i
<1>1. Len(f) \in Nat /\ Len(f) \in 0..Len(f) /\ IsFile(f)
  BY DEF FileFits, IsFile
<1>2. PathTo(f, i) = Way(f, i)[Len(f)] /\ Way(f, i)[Len(f)] \in Paths(f)
  BY <1>1, WayDefined
<1>3. Way(f, i)[Len(f)][Len(Way(f, i)[Len(f)])] = i
  BY <1>1, WayForm
<1> QED  BY <1>2, <1>3

LEMMA ParentIsShorter ==
  ASSUME NEW f, FileFits(f), NEW i \in Rows(f), NEW j \in Rows(f), ParentRow(f, i) = j
  PROVE  Len(PathTo(f, j)) < Len(PathTo(f, i))
<1> DEFINE N == Len(f)
           w == Way(f, i)
           v == Way(f, j)
<1>1. N \in Nat \ {0} /\ IsFile(f) /\ Len(PathTo(f, j)) <= N
  BY DEF FileFits, IsFile, RowFits, Rows
<1>2. /\ v \in [0..N -> Paths(f)] /\ v[N] = Up(f, v[N - 1])
      /\ PathTo(f, j) = v[N] /\ PathTo(f, i) = w[N]
  BY <1>1, WayDefined
<1>3. w[N] = v[N - 1] \o <<i>>
  <2>1. N \in 1..N
    BY <1>1
  <2> QED  BY <1>1, <2>1, WayOverParent
<1>4. Len(v[N - 1]) = N \/ ParentRow(f, Head(v[N - 1])) = NoClient
  <2>1. N - 1 \in 0..N /\ (N - 1) + 1 = N
    BY <1>1
  <2> QED  BY <1>1, <2>1, WayForm
<1> DEFINE s == v[N - 1]
<1>5. s \in Paths(f)
  BY <1>1, <1>2
<1> HIDE DEF w, v, s, N
<1>6. Len(v[N]) = IF ParentRow(f, Head(s)) = NoClient THEN Len(s) ELSE Len(s) + 1
  BY <1>1, <1>2, <1>5, UpStep DEF s
<1>7. Len(s) \in Nat /\ Len(s \o <<i>>) = Len(s) + 1
  BY <1>5 DEF Paths
<1>8. Len(v[N]) = Len(s)
  BY <1>1, <1>2, <1>4, <1>6, <1>7 DEF s
<1> QED  BY <1>2, <1>3, <1>7, <1>8 DEF s

(* The order of the rows is strict and total.                               *)
LEMMA EarlierIrreflexive ==
  ASSUME NEW f, FileFits(f), NEW i \in Rows(f)
  PROVE  ~Earlier(f, i, i)
<1> DEFINE s == PathTo(f, i)
<1>1. s \in Seq(Rows(f)) /\ Rows(f) \subseteq Nat
  <2>1. Rows(f) \subseteq Nat
    BY DEF FileFits, IsFile, Rows
  <2> QED  BY <2>1, PathForm DEF Paths
<1>2. \A n \in DOMAIN s : s[n] \in Nat
  BY <1>1
<1> QED  BY <1>1, <1>2 DEF Earlier

LEMMA EarlierTransitive ==
  ASSUME NEW f, FileFits(f), NEW i \in Rows(f), NEW j \in Rows(f), NEW k \in Rows(f),
         Earlier(f, i, j), Earlier(f, j, k)
  PROVE  Earlier(f, i, k)
<1> DEFINE s == PathTo(f, i)
           t == PathTo(f, j)
           u == PathTo(f, k)
           Before(p, q) == \E n \in DOMAIN p : p[n] < q[n] /\ \A l \in 1..(n - 1) : p[l] = q[l]
<1>1. s \in Seq(Nat) /\ t \in Seq(Nat) /\ u \in Seq(Nat)
  <2>1. Rows(f) \subseteq Nat
    BY DEF FileFits, IsFile, Rows
  <2>2. s \in Seq(Rows(f)) /\ t \in Seq(Rows(f)) /\ u \in Seq(Rows(f))
    BY PathForm DEF Paths
  <2> QED  BY <2>1, <2>2, SeqMonotonic
<1>2. /\ Len(s) < Len(t) \/ (Len(s) = Len(t) /\ Before(s, t))
      /\ Len(t) < Len(u) \/ (Len(t) = Len(u) /\ Before(t, u))
  BY DEF Earlier
<1>3. SUFFICES Len(s) < Len(u) \/ (Len(s) = Len(u) /\ Before(s, u))
  BY DEF Earlier
<1> HIDE DEF s, t, u
<1>4. CASE Len(s) = Len(t) /\ Len(t) = Len(u)
  <2>1. DOMAIN s = 1..Len(s) /\ DOMAIN t = 1..Len(s) /\ DOMAIN u = 1..Len(s) /\ Len(s) \in Nat
    BY <1>1, <1>4
  <2>2. PICK n \in 1..Len(s) : s[n] < t[n] /\ \A l \in 1..(n - 1) : s[l] = t[l]
    BY <1>1, <1>2, <1>4, <2>1
  <2>3. PICK m \in 1..Len(s) : t[m] < u[m] /\ \A l \in 1..(m - 1) : t[l] = u[l]
    <3>1. Before(t, u)
      BY <1>1, <1>2, <1>4
    <3> QED  BY <2>1, <3>1
  <2>4. \A l \in 1..Len(s) : s[l] \in Nat /\ t[l] \in Nat /\ u[l] \in Nat
    BY <1>1, <2>1
  <2>5. CASE n <= m
    <3>1. s[n] < u[n] /\ \A l \in 1..(n - 1) : s[l] = u[l]
      <4>1. t[n] = u[n] \/ n = m
        BY <2>1, <2>3, <2>5
      <4>2. \A l \in 1..(n - 1) : l \in 1..(m - 1)
        BY <2>1, <2>5
      <4>3. s[n] < t[n] /\ t[n] <= u[n] /\ s[n] \in Nat /\ t[n] \in Nat /\ u[n] \in Nat
        BY <2>2, <2>3, <2>4, <4>1
      <4>4. \A l \in 1..(n - 1) : s[l] = u[l]
        BY <2>2, <2>3, <4>2
      <4> QED  BY <4>3, <4>4
    <3> QED  BY <1>4, <2>1, <3>1
  <2>6. CASE m < n
    <3>1. s[m] < u[m] /\ \A l \in 1..(m - 1) : s[l] = u[l]
      <4>1. s[m] = t[m]
        BY <2>1, <2>2, <2>6
      <4>2. \A l \in 1..(m - 1) : l \in 1..(n - 1)
        BY <2>1, <2>6
      <4>3. \A l \in 1..(m - 1) : s[l] = u[l]
        BY <2>2, <2>3, <4>2
      <4> QED  BY <2>3, <4>1, <4>3
    <3> QED  BY <1>4, <2>1, <3>1
  <2> QED  BY <2>1, <2>5, <2>6
<1>5. CASE ~(Len(s) = Len(t) /\ Len(t) = Len(u))
  BY <1>1, <1>2, <1>5
<1> QED  BY <1>4, <1>5

LEMMA EarlierTotal ==
  ASSUME NEW f, FileFits(f), NEW i \in Rows(f), NEW j \in Rows(f), i # j
  PROVE  Earlier(f, i, j) \/ Earlier(f, j, i)
<1> DEFINE s == PathTo(f, i)
           t == PathTo(f, j)
<1>1. /\ s \in Seq(Nat) /\ t \in Seq(Nat) /\ Len(s) \in Nat \ {0} /\ Len(t) \in Nat \ {0}
      /\ s[Len(s)] = i /\ t[Len(t)] = j
  <2>1. Rows(f) \subseteq Nat
    BY DEF FileFits, IsFile, Rows
  <2>2. s \in Seq(Rows(f)) /\ t \in Seq(Rows(f)) /\ s # <<>> /\ t # <<>> /\ s[Len(s)] = i /\ t[Len(t)] = j
    BY PathForm DEF Paths
  <2> HIDE DEF s, t
  <2>3. s \in Seq(Nat) /\ t \in Seq(Nat)
    BY <2>1, <2>2, SeqMonotonic
  <2> QED  BY <2>2, <2>3, EmptySeq
<1>2. CASE Len(s) # Len(t)
  BY <1>1, <1>2 DEF Earlier
<1>3. CASE Len(s) = Len(t)
  <2> DEFINE B == {n \in 1..Len(s) : s[n] # t[n]}
  <2>1. Len(s) \in B
    BY <1>1, <1>3
  <2>2. PICK m \in B : \A n \in B : m <= n
    <3>1. B \in SUBSET Nat
      BY <1>1
    <3> HIDE DEF B
    <3> QED  BY <2>1, <3>1, LeastOf
  <2>3. /\ m \in 1..Len(s) /\ s[m] # t[m] /\ s[m] \in Nat /\ t[m] \in Nat
        /\ DOMAIN s = 1..Len(s) /\ DOMAIN t = 1..Len(s)
    BY <1>1, <1>3, <2>2
  <2>4. \A l \in 1..(m - 1) : s[l] = t[l]
    <3> SUFFICES ASSUME NEW l \in 1..(m - 1) PROVE s[l] = t[l]
      OBVIOUS
    <3>1. l \in 1..Len(s) /\ ~(m <= l)
      BY <1>1, <2>3
    <3> QED  BY <2>2, <3>1
  <2> HIDE DEF B
  <2>5. s[m] < t[m] \/ t[m] < s[m]
    BY <2>3
  <2> QED  BY <1>3, <2>3, <2>4, <2>5 DEF Earlier
<1> QED  BY <1>2, <1>3

(* The order of an import has every row once, after its parent.             *)
LEMMA ImportOrdered ==
  ASSUME NEW f, FileFits(f)
  PROVE  /\ ImportOrder(f) \in [1..Len(f) -> 1..Len(f)] /\ Rows(f) = 1..Len(f) /\ Len(f) \in Nat
         /\ \A n, m \in 1..Len(f) : ImportOrder(f)[n] = ImportOrder(f)[m] => n = m
         /\ \A i \in 1..Len(f) : \E n \in 1..Len(f) : ImportOrder(f)[n] = i
         /\ \A n, m \in 1..Len(f) : ParentRow(f, ImportOrder(f)[n]) = ImportOrder(f)[m] => m < n
<1> DEFINE N == Len(f)
           order == ImportOrder(f)
<1>1. Rows(f) = 1..N /\ N \in Nat
  BY DEF FileFits, IsFile, Rows
<1>2. \E o \in [1..N -> 1..N] : \A n, m \in 1..N : n < m => Earlier(f, o[n], o[m])
  <2> DEFINE R == {e \in (1..N) \X (1..N) : Earlier(f, e[1], e[2])}
  <2>1. \A i, j \in 1..N : <<i, j>> \in R <=> Earlier(f, i, j)
    OBVIOUS
  <2>2. /\ \A i \in 1..N : <<i, i>> \notin R
        /\ \A i, j, k \in 1..N : <<i, j>> \in R /\ <<j, k>> \in R => <<i, k>> \in R
        /\ \A i, j \in 1..N : i = j \/ <<i, j>> \in R \/ <<j, i>> \in R
    <3> HIDE DEF R, N
    <3> QED  BY <1>1, <2>1, EarlierIrreflexive, EarlierTransitive, EarlierTotal
  <2>3. PICK o \in [1..N -> 1..N] : \A n, m \in 1..N : n < m => <<o[n], o[m]>> \in R
    <3> HIDE DEF R, N
    <3> QED  BY <1>1, <2>2, Sortable
  <2>4. \A n, m \in 1..N : n < m => Earlier(f, o[n], o[m])
    <3> HIDE DEF R, N
    <3> QED  BY <2>1, <2>3
  <2> QED  BY <2>4
<1>3. order \in [1..N -> 1..N] /\ \A n, m \in 1..N : n < m => Earlier(f, order[n], order[m])
  BY <1>1, <1>2 DEF ImportOrder
<1> HIDE DEF order, N
<1>4. \A n, m \in 1..N : order[n] = order[m] => n = m
  <2> SUFFICES ASSUME NEW n \in 1..N, NEW m \in 1..N, order[n] = order[m], n # m PROVE FALSE
    OBVIOUS
  <2>1. Earlier(f, order[n], order[n])
    <3>1. n < m \/ m < n
      BY <1>1
    <3> QED  BY <1>3, <3>1
  <2> QED  BY <1>1, <1>3, <2>1, EarlierIrreflexive
<1>5. \A i \in 1..N : \E n \in 1..N : order[n] = i
  BY <1>1, <1>3, <1>4, Enumerated
<1>6. \A n, m \in 1..N : ParentRow(f, order[n]) = order[m] => m < n
  <2> SUFFICES ASSUME NEW n \in 1..N, NEW m \in 1..N, ParentRow(f, order[n]) = order[m] PROVE m < n
    OBVIOUS
  <2> DEFINE i == order[n]
             j == order[m]
  <2>1. i \in Rows(f) /\ j \in Rows(f)
    BY <1>1, <1>3
  <2>2. Len(PathTo(f, j)) < Len(PathTo(f, i))
    <3> HIDE DEF i, j
    <3>1. ParentRow(f, i) = j
      BY DEF i, j
    <3> QED  BY <2>1, <3>1, ParentIsShorter
  <2>3. Len(PathTo(f, i)) \in Nat /\ Len(PathTo(f, j)) \in Nat
    BY <2>1, PathForm DEF Paths
  <2>4. ~Earlier(f, i, j) /\ i # j
    BY <2>2, <2>3 DEF Earlier
  <2>5. ~(n < m) /\ n # m
    BY <1>3, <2>4
  <2> QED  BY <1>1, <2>5
<1> QED  BY <1>1, <1>3, <1>4, <1>5, <1>6 DEF order, N

----
(* The tables, and what refers to what.                                     *)
ClientRows == [code : STRING, name : Names, kind : ClientKinds, parent : Nat, active : BOOLEAN]
ContactRows == [client : Nat, email : Emails \cup {NoEmail}, role : Roles,
                primary : BOOLEAN, active : BOOLEAN]
RouteRows == [client : Nat, purpose : Purposes, contact : Nat, primary : BOOLEAN]
RunRows == [file : Files, mapped : Seq([client : Nat, contact : Nat]),
            status : {"VALIDATED", "APPLIED", "REJECTED"}]
EngagementRows == [client : Nat,
                   phase : {"LEAD_INGESTION", "PROPOSAL_GENERATION", "ARCHIVED_READ_ONLY"}]
ProfileRows == [persona : Personas, of : Nat, active : BOOLEAN]

DirectoryRows ==
  /\ clients \in Seq(ClientRows) /\ contacts \in Seq(ContactRows) /\ routes \subseteq RouteRows
  /\ \A c \in 1..Len(clients) : clients[c].parent \in 0..Len(clients)
  /\ \A k \in 1..Len(contacts) : contacts[k].client \in 1..Len(clients)
  /\ \A r \in routes : r.contact \in 1..Len(contacts) /\ contacts[r.contact].client = r.client

(* The hierarchy is grounded: of any clients one is under none of them.     *)
Grounded ==
  \A S \in SUBSET (1..Len(clients)) : S # {} => \E c \in S : clients[c].parent \notin S

KindsAndParents ==
  \A c \in 1..Len(clients) :
    /\ (clients[c].kind = "SUBSIDIARY") <=> (clients[c].parent # NoClient)
    /\ clients[c].active /\ clients[c].parent # NoClient => clients[clients[c].parent].active

(* The walk that Above is made of.                                          *)
Walk(c) ==
  CHOOSE u : u = [n \in 0..Len(clients) |->
    IF n = 0 THEN c ELSE IF u[n - 1] = NoClient THEN NoClient ELSE clients[u[n - 1]].parent]
Parents == [d \in 0..Len(clients) |-> IF d = NoClient THEN NoClient ELSE clients[d].parent]

LEMMA WalkDefined ==
  ASSUME DirectoryRows, NEW c \in 0..Len(clients)
  PROVE  /\ Walk(c) \in [0..Len(clients) -> 0..Len(clients)]
         /\ Walk(c)[0] = c
         /\ \A n \in 1..Len(clients) : Walk(c)[n] = Parents[Walk(c)[n - 1]]
         /\ Above(c) = {Walk(c)[n] : n \in 0..Len(clients)} \ {NoClient}
<1> DEFINE N == Len(clients)
           w == Walk(c)
<1>1. N \in Nat
  BY DEF DirectoryRows
<1>2. Parents \in [0..N -> 0..N]
  <2>1. \A d \in 0..N : d # NoClient => d \in 1..N
    BY <1>1 DEF NoClient
  <2> QED  BY <1>1, <2>1 DEF Parents, DirectoryRows, NoClient
<1>3. PICK u \in [0..N -> 0..N] : IsIteration(u, Parents, c, N)
  BY <1>1, <1>2, Iterates
<1>4. /\ u[0] = c
      /\ \A n \in 1..N : u[n] = IF u[n - 1] = NoClient THEN NoClient ELSE clients[u[n - 1]].parent
  <2>1. u[0] = c
    BY <1>3 DEF IsIteration
  <2>2. ASSUME NEW n \in 1..N
        PROVE  u[n] = IF u[n - 1] = NoClient THEN NoClient ELSE clients[u[n - 1]].parent
    <3>1. n - 1 \in 0..N
      BY <1>1
    <3>2. u[n - 1] \in 0..N /\ u[n] = Parents[u[n - 1]]
      BY <1>3, <3>1 DEF IsIteration
    <3> QED  BY <3>2 DEF Parents
  <2> QED  BY <2>1, <2>2
<1>5. u = [n \in 0..N |->
         IF n = 0 THEN c ELSE IF u[n - 1] = NoClient THEN NoClient ELSE clients[u[n - 1]].parent]
  BY <1>1, <1>3, <1>4
<1>6. w = [n \in 0..N |->
         IF n = 0 THEN c ELSE IF w[n - 1] = NoClient THEN NoClient ELSE clients[w[n - 1]].parent]
  BY <1>5 DEF Walk
<1>7. Above(c) = {w[n] : n \in 0..N} \ {NoClient}
  BY DEF Above, Walk
<1> HIDE DEF w
<1>8. /\ w[0] = c
      /\ \A n \in 1..N : w[n] = IF w[n - 1] = NoClient THEN NoClient ELSE clients[w[n - 1]].parent
  BY <1>1, <1>6
<1> DEFINE B == {n \in 0..N : w[n] \notin 0..N}
<1>9. B = {}
  <2> SUFFICES ASSUME B # {} PROVE FALSE
    OBVIOUS
  <2>1. PICK m \in B : \A n \in B : m <= n
    <3>1. B \in SUBSET Nat
      BY <1>1
    <3> HIDE DEF B
    <3> QED  BY <3>1, LeastOf
  <2>2. m # 0
    BY <1>8, <2>1
  <2>3. m - 1 \in 0..N /\ m - 1 \notin B /\ m \in 1..N
    BY <1>1, <2>1, <2>2
  <2>4. w[m - 1] \in 0..N
    BY <2>3
  <2>5. w[m - 1] # NoClient => w[m - 1] \in 1..N
    BY <1>1, <2>4 DEF NoClient
  <2>6. w[m] \in 0..N
    BY <1>1, <1>8, <2>3, <2>5 DEF DirectoryRows, NoClient
  <2> QED  BY <2>1, <2>6
<1>10. w \in [0..N -> 0..N]
  BY <1>6, <1>9
<1>11. \A n \in 1..N : w[n] = Parents[w[n - 1]]
  <2> SUFFICES ASSUME NEW n \in 1..N PROVE w[n] = Parents[w[n - 1]]
    OBVIOUS
  <2>1. n - 1 \in 0..N
    BY <1>1
  <2>2. w[n - 1] \in 0..N
    BY <1>10, <2>1
  <2> QED  BY <1>8, <2>2 DEF Parents
<1> QED  BY <1>7, <1>8, <1>10, <1>11 DEF w

(* Of clients that are grounded the walk comes to an end: who is above a    *)
(* client is, with itself, the client's and nobody above itself.            *)
LEMMA WalkEnds ==
  ASSUME DirectoryRows, Grounded, NEW c \in 1..Len(clients)
  PROVE  Walk(c)[Len(clients)] = NoClient
<1> DEFINE N == Len(clients)
           w == Walk(c)
<1>1. /\ N \in Nat /\ c \in 0..N
      /\ w \in [0..N -> 0..N] /\ w[0] = c /\ \A n \in 1..N : w[n] = Parents[w[n - 1]]
  <2>1. N \in Nat
    BY DEF DirectoryRows
  <2>2. c \in 0..N
    BY <2>1
  <2> QED  BY <2>1, <2>2, WalkDefined
<1> HIDE DEF w
<1>2. SUFFICES ASSUME w[N] # NoClient PROVE FALSE
  BY DEF w
<1>3. \A n \in 0..N : w[n] # NoClient
  <2> DEFINE B == {d \in 0..N : w[N - d] = NoClient}
  <2>1. SUFFICES ASSUME B # {} PROVE FALSE
    <3> SUFFICES ASSUME NEW n \in 0..N, w[n] = NoClient PROVE FALSE
      OBVIOUS
    <3>1. N - n \in 0..N /\ N - (N - n) = n
      BY <1>1
    <3>2. N - n \in B
      BY <3>1
    <3> QED  BY <2>1, <3>2
  <2>2. PICK m \in B : \A n \in B : m <= n
    <3>1. B \in SUBSET Nat
      BY <1>1
    <3> HIDE DEF B
    <3> QED  BY <2>1, <3>1, LeastOf
  <2>3. m \in 0..N /\ w[N - m] = NoClient
    BY <2>2
  <2>4. m # 0
    BY <1>1, <1>2, <2>3
  <2>5. /\ m - 1 \in 0..N /\ N - (m - 1) \in 1..N /\ (N - (m - 1)) - 1 = N - m
        /\ m - 1 < m /\ N - m \in 0..N
    BY <1>1, <2>3, <2>4
  <2>6. w[N - (m - 1)] = NoClient
    BY <1>1, <2>3, <2>5 DEF Parents
  <2>7. m - 1 \in B
    BY <2>5, <2>6
  <2> QED  BY <2>2, <2>3, <2>5, <2>7
<1>4. PICK i \in 0..N, j \in 0..N : i # j /\ w[i] = w[j]
  <2>1. IsFiniteSet(0..N) /\ Cardinality(0..N) = N + 1 /\ IsFiniteSet(1..N) /\ Cardinality(1..N) = N
    <3>1. IsFiniteSet(0..N) /\ Cardinality(0..N) = IF 0 > N THEN 0 ELSE N - 0 + 1
      BY <1>1, FS_Interval
    <3>2. IsFiniteSet(1..N) /\ Cardinality(1..N) = IF 1 > N THEN 0 ELSE N - 1 + 1
      BY <1>1, FS_Interval
    <3> QED  BY <1>1, <3>1, <3>2
  <2>2. w \in [0..N -> 1..N]
    <3>1. \A n \in 0..N : w[n] \in 1..N
      BY <1>1, <1>3 DEF NoClient
    <3> QED  BY <1>1, <3>1
  <2>3. Cardinality(1..N) < Cardinality(0..N)
    BY <1>1, <2>1
  <2> QED  BY <2>1, <2>2, <2>3, FS_PigeonHole
<1>5. ASSUME NEW n \in 0..N, NEW m \in 0..N, n < m, w[n] = w[m] PROVE FALSE
  <2> DEFINE S == {w[l] : l \in n..(m - 1)}
  <2>1. \A l \in n..(m - 1) : l \in 0..N /\ l + 1 \in 1..N /\ (l + 1) - 1 = l
    BY <1>1, <1>5
  <2>2. \A l \in n..(m - 1) : w[l] \in 1..N
    <3>1. \A l \in 0..N : w[l] \in 1..N
      BY <1>1, <1>3 DEF NoClient
    <3> HIDE DEF N
    <3> QED  BY <2>1, <3>1
  <2>3. S \in SUBSET (1..N) /\ S # {}
    <3>1. n \in n..(m - 1)
      BY <1>1, <1>5
    <3> QED  BY <2>2, <3>1
  <2>4. \A l \in n..(m - 1) : clients[w[l]].parent = w[l + 1]
    BY <1>1, <1>3, <2>1 DEF Parents
  <2>5. \A l \in n..(m - 1) : w[l + 1] \in S
    <3> SUFFICES ASSUME NEW l \in n..(m - 1) PROVE w[l + 1] \in S
      OBVIOUS
    <3>1. CASE l + 1 = m
      <4>1. n \in n..(m - 1)
        BY <1>1, <1>5
      <4> QED  BY <1>5, <3>1, <4>1
    <3>2. CASE l + 1 # m
      <4>1. l + 1 \in n..(m - 1)
        BY <1>1, <1>5, <3>2
      <4> QED  BY <4>1
    <3> QED  BY <3>1, <3>2
  <2>6. \A d \in S : clients[d].parent \in S
    BY <2>4, <2>5
  <2> HIDE DEF S
  <2> QED  BY <2>3, <2>6 DEF Grounded
<1>6. i < j \/ j < i
  BY <1>1, <1>4
<1> QED  BY <1>4, <1>5, <1>6

LEMMA AboveGrounded ==
  ASSUME DirectoryRows, Grounded, NEW c \in 1..Len(clients)
  PROVE  /\ c \in Above(c) /\ Above(c) \subseteq 1..Len(clients)
         /\ \A d \in Above(c) : clients[d].parent \in Above(c) \cup {NoClient}
         /\ clients[c].parent # NoClient => c \notin Above(clients[c].parent)
<1> DEFINE N == Len(clients)
<1>1. N \in Nat /\ c \in 0..N
  <2>1. N \in Nat
    BY DEF DirectoryRows
  <2> QED  BY <2>1
<1>2. ASSUME NEW b \in 1..N
      PROVE  /\ b \in Above(b) /\ Above(b) \subseteq 1..N
             /\ \A d \in Above(b) : clients[d].parent \in Above(b) \cup {NoClient}
  <2> DEFINE w == Walk(b)
  <2>1. /\ w \in [0..N -> 0..N] /\ w[0] = b /\ \A n \in 1..N : w[n] = Parents[w[n - 1]]
        /\ Above(b) = {w[n] : n \in 0..N} \ {NoClient}
    <3>1. b \in 0..N
      BY <1>1
    <3> QED  BY <3>1, WalkDefined
  <2>2. w[N] = NoClient
    BY WalkEnds
  <2> HIDE DEF w
  <2>3. b \in Above(b) /\ Above(b) \subseteq 1..N
    <3>1. \A d \in Above(b) : d \in 0..N /\ d # 0
      BY <2>1 DEF NoClient
    <3>2. b # 0 /\ 0 \in 0..N
      BY <1>1
    <3> QED  BY <1>1, <2>1, <3>1, <3>2 DEF NoClient
  <2>4. ASSUME NEW d \in Above(b) PROVE clients[d].parent \in Above(b) \cup {NoClient}
    <3>1. PICK n \in 0..N : d = w[n] /\ d # NoClient
      BY <2>1
    <3>2. n # N
      BY <2>2, <3>1
    <3>3. n + 1 \in 1..N /\ (n + 1) - 1 = n /\ n + 1 \in 0..N
      BY <1>1, <3>2
    <3>4. w[n + 1] = clients[d].parent
      BY <2>1, <3>1, <3>3 DEF Parents
    <3> QED  BY <2>1, <3>3, <3>4
  <2> QED  BY <2>3, <2>4
<1>3. ASSUME clients[c].parent # NoClient, c \in Above(clients[c].parent) PROVE FALSE
  <2> DEFINE p == clients[c].parent
             w == Walk(p)
  <2>1. p \in 1..N
    BY <1>1, <1>3 DEF DirectoryRows, NoClient
  <2>2. /\ w \in [0..N -> 0..N] /\ w[0] = p /\ \A n \in 1..N : w[n] = Parents[w[n - 1]]
        /\ Above(p) = {w[n] : n \in 0..N} \ {NoClient}
    <3>1. p \in 0..N
      BY <1>1, <2>1
    <3> HIDE DEF p
    <3> QED  BY <3>1, WalkDefined
  <2> HIDE DEF w
  <2>3. PICK m \in 0..N : c = w[m]
    BY <1>3, <2>2
  <2> DEFINE B == {n \in 0..N : c = w[n]}
  <2>4. PICK l \in B : \A n \in B : l <= n
    <3>1. B \in SUBSET Nat /\ B # {}
      BY <1>1, <2>3
    <3> HIDE DEF B
    <3> QED  BY <3>1, LeastOf
  <2>5. l \in 0..N /\ c = w[l]
    BY <2>4
  <2> DEFINE S == {w[n] : n \in 0..l}
  <2>6. \A n \in 0..l : n \in 0..N
    BY <1>1, <2>5
  <2>7. \A n \in 0..l : w[n] \in 1..N
    <3> DEFINE Z == {n \in 0..l : w[l - n] = NoClient}
    <3>1. Z = {}
      <4> SUFFICES ASSUME Z # {} PROVE FALSE
        OBVIOUS
      <4>1. PICK z \in Z : \A n \in Z : z <= n
        <5>1. Z \in SUBSET Nat
          BY <1>1
        <5> HIDE DEF Z
        <5> QED  BY <5>1, LeastOf
      <4>2. z \in 0..l /\ w[l - z] = NoClient
        BY <4>1
      <4>3. z # 0
        BY <1>1, <2>5, <4>2 DEF NoClient
      <4>4. /\ z - 1 \in 0..l /\ l - (z - 1) \in 1..N /\ (l - (z - 1)) - 1 = l - z
            /\ z - 1 < z /\ l - z \in 0..N
        BY <1>1, <2>5, <4>2, <4>3
      <4>5. w[l - (z - 1)] = NoClient
        BY <1>1, <2>2, <4>2, <4>4 DEF Parents
      <4>6. z - 1 \in Z
        BY <4>4, <4>5
      <4> QED  BY <4>1, <4>2, <4>4, <4>6
    <3>2. ASSUME NEW n \in 0..l PROVE w[n] # NoClient
      <4>1. l - n \in 0..l /\ l - (l - n) = n
        BY <1>1, <2>5
      <4> QED  BY <3>1, <4>1
    <3>3. ASSUME NEW n \in 0..l PROVE w[n] \in 1..N
      <4>1. w[n] \in 0..N /\ w[n] # 0
        BY <2>2, <2>6, <3>2 DEF NoClient
      <4> QED  BY <1>1, <4>1
    <3> QED  BY <3>3
  <2>8. S \in SUBSET (1..N) /\ S # {}
    <3>1. 0 \in 0..l
      BY <1>1, <2>5
    <3> QED  BY <2>7, <3>1
  <2>9. ASSUME NEW d \in S PROVE clients[d].parent \in S
    <3>1. PICK n \in 0..l : d = w[n]
      BY <2>9
    <3>2. CASE n = l
      <4>1. clients[d].parent = w[0] /\ 0 \in 0..l
        BY <1>1, <2>2, <2>5, <3>1, <3>2
      <4> QED  BY <4>1
    <3>3. CASE n # l
      <4>1. n + 1 \in 0..l /\ n + 1 \in 1..N /\ (n + 1) - 1 = n /\ n \in 0..N
        BY <1>1, <2>5, <3>3
      <4>2. w[n] \in 1..N /\ w[n + 1] = Parents[w[n]]
        BY <2>2, <2>7, <4>1
      <4>3. clients[d].parent = w[n + 1]
        BY <1>1, <2>2, <3>1, <4>1, <4>2 DEF Parents, NoClient
      <4> QED  BY <4>1, <4>3
    <3> QED  BY <3>2, <3>3
  <2> HIDE DEF S
  <2> QED  BY <2>8, <2>9 DEF Grounded
<1> QED  BY <1>2, <1>3

----
(* Clients and contacts that are added.                                     *)
FirstsInv ==
  /\ \A k \in 1..Len(contacts) : contacts[k].primary => contacts[k].active
  /\ FirstsAreUnique

(* New clients are active, each under none, under an active one, or under   *)
(* an earlier new one.                                                      *)
NewClients(cs) ==
  /\ cs \in Seq(ClientRows)
  /\ \A n \in 1..Len(cs) :
       /\ cs[n].parent \in 0..(Len(clients) + n - 1) /\ cs[n].active
       /\ (cs[n].kind = "SUBSIDIARY") <=> (cs[n].parent # NoClient)
       /\ cs[n].parent \in 1..Len(clients) => clients[cs[n].parent].active

LEMMA ClientsAdded ==
  ASSUME DirectoryRows, Grounded, KindsAndParents, NEW cs, NewClients(cs), clients' = clients \o cs
  PROVE  /\ clients' \in Seq(ClientRows) /\ Len(clients') = Len(clients) + Len(cs)
         /\ Len(cs) \in Nat /\ Len(clients) \in Nat
         /\ \A c \in 1..Len(clients) : clients'[c] = clients[c]
         /\ \A n \in 1..Len(cs) : clients'[Len(clients) + n] = cs[n]
         /\ \A c \in 1..Len(clients') : clients'[c].parent \in 0..Len(clients')
         /\ Grounded' /\ KindsAndParents'
<1> DEFINE N == Len(clients)
           M == Len(cs)
<1>1. clients \in Seq(ClientRows) /\ cs \in Seq(ClientRows) /\ N \in Nat /\ M \in Nat
  BY DEF DirectoryRows, NewClients
<1>2. /\ clients' \in Seq(ClientRows) /\ Len(clients') = N + M
      /\ \A i \in 1..(N + M) : clients'[i] = IF i <= N THEN clients[i] ELSE cs[i - N]
  BY <1>1, ConcatProperties
<1>3. /\ \A c \in 1..N : c \in 1..(N + M) /\ clients'[c] = clients[c]
      /\ \A n \in 1..M : N + n \in 1..(N + M) /\ ~(N + n <= N) /\ (N + n) - N = n
      /\ \A i \in 1..(N + M) : i <= N \/ (i - N \in 1..M /\ i = N + (i - N))
  BY <1>1, <1>2
<1>4. \A n \in 1..M : clients'[N + n] = cs[n]
  BY <1>2, <1>3
<1>5. \A c \in 1..N : clients[c].parent \in 0..N
  BY DEF DirectoryRows
<1>6. \A n \in 1..M :
        /\ cs[n].parent \in 0..(N + n - 1) /\ cs[n].active
        /\ (cs[n].kind = "SUBSIDIARY") <=> (cs[n].parent # NoClient)
        /\ cs[n].parent \in 1..N => clients[cs[n].parent].active
  BY DEF NewClients
<1> HIDE DEF N, M
<1>7. \A c \in 1..(N + M) : clients'[c].parent \in 0..(N + M)
  <2> SUFFICES ASSUME NEW c \in 1..(N + M) PROVE clients'[c].parent \in 0..(N + M)
    OBVIOUS
  <2>1. CASE c <= N
    <3>1. c \in 1..N
      BY <1>1, <2>1
    <3>2. clients'[c].parent \in 0..N
      BY <1>3, <1>5, <3>1
    <3>3. \A p \in 0..N : p \in 0..(N + M)
      BY <1>1
    <3> QED  BY <3>2, <3>3
  <2>2. CASE ~(c <= N)
    <3>1. c - N \in 1..M /\ clients'[c] = cs[c - N]
      BY <1>3, <1>4, <2>2
    <3>2. clients'[c].parent \in 0..(N + (c - N) - 1)
      BY <1>6, <3>1
    <3>3. N + (c - N) - 1 = c - 1
      BY <1>1
    <3>4. \A p \in 0..(c - 1) : p \in 0..(N + M)
      BY <1>1
    <3> QED  BY <3>2, <3>3, <3>4
  <2> QED  BY <2>1, <2>2
<1>8. Grounded'
  <2> SUFFICES ASSUME NEW S \in SUBSET (1..(N + M)), S # {}, \A c \in S : clients'[c].parent \in S
               PROVE  FALSE
    BY <1>2 DEF Grounded, N
  <2> DEFINE old == S \cap (1..N)
  <2>1. old # {}
    <3>1. PICK m \in S : \A c \in S : m <= c
      <4>1. S \in SUBSET Nat
        BY <1>1
      <4> QED  BY <4>1, LeastOf
    <3>2. m \in 1..(N + M) /\ clients'[m].parent \in S /\ m <= clients'[m].parent
      BY <3>1
    <3>3. m <= N
      <4> SUFFICES ASSUME ~(m <= N) PROVE FALSE
        OBVIOUS
      <4>1. m - N \in 1..M /\ clients'[m] = cs[m - N] /\ N + (m - N) = m
        BY <1>3, <1>4, <3>2
      <4>2. cs[m - N].parent \in 0..(N + (m - N) - 1)
        BY <1>6, <4>1
      <4> QED  BY <1>1, <3>2, <4>1, <4>2
    <3> QED  BY <1>1, <3>1, <3>2, <3>3
  <2>2. ASSUME NEW c \in old PROVE clients[c].parent \in old
    <3>1. clients'[c].parent \in S /\ clients'[c] = clients[c] /\ clients[c].parent \in 0..N
      BY <1>3, <1>5
    <3>2. clients[c].parent \in 1..(N + M)
      BY <3>1
    <3> QED  BY <1>1, <3>1, <3>2
  <2>3. old \in SUBSET (1..N)
    OBVIOUS
  <2> HIDE DEF old
  <2> QED  BY <2>1, <2>2, <2>3 DEF Grounded, N
<1>9. KindsAndParents'
  <2> SUFFICES ASSUME NEW c \in 1..(N + M)
               PROVE  /\ (clients'[c].kind = "SUBSIDIARY") <=> (clients'[c].parent # NoClient)
                      /\ clients'[c].active /\ clients'[c].parent # NoClient =>
                           clients'[clients'[c].parent].active
    BY <1>2 DEF KindsAndParents, N
  <2>1. CASE c <= N
    <3>0. c \in 1..N
      BY <1>1, <2>1
    <3>1. c \in 1..N /\ clients'[c] = clients[c] /\ clients[c].parent \in 0..N
      BY <1>3, <1>5, <3>0
    <3>2. clients[c].parent # NoClient => clients[c].parent \in 1..N
      BY <1>1, <3>1 DEF NoClient
    <3> QED  BY <1>3, <3>1, <3>2 DEF KindsAndParents, N
  <2>2. CASE ~(c <= N)
    <3>1. c - N \in 1..M /\ clients'[c] = cs[c - N] /\ N + (c - N) = c
      BY <1>3, <1>4, <2>2
    <3> DEFINE p == cs[c - N].parent
    <3>a. p \in 0..(N + (c - N) - 1) /\ (p \in 1..N => clients[p].active)
      BY <1>6, <3>1
    <3>b. N + (c - N) - 1 = c - 1
      BY <1>1
    <3>2. p \in 0..(c - 1) /\ (p \in 1..N => clients[p].active)
      BY <3>a, <3>b
    <3>3. (clients'[c].kind = "SUBSIDIARY") <=> (p # NoClient)
      BY <1>6, <3>1
    <3>4. clients'[c].parent = p
      BY <3>1
    <3> HIDE DEF p
    <3>5. ASSUME p # NoClient PROVE clients'[p].active
      <4>1. p \in 1..(N + M)
        BY <1>1, <3>2, <3>5 DEF NoClient
      <4>2. CASE p <= N
        <5>1. p \in 1..N
          BY <1>1, <4>1, <4>2
        <5> QED  BY <1>3, <3>2, <5>1
      <4>3. CASE ~(p <= N)
        <5>1. p - N \in 1..M /\ clients'[p] = cs[p - N]
          BY <1>3, <1>4, <4>1, <4>3
        <5> QED  BY <1>6, <5>1
      <4> QED  BY <4>2, <4>3
    <3> QED  BY <3>3, <3>4, <3>5
  <2> QED  BY <2>1, <2>2
<1> QED  BY <1>1, <1>2, <1>3, <1>4, <1>7, <1>8, <1>9 DEF N, M

(* New contacts are active; those that are the first of their client are so *)
(* alone.  They bring primary routes, of a purpose that had no recipient.   *)
NewContacts(ks, rs) ==
  /\ ks \in Seq(ContactRows) /\ rs \subseteq RouteRows
  /\ \A n \in 1..Len(ks) :
       /\ ks[n].active /\ ks[n].client \in 1..Len(clients')
       /\ ks[n].primary =>
            /\ \A k \in 1..Len(contacts) : contacts[k].primary => contacts[k].client # ks[n].client
            /\ \A m \in 1..Len(ks) : ks[m].primary /\ ks[m].client = ks[n].client => m = n
  /\ \A r \in rs :
       /\ r.primary
       /\ \E n \in 1..Len(ks) :
            /\ r.contact = Len(contacts) + n /\ r.client = ks[n].client
            /\ ks[n].role = RoleOf(r.purpose) \/ AsFiled(r)'
       /\ \A s \in routes : s.primary /\ s.client = r.client => s.purpose # r.purpose
       /\ \A s \in rs : s.client = r.client /\ s.purpose = r.purpose => s = r

LEMMA ContactsAdded ==
  ASSUME DirectoryRows, FirstsInv, NEW ks, NEW rs, NewContacts(ks, rs),
         contacts' = contacts \o ks, routes' = routes \cup rs,
         Len(clients') \in Nat, Len(clients) <= Len(clients'),
         \A r \in routes : AsFiled(r) => AsFiled(r)'
  PROVE  /\ contacts' \in Seq(ContactRows) /\ Len(contacts') = Len(contacts) + Len(ks)
         /\ Len(ks) \in Nat /\ Len(contacts) \in Nat
         /\ \A k \in 1..Len(contacts) : contacts'[k] = contacts[k]
         /\ \A n \in 1..Len(ks) : contacts'[Len(contacts) + n] = ks[n]
         /\ \A k \in 1..Len(contacts') : contacts'[k].client \in 1..Len(clients')
         /\ routes' \subseteq RouteRows
         /\ \A r \in routes' : r.contact \in 1..Len(contacts') /\ contacts'[r.contact].client = r.client
         /\ FirstsInv'
<1> DEFINE N == Len(contacts)
           M == Len(ks)
<1>1. contacts \in Seq(ContactRows) /\ ks \in Seq(ContactRows) /\ N \in Nat /\ M \in Nat
  BY DEF DirectoryRows, NewContacts
<1>2. /\ contacts' \in Seq(ContactRows) /\ Len(contacts') = N + M
      /\ \A i \in 1..(N + M) : contacts'[i] = IF i <= N THEN contacts[i] ELSE ks[i - N]
  BY <1>1, ConcatProperties
<1>3. /\ \A k \in 1..N : k \in 1..(N + M) /\ contacts'[k] = contacts[k]
      /\ \A n \in 1..M : N + n \in 1..(N + M) /\ ~(N + n <= N) /\ (N + n) - N = n
      /\ \A i \in 1..(N + M) : (i <= N /\ i \in 1..N) \/ (i - N \in 1..M /\ i = N + (i - N))
  BY <1>1, <1>2
<1>4. \A n \in 1..M : contacts'[N + n] = ks[n]
  BY <1>2, <1>3
<1> HIDE DEF N, M
<1>a. \A i \in 1..(N + M) :
        \/ i \in 1..N /\ contacts'[i] = contacts[i]
        \/ i - N \in 1..M /\ i = N + (i - N) /\ contacts'[i] = ks[i - N]
  BY <1>3, <1>4
<1>5. \A k \in 1..(N + M) : contacts'[k].client \in 1..Len(clients')
  <2>1. \A k \in 1..N : contacts[k].client \in 1..Len(clients')
    <3>1. Len(clients) \in Nat /\ \A k \in 1..N : contacts[k].client \in 1..Len(clients)
      BY DEF DirectoryRows, N
    <3> QED  BY <3>1
  <2>2. \A n \in 1..M : ks[n].client \in 1..Len(clients')
    BY DEF NewContacts, M
  <2> QED  BY <1>a, <2>1, <2>2
<1>6. routes' \subseteq RouteRows
  BY DEF DirectoryRows, NewContacts
<1>7. \A r \in rs : /\ r.primary
                    /\ \E n \in 1..M : /\ r.contact = N + n /\ r.client = ks[n].client
                                       /\ ks[n].role = RoleOf(r.purpose) \/ AsFiled(r)'
  BY DEF NewContacts, N, M
<1>8. \A r \in routes : r.contact \in 1..N /\ contacts[r.contact].client = r.client
  BY DEF DirectoryRows, N
<1>9. \A r \in routes' : r.contact \in 1..(N + M) /\ contacts'[r.contact].client = r.client
  <2>1. \A r \in routes : r.contact \in 1..(N + M) /\ contacts'[r.contact].client = r.client
    BY <1>3, <1>8
  <2>2. \A r \in rs : r.contact \in 1..(N + M) /\ contacts'[r.contact].client = r.client
    <3> SUFFICES ASSUME NEW r \in rs
                 PROVE  r.contact \in 1..(N + M) /\ contacts'[r.contact].client = r.client
      OBVIOUS
    <3>1. PICK n \in 1..M : r.contact = N + n /\ r.client = ks[n].client
      BY <1>7
    <3>2. N + n \in 1..(N + M) /\ contacts'[N + n] = ks[n]
      BY <1>3, <1>4
    <3> QED  BY <3>1, <3>2
  <2> QED  BY <2>1, <2>2
<1>10. \A k \in 1..(N + M) : contacts'[k].primary => contacts'[k].active
  <2>1. \A k \in 1..N : contacts[k].primary => contacts[k].active
    BY DEF FirstsInv, N
  <2>2. \A n \in 1..M : ks[n].active
    BY DEF NewContacts, M
  <2> QED  BY <1>a, <2>1, <2>2
<1>11. DOMAIN contacts = 1..N /\ DOMAIN contacts' = 1..(N + M)
  BY <1>1, <1>2 DEF N
<1>12. ASSUME NEW j \in 1..(N + M), NEW k \in 1..(N + M), contacts'[j].primary, contacts'[k].primary,
              contacts'[j].client = contacts'[k].client
       PROVE  j = k
  <2>1. \A i, l \in 1..N : contacts[i].primary /\ contacts[l].primary /\ contacts[i].client = contacts[l].client => i = l
    BY <1>11 DEF FirstsInv, FirstsAreUnique
  <2>2. \A n \in 1..M : ks[n].primary => \A i \in 1..N : contacts[i].primary => contacts[i].client # ks[n].client
    BY DEF NewContacts, N, M
  <2>3. \A n, m \in 1..M : ks[n].primary /\ ks[m].primary /\ ks[m].client = ks[n].client => m = n
    BY DEF NewContacts, M
  <2>4. CASE j \in 1..N /\ contacts'[j] = contacts[j]
    BY <1>a, <1>12, <2>1, <2>2, <2>4
  <2>5. CASE j - N \in 1..M /\ j = N + (j - N) /\ contacts'[j] = ks[j - N]
    <3>1. CASE k \in 1..N /\ contacts'[k] = contacts[k]
      BY <1>12, <2>2, <2>5, <3>1
    <3>2. CASE k - N \in 1..M /\ k = N + (k - N) /\ contacts'[k] = ks[k - N]
      <4>1. j - N = k - N
        BY <1>12, <2>3, <2>5, <3>2
      <4> QED  BY <2>5, <3>2, <4>1
    <3> QED  BY <1>a, <3>1, <3>2
  <2> QED  BY <1>a, <2>4, <2>5
<1>13. ASSUME NEW r \in routes', NEW s \in routes', r.primary, s.primary, r.client = s.client, r.purpose = s.purpose
       PROVE  r = s
  <2>1. \A a, b \in routes : a.primary /\ b.primary /\ a.client = b.client /\ a.purpose = b.purpose => a = b
    BY DEF FirstsInv, FirstsAreUnique
  <2>2. /\ \A a \in rs : \A b \in routes : b.primary /\ b.client = a.client => b.purpose # a.purpose
        /\ \A a, b \in rs : b.client = a.client /\ b.purpose = a.purpose => b = a
    BY DEF NewContacts
  <2> QED  BY <1>13, <2>1, <2>2
<1>14. ASSUME NEW r \in routes', r.primary
       PROVE  contacts'[r.contact].role = RoleOf(r.purpose) \/ AsFiled(r)'
  <2>1. CASE r \in routes
    <3>1. contacts[r.contact].role = RoleOf(r.purpose) \/ AsFiled(r)
      BY <1>14, <2>1 DEF FirstsInv, FirstsAreUnique
    <3> QED  BY <1>3, <1>8, <2>1, <3>1
  <2>2. CASE r \in rs
    <3>1. PICK n \in 1..M : r.contact = N + n /\ (ks[n].role = RoleOf(r.purpose) \/ AsFiled(r)')
      BY <1>7, <2>2
    <3>2. contacts'[N + n] = ks[n]
      BY <1>4
    <3> QED  BY <3>1, <3>2
  <2> QED  BY <2>1, <2>2
<1>15. FirstsInv'
  BY <1>2, <1>10, <1>11, <1>12, <1>13, <1>14 DEF FirstsInv, FirstsAreUnique, N
<1> QED  BY <1>1, <1>2, <1>3, <1>4, <1>5, <1>6, <1>9, <1>15 DEF N, M

----
(* What holds of the directory, and what a step of it keeps for those who   *)
(* refer to it.                                                             *)
DirectoryInv ==
  /\ DirectoryRows /\ Grounded /\ KindsAndParents /\ FirstsInv
  /\ affiliations \subseteq (1..Len(clients)) \X (1..Len(clients))

DirectoryGrows ==
  /\ Len(clients) <= Len(clients') /\ Len(contacts) <= Len(contacts')
  /\ affiliations \subseteq affiliations'
  /\ \A c \in 1..Len(clients) :
       /\ clients'[c].code = clients[c].code
       /\ clients[c].active =>
            \/ clients'[c].active
            \/ \A e \in DOMAIN engagements :
                 engagements[e].client = c => engagements[e].phase = "ARCHIVED_READ_ONLY"
  /\ \A k \in 1..Len(contacts) : contacts'[k].client = contacts[k].client

(* Rows of the tables that refer to it.                                     *)
ClientOf(f, mapped, i) == mapped[CHOOSE n \in DOMAIN mapped : ImportOrder(f)[n] = i].client
Mapped(f, mapped) ==
  \A n \in DOMAIN mapped :
    /\ clients[mapped[n].client].code = f[ImportOrder(f)[n]].code
    /\ f[ImportOrder(f)[n]].parent # NoRef =>
         <<mapped[n].client, ClientOf(f, mapped, ParentRow(f, ImportOrder(f)[n]))>> \in affiliations
Progress(run) ==
  /\ run.status = "REJECTED" => run.mapped = <<>>
  /\ run.status = "VALIDATED" /\ run.file # <<>> => Len(run.mapped) < Len(run.file)
  /\ run.status = "APPLIED" => Len(run.mapped) = Len(run.file)
NoneTwice ==
  \A r, s \in DOMAIN runs : \A n \in DOMAIN runs[r].mapped : \A m \in DOMAIN runs[s].mapped :
    runs[r].mapped[n].client = runs[s].mapped[m].client => r = s /\ n = m

LEMMA OnceMapped ==
  ImportsMapOnce <=>
    /\ \A r \in DOMAIN runs : Progress(runs[r]) /\ Mapped(runs[r].file, runs[r].mapped)
    /\ NoneTwice
BY DEF ImportsMapOnce, Progress, Mapped, ClientOf, NoneTwice

RunsInv ==
  /\ runs \in Seq(RunRows)
  /\ \A r \in 1..Len(runs) :
       /\ runs[r].status # "REJECTED" =>
            FileFits(runs[r].file) /\ Len(runs[r].mapped) <= Len(runs[r].file)
       /\ \A n \in 1..Len(runs[r].mapped) : runs[r].mapped[n].client \in 1..Len(clients)
       /\ Progress(runs[r]) /\ Mapped(runs[r].file, runs[r].mapped)
  /\ NoneTwice

LeadRows == [client : Nat, contact : Nat, status : {"OPEN", "CONVERTED", "LOST"}, engagement : Nat]
SubmissionRows ==
  [name : Names, email : Emails, status : {"RECEIVED", "DUPLICATE", "REJECTED_SPAM", "ACCEPTED_AS_LEAD"},
   lead : Nat, created : Nat]

LeadsInv ==
  /\ leads \in Seq(LeadRows) /\ engagements \in Seq(EngagementRows) /\ submissions \in Seq(SubmissionRows)
  /\ \A l \in 1..Len(leads) :
       /\ leads[l].client \in 1..Len(clients) /\ leads[l].contact \in 1..Len(contacts)
       /\ leads[l].engagement \in 0..Len(engagements)
  /\ \A e \in 1..Len(engagements) : engagements[e].client \in 1..Len(clients)
  /\ \A s \in 1..Len(submissions) : submissions[s].lead \in 0..Len(leads)
  /\ WorkKeepsItsClient

PeopleInv ==
  /\ staff \in Seq(Grades) /\ profiles \in Seq(ProfileRows)
  /\ \A a \in 1..Len(profiles) :
       profiles[a].of \in IF profiles[a].persona = "CLIENT" THEN 1..Len(contacts) ELSE 1..Len(staff)
  /\ ApproversRemain

LEMMA DirectoryStays ==
  ASSUME DirectoryInv, UNCHANGED <<clients, contacts, routes, affiliations>>,
         \A r \in routes : AsFiled(r) => AsFiled(r)'
  PROVE  DirectoryInv' /\ DirectoryGrows
<1>1. UNCHANGED <<clients, contacts, routes, affiliations>>
  OBVIOUS
<1>2. DirectoryRows' /\ Grounded' /\ KindsAndParents'
  BY <1>1 DEF DirectoryInv, DirectoryRows, Grounded, KindsAndParents
<1>3. FirstsInv'
  BY <1>1 DEF DirectoryInv, FirstsInv, FirstsAreUnique
<1>4. DirectoryGrows
  <2>1. Len(clients) \in Nat /\ Len(contacts) \in Nat
    BY DEF DirectoryInv, DirectoryRows
  <2> QED  BY <1>1, <2>1 DEF DirectoryGrows
<1> QED  BY <1>1, <1>2, <1>3, <1>4 DEF DirectoryInv

LEMMA FiledStays ==
  ASSUME runs' = runs
  PROVE  \A r : AsFiled(r) => AsFiled(r)'
BY DEF AsFiled

LEMMA RunsStay ==
  ASSUME DirectoryInv, DirectoryInv', RunsInv, DirectoryGrows, runs' = runs
  PROVE  RunsInv'
<1>1. Len(clients) \in Nat /\ Len(clients') \in Nat /\ Len(clients) <= Len(clients')
  BY DEF DirectoryInv, DirectoryRows, DirectoryGrows
<1>2. \A c \in 1..Len(clients) : c \in 1..Len(clients') /\ clients'[c].code = clients[c].code
  BY <1>1 DEF DirectoryGrows
<1>3. \A r \in 1..Len(runs) : \A n \in 1..Len(runs[r].mapped) : runs[r].mapped[n].client \in 1..Len(clients)
  BY DEF RunsInv
<1>4. /\ DOMAIN runs = 1..Len(runs)
      /\ \A r \in 1..Len(runs) : DOMAIN runs[r].mapped = 1..Len(runs[r].mapped)
  BY DEF RunsInv, RunRows
<1>5. \A r \in 1..Len(runs) : Mapped(runs[r].file, runs[r].mapped)'
  <2> SUFFICES ASSUME NEW r \in 1..Len(runs) PROVE Mapped(runs[r].file, runs[r].mapped)'
    OBVIOUS
  <2>1. Mapped(runs[r].file, runs[r].mapped) /\ affiliations \subseteq affiliations'
    BY DEF RunsInv, DirectoryGrows
  <2>2. \A n \in DOMAIN runs[r].mapped :
          clients'[runs[r].mapped[n].client].code = clients[runs[r].mapped[n].client].code
    BY <1>2, <1>3, <1>4
  <2> QED  BY <2>1, <2>2 DEF Mapped
<1>6. NoneTwice' /\ \A r \in 1..Len(runs) : Progress(runs[r])'
  BY DEF RunsInv, NoneTwice, Progress
<1> QED  BY <1>2, <1>3, <1>5, <1>6 DEF RunsInv

LEMMA LeadsStay ==
  ASSUME DirectoryInv, DirectoryInv', LeadsInv, DirectoryGrows, UNCHANGED <<leads, engagements, submissions>>
  PROVE  LeadsInv'
<1>1. /\ Len(clients) \in Nat /\ Len(clients') \in Nat /\ Len(clients) <= Len(clients')
      /\ Len(contacts) \in Nat /\ Len(contacts') \in Nat /\ Len(contacts) <= Len(contacts')
  BY DEF DirectoryInv, DirectoryRows, DirectoryGrows
<1>2. /\ \A c \in 1..Len(clients) : c \in 1..Len(clients')
      /\ \A k \in 1..Len(contacts) : k \in 1..Len(contacts') /\ contacts'[k].client = contacts[k].client
  BY <1>1 DEF DirectoryGrows
<1>3. DOMAIN leads = 1..Len(leads) /\ DOMAIN engagements = 1..Len(engagements)
  BY DEF LeadsInv
<1>4. WorkKeepsItsClient'
  <2>1. \A e \in DOMAIN engagements :
          engagements[e].phase # "ARCHIVED_READ_ONLY" => clients'[engagements[e].client].active
    <3>1. \A e \in DOMAIN engagements :
            /\ engagements[e].client \in 1..Len(clients)
            /\ engagements[e].phase # "ARCHIVED_READ_ONLY" => clients[engagements[e].client].active
      BY <1>3 DEF LeadsInv, WorkKeepsItsClient
    <3> QED  BY <3>1 DEF DirectoryGrows
  <2>2. \A l \in DOMAIN leads : contacts'[leads[l].contact].client = leads[l].client
    BY <1>2, <1>3 DEF LeadsInv, WorkKeepsItsClient
  <2> QED  BY <2>1, <2>2 DEF LeadsInv, WorkKeepsItsClient
<1> QED  BY <1>2, <1>4 DEF LeadsInv

LEMMA PeopleStay ==
  ASSUME DirectoryInv, DirectoryInv', PeopleInv, DirectoryGrows, UNCHANGED <<staff, profiles>>
  PROVE  PeopleInv'
<1>1. Len(contacts) \in Nat /\ Len(contacts') \in Nat /\ Len(contacts) <= Len(contacts')
  BY DEF DirectoryInv, DirectoryRows, DirectoryGrows
<1>2. \A k \in 1..Len(contacts) : k \in 1..Len(contacts')
  BY <1>1
<1>3. ApproversRemain'
  BY DEF PeopleInv, ApproversRemain, Approvers
<1> QED  BY <1>2, <1>3 DEF PeopleInv

(* Clients and contacts are added. *)
LEMMA DirectoryAdded ==
  ASSUME DirectoryInv, NEW cs, NEW ks, NEW rs, NewClients(cs), NewContacts(ks, rs),
         clients' = clients \o cs, contacts' = contacts \o ks, routes' = routes \cup rs,
         affiliations \subseteq affiliations',
         affiliations' \subseteq (1..Len(clients')) \X (1..Len(clients')),
         \A r \in routes : AsFiled(r) => AsFiled(r)'
  PROVE  DirectoryInv' /\ DirectoryGrows
<1>1. DirectoryRows /\ Grounded /\ KindsAndParents /\ FirstsInv
  BY DEF DirectoryInv
<1>2. /\ clients' \in Seq(ClientRows) /\ Len(clients') = Len(clients) + Len(cs)
      /\ Len(cs) \in Nat /\ Len(clients) \in Nat
      /\ \A c \in 1..Len(clients) : clients'[c] = clients[c]
      /\ \A c \in 1..Len(clients') : clients'[c].parent \in 0..Len(clients')
      /\ Grounded' /\ KindsAndParents'
  BY <1>1, ClientsAdded
<1>3. Len(clients') \in Nat /\ Len(clients) <= Len(clients')
  BY <1>2
<1>4. /\ contacts' \in Seq(ContactRows) /\ Len(contacts') = Len(contacts) + Len(ks)
      /\ Len(ks) \in Nat /\ Len(contacts) \in Nat
      /\ \A k \in 1..Len(contacts) : contacts'[k] = contacts[k]
      /\ \A k \in 1..Len(contacts') : contacts'[k].client \in 1..Len(clients')
      /\ routes' \subseteq RouteRows
      /\ \A r \in routes' : r.contact \in 1..Len(contacts') /\ contacts'[r.contact].client = r.client
      /\ FirstsInv'
  BY <1>1, <1>3, ContactsAdded
<1>5. DirectoryRows'
  BY <1>2, <1>4 DEF DirectoryRows
<1>6. DirectoryGrows
  <2>1. Len(contacts) <= Len(contacts')
    BY <1>4
  <2> QED  BY <1>2, <1>3, <1>4, <2>1 DEF DirectoryGrows
<1> QED  BY <1>2, <1>4, <1>5, <1>6 DEF DirectoryInv

----
LEMMA AppendOne ==
  ASSUME NEW S, NEW seq \in Seq(S), NEW elt \in S
  PROVE  /\ Append(seq, elt) = seq \o <<elt>> /\ <<elt>> \in Seq(S)
         /\ Len(<<elt>>) = 1 /\ <<elt>>[1] = elt /\ \A n \in 1..Len(<<elt>>) : n = 1
<1>1. Append(seq, elt) = seq \o <<elt>>
  BY AppendIsConcat
<1>2. \A n \in 1..1 : n = 1
  OBVIOUS
<1> QED  BY <1>1, <1>2

(* A client comes with its first contact.                                   *)
LEMMA Registering ==
  ASSUME DirectoryInv, NEW client \in ClientRows, NEW email \in Emails \cup {NoEmail}, NEW role \in Roles,
         client.active, client.parent \in 0..Len(clients),
         (client.kind = "SUBSIDIARY") <=> (client.parent # NoClient),
         client.parent # NoClient => clients[client.parent].active,
         Registered(client, email, role), UNCHANGED <<affiliations, runs>>
  PROVE  DirectoryInv' /\ DirectoryGrows
<1> DEFINE c == Len(clients) + 1
           k == Len(contacts) + 1
           contact == Contact(c, email, role, TRUE)
           cs == <<client>>
           ks == <<contact>>
           rs == PrimaryRoutes(c, k, PurposesOf(role))
<1>1. /\ clients \in Seq(ClientRows) /\ contacts \in Seq(ContactRows) /\ routes \subseteq RouteRows
      /\ Len(clients) \in Nat /\ Len(contacts) \in Nat
      /\ \A j \in 1..Len(contacts) : contacts[j].client \in 1..Len(clients)
      /\ \A r \in routes : r.contact \in 1..Len(contacts) /\ contacts[r.contact].client = r.client
  BY DEF DirectoryInv, DirectoryRows
<1>2. /\ contact \in ContactRows /\ contact.active /\ contact.primary /\ contact.client = c
      /\ contact.role = role
  BY <1>1 DEF Contact, ContactRows
<1>3. /\ clients' = Append(clients, client) /\ contacts' = Append(contacts, contact)
      /\ routes' = routes \cup rs
  BY DEF Registered
<1>4. rs \subseteq RouteRows
      /\ \A r \in rs : /\ r.client = c /\ r.contact = k /\ r.primary
                       /\ RoleOf(r.purpose) = role
                       /\ r = [client |-> c, purpose |-> r.purpose, contact |-> k, primary |-> TRUE]
  <2> SUFFICES ASSUME NEW r \in rs
               PROVE  /\ r \in RouteRows /\ r.client = c /\ r.contact = k /\ r.primary
                      /\ RoleOf(r.purpose) = role
                      /\ r = [client |-> c, purpose |-> r.purpose, contact |-> k, primary |-> TRUE]
    OBVIOUS
  <2>1. PICK purpose \in PurposesOf(role) : r = [client |-> c, purpose |-> purpose, contact |-> k, primary |-> TRUE]
    BY DEF PrimaryRoutes
  <2>2. purpose \in Purposes /\ RoleOf(purpose) = role
    BY <2>1 DEF PurposesOf
  <2>3. c \in Nat /\ k \in Nat
    BY <1>1
  <2> HIDE DEF c, k
  <2> QED  BY <2>1, <2>2, <2>3 DEF RouteRows
<1> HIDE DEF contact, rs
<1>5. /\ clients' = clients \o cs /\ cs \in Seq(ClientRows)
      /\ Len(cs) = 1 /\ cs[1] = client /\ \A n \in 1..Len(cs) : n = 1
  BY <1>1, <1>3, AppendOne
<1>6. /\ contacts' = contacts \o ks /\ ks \in Seq(ContactRows)
      /\ Len(ks) = 1 /\ ks[1] = contact /\ \A n \in 1..Len(ks) : n = 1
  BY <1>1, <1>2, <1>3, AppendOne
<1>7. Len(clients') = c
  BY <1>1, <1>3, AppendProperties
<1> HIDE DEF cs, ks
<1>8. NewClients(cs)
  <2>1. client.parent \in 0..(Len(clients) + 1 - 1) /\ (client.parent \in 1..Len(clients) => client.parent # NoClient)
    BY <1>1 DEF NoClient
  <2> QED  BY <1>5, <2>1 DEF NewClients
<1>9. \A j \in 1..Len(contacts) : contacts[j].client # c
  BY <1>1
<1>10. \A r \in routes : r.client # c
  BY <1>1, <1>9
<1>11. NewContacts(ks, rs)
  <2>1. c \in 1..Len(clients')
    BY <1>1, <1>7
  <2>2. 1 \in 1..Len(ks)
    BY <1>6
  <2>3. \A n \in 1..Len(ks) :
          /\ ks[n].active /\ ks[n].client \in 1..Len(clients')
          /\ \A j \in 1..Len(contacts) : contacts[j].primary => contacts[j].client # ks[n].client
          /\ \A m \in 1..Len(ks) : ks[m].primary /\ ks[m].client = ks[n].client => m = n
    BY <1>2, <1>6, <1>9, <2>1
  <2>4. \A r \in rs : \E n \in 1..Len(ks) :
          r.contact = Len(contacts) + n /\ r.client = ks[n].client /\ ks[n].role = RoleOf(r.purpose)
    BY <1>2, <1>4, <1>6, <2>2
  <2>5. \A r \in rs : \A s \in rs : s.purpose = r.purpose => s = r
    BY <1>4
  <2> HIDE DEF c, k
  <2> QED  BY <1>4, <1>6, <1>10, <2>3, <2>4, <2>5 DEF NewContacts
<1>12. /\ affiliations' = affiliations
       /\ affiliations' \subseteq (1..Len(clients')) \X (1..Len(clients'))
  <2>1. \A x \in 1..Len(clients) : x \in 1..Len(clients')
    BY <1>1, <1>7
  <2> QED  BY <2>1 DEF DirectoryInv
<1> QED  BY <1>3, <1>5, <1>6, <1>8, <1>11, <1>12, DirectoryAdded, FiledStays

LEMMA ClientCreating ==
  ASSUME DirectoryInv, NEW code \in ClientCodes, NEW name \in Names, NEW kind \in ClientKinds,
         NEW parent \in {NoClient} \cup DOMAIN clients, NEW role \in Roles,
         ClientCreate(code, name, kind, parent, NoEmail, role)
  PROVE  DirectoryInv' /\ DirectoryGrows
<1> DEFINE client == Client(code, name, kind, parent)
<1>1. Len(clients) \in Nat /\ DOMAIN clients = 1..Len(clients)
  BY DEF DirectoryInv, DirectoryRows
<1>2. parent \in 0..Len(clients)
  BY <1>1 DEF NoClient
<1>3. /\ client \in ClientRows /\ client.active /\ client.parent = parent /\ client.kind = kind
  BY <1>2, RowsAssumption DEF Client, ClientRows
<1>4. /\ (kind = "SUBSIDIARY") <=> (parent # NoClient)
      /\ parent # NoClient => clients[parent].active
      /\ Registered(client, NoEmail, role) /\ UNCHANGED <<affiliations, runs>>
  BY DEF ClientCreate, ActiveClient
<1> HIDE DEF client
<1> QED  BY <1>2, <1>3, <1>4, Registering

LEMMA ProspectRegistered ==
  ASSUME DirectoryInv, NEW code \in ClientCodes, NEW name \in Names, NEW email \in Emails, NEW role \in Roles,
         LeadOfProspect(code, name, email, role)
  PROVE  DirectoryInv' /\ DirectoryGrows
<1> DEFINE client == Client(code, name, "STANDALONE", NoClient)
<1>1. Len(clients) \in Nat
  BY DEF DirectoryInv, DirectoryRows
<1>2. /\ client \in ClientRows /\ client.active /\ client.parent = NoClient /\ client.kind = "STANDALONE"
      /\ NoClient \in 0..Len(clients)
  BY <1>1, RowsAssumption DEF Client, ClientRows, NoClient, ClientKinds
<1>3. Registered(client, email, role) /\ UNCHANGED <<affiliations, runs>>
  BY DEF LeadOfProspect
<1> HIDE DEF client
<1> QED  BY <1>2, <1>3, Registering

(* A further contact.                                                       *)
LEMMA ContactCreating ==
  ASSUME DirectoryInv, NEW c \in DOMAIN clients, NEW role \in Roles, NEW email \in Emails \cup {NoEmail},
         ContactCreate(c, email, role)
  PROVE  DirectoryInv' /\ DirectoryGrows
<1> DEFINE k == Len(contacts) + 1
           contact == Contact(c, email, role, FALSE)
           ks == <<contact>>
           free == {purpose \in PurposesOf(role) : Primaries(c, purpose) = {}}
           rs == PrimaryRoutes(c, k, free)
<1>1. /\ clients \in Seq(ClientRows) /\ contacts \in Seq(ContactRows) /\ routes \subseteq RouteRows
      /\ Len(clients) \in Nat /\ Len(contacts) \in Nat /\ c \in 1..Len(clients)
  BY DEF DirectoryInv, DirectoryRows
<1>2. contact \in ContactRows /\ contact.active /\ contact.client = c /\ contact.role = role /\ ~contact.primary
  BY <1>1 DEF Contact, ContactRows
<1>3. contacts' = Append(contacts, contact) /\ routes' = routes \cup rs /\ UNCHANGED <<clients, affiliations, runs>>
  BY DEF ContactCreate
<1>4. /\ rs \subseteq RouteRows
      /\ \A r \in rs : /\ r.client = c /\ r.contact = k /\ r.primary
                       /\ RoleOf(r.purpose) = role
                       /\ r = [client |-> c, purpose |-> r.purpose, contact |-> k, primary |-> TRUE]
                       /\ Primaries(c, r.purpose) = {}
  <2> SUFFICES ASSUME NEW r \in rs
               PROVE  /\ r \in RouteRows /\ r.client = c /\ r.contact = k /\ r.primary
                      /\ RoleOf(r.purpose) = role
                      /\ r = [client |-> c, purpose |-> r.purpose, contact |-> k, primary |-> TRUE]
                      /\ Primaries(c, r.purpose) = {}
    OBVIOUS
  <2>1. PICK purpose \in free : r = [client |-> c, purpose |-> purpose, contact |-> k, primary |-> TRUE]
    BY DEF PrimaryRoutes
  <2>2. purpose \in Purposes /\ RoleOf(purpose) = role /\ Primaries(c, purpose) = {}
    BY <2>1 DEF PurposesOf
  <2>3. c \in Nat /\ k \in Nat
    BY <1>1
  <2> HIDE DEF k, free
  <2> QED  BY <2>1, <2>2, <2>3 DEF RouteRows
<1> HIDE DEF contact, rs
<1>5. /\ contacts' = contacts \o ks /\ ks \in Seq(ContactRows)
      /\ Len(ks) = 1 /\ ks[1] = contact /\ \A n \in 1..Len(ks) : n = 1
  BY <1>1, <1>2, <1>3, AppendOne
<1> HIDE DEF ks
<1>6. NewClients(<< >>) /\ clients' = clients \o << >>
  <2>1. << >> \in Seq(ClientRows) /\ Len(<< >>) = 0
    OBVIOUS
  <2>2. \A n \in 1..0 : FALSE
    OBVIOUS
  <2>3. clients' = clients \o << >>
    BY <1>1, <1>3, ConcatEmptySeq
  <2> QED  BY <2>1, <2>2, <2>3 DEF NewClients
<1>7. NewContacts(ks, rs)
  <2>1. 1 \in 1..Len(ks)
    BY <1>5
  <2>2. \A n \in 1..Len(ks) : ks[n].active /\ ks[n].client \in 1..Len(clients') /\ ~ks[n].primary
    BY <1>1, <1>2, <1>3, <1>5
  <2>3. \A r \in rs : \E n \in 1..Len(ks) :
          r.contact = Len(contacts) + n /\ r.client = ks[n].client /\ ks[n].role = RoleOf(r.purpose)
    BY <1>2, <1>4, <1>5, <2>1
  <2>4. \A r \in rs : \A s \in rs : s.purpose = r.purpose => s = r
    BY <1>4
  <2>5. \A r \in rs : \A s \in routes : s.primary /\ s.client = r.client => s.purpose # r.purpose
    BY <1>4 DEF Primaries
  <2> HIDE DEF k
  <2> QED  BY <1>4, <1>5, <2>2, <2>3, <2>4, <2>5 DEF NewContacts
<1> QED  BY <1>3, <1>5, <1>6, <1>7, DirectoryAdded, FiledStays DEF DirectoryInv

----
(* A client is moved under one that it is not above.                        *)
LEMMA ClientUpdating ==
  ASSUME DirectoryInv, NEW c \in DOMAIN clients, NEW name \in Names, NEW kind \in ClientKinds,
         NEW parent \in {NoClient} \cup DOMAIN clients, ClientUpdate(c, name, kind, parent)
  PROVE  DirectoryInv' /\ DirectoryGrows
<1> DEFINE N == Len(clients)
<1>1. /\ clients \in Seq(ClientRows) /\ N \in Nat /\ DOMAIN clients = 1..N /\ c \in 1..N
      /\ \A d \in 1..N : clients[d] \in ClientRows /\ clients[d].parent \in 0..N
      /\ DirectoryRows /\ Grounded /\ KindsAndParents /\ FirstsInv
  BY DEF DirectoryInv, DirectoryRows
<1>2. parent \in 0..N /\ (parent # NoClient => parent \in 1..N)
  BY <1>1 DEF NoClient
<1>3. /\ (kind = "SUBSIDIARY") <=> (parent # NoClient)
      /\ clients[c].active
      /\ parent # NoClient => clients[parent].active /\ c \notin Above(parent)
      /\ clients' = [clients EXCEPT ![c].name = name, ![c].kind = kind, ![c].parent = parent]
      /\ UNCHANGED <<contacts, routes, affiliations, runs>>
  BY DEF ClientUpdate, ActiveClient
<1> DEFINE row == [clients[c] EXCEPT !.name = name, !.kind = kind, !.parent = parent]
<1>4. /\ row \in ClientRows /\ row.kind = kind /\ row.parent = parent /\ row.active /\ row.code = clients[c].code
  <2>1. parent \in Nat
    BY <1>1, <1>2
  <2>2. clients[c] \in ClientRows /\ clients[c].active
    BY <1>1, <1>3
  <2> HIDE DEF N
  <2> QED  BY <2>1, <2>2 DEF ClientRows
<1>5. clients' = [clients EXCEPT ![c] = row]
  BY <1>1, <1>3
<1> HIDE DEF row
<1>6. /\ clients' \in Seq(ClientRows) /\ Len(clients') = N
      /\ \A d \in 1..N : clients'[d] = IF d = c THEN row ELSE clients[d]
  BY <1>1, <1>4, <1>5, ExceptSeq
<1> HIDE DEF N
<1>7. \A d \in 1..N : /\ clients'[d].parent \in 0..N /\ clients'[d].active = clients[d].active
                      /\ clients'[d].code = clients[d].code
  BY <1>1, <1>2, <1>3, <1>4, <1>6
<1>8. Grounded'
  <2> SUFFICES ASSUME NEW S \in SUBSET (1..N), S # {}, \A d \in S : clients'[d].parent \in S
               PROVE  FALSE
    BY <1>6 DEF Grounded
  <2>1. CASE c \notin S
    <3>1. \A d \in S : clients[d].parent \in S
      BY <1>6, <2>1
    <3> QED  BY <1>1, <3>1 DEF Grounded, N
  <2>2. CASE c \in S
    <3> DEFINE T == S \cap Above(parent)
    <3>1. parent \in S /\ parent \in 1..N
      BY <1>1, <1>4, <1>6, <2>2
    <3>2. parent # NoClient
      BY <3>1 DEF NoClient
    <3>3. /\ parent \in Above(parent) /\ c \notin Above(parent)
          /\ \A d \in Above(parent) : clients[d].parent \in Above(parent) \cup {NoClient}
      BY <1>1, <1>3, <3>1, <3>2, AboveGrounded DEF N
    <3>4. \A d \in T : clients[d].parent \in S /\ clients[d].parent \in Above(parent) \cup {NoClient}
      BY <1>6, <3>3
    <3>5. NoClient \notin S
      BY DEF NoClient
    <3>6. \A d \in T : clients[d].parent \in T
      BY <3>4, <3>5
    <3>7. T \in SUBSET (1..N) /\ T # {}
      BY <3>1, <3>3
    <3> HIDE DEF T
    <3> QED  BY <1>1, <3>6, <3>7 DEF Grounded, N
  <2> QED  BY <2>1, <2>2
<1>9. KindsAndParents'
  <2> SUFFICES ASSUME NEW d \in 1..N
               PROVE  /\ (clients'[d].kind = "SUBSIDIARY") <=> (clients'[d].parent # NoClient)
                      /\ clients'[d].active /\ clients'[d].parent # NoClient =>
                           clients'[clients'[d].parent].active
    BY <1>6 DEF KindsAndParents
  <2>1. CASE d = c
    <3>1. clients'[d] = row
      BY <1>6, <2>1
    <3> QED  BY <1>2, <1>3, <1>4, <1>7, <3>1
  <2>2. CASE d # c
    <3>1. clients'[d] = clients[d]
      BY <1>6, <2>2
    <3>2. clients[d].parent # NoClient => clients[d].parent \in 1..N
      <4>1. \A p \in 0..N : p # NoClient => p \in 1..N
        BY <1>1 DEF NoClient
      <4> QED  BY <1>1, <4>1
    <3> QED  BY <1>1, <1>7, <3>1, <3>2 DEF KindsAndParents, N
  <2> QED  BY <2>1, <2>2
<1>10. DirectoryRows'
  BY <1>1, <1>3, <1>6, <1>7 DEF DirectoryRows, N
<1>11. FirstsInv'
  BY <1>1, <1>3, FiledStays DEF FirstsInv, FirstsAreUnique
<1>12. DirectoryGrows
  <2>1. Len(clients) <= Len(clients') /\ Len(contacts) <= Len(contacts')
    BY <1>1, <1>3, <1>6 DEF DirectoryRows, N
  <2> QED  BY <1>1, <1>3, <1>7, <2>1 DEF DirectoryGrows, N
<1> QED  BY <1>3, <1>6, <1>8, <1>9, <1>10, <1>11, <1>12 DEF DirectoryInv, N

(* A client leaves that no active one is under.                             *)
LEMMA ClientDeactivating ==
  ASSUME DirectoryInv, NEW c \in DOMAIN clients, ClientDeactivate(c)
  PROVE  DirectoryInv' /\ DirectoryGrows
<1> DEFINE N == Len(clients)
<1>1. /\ clients \in Seq(ClientRows) /\ N \in Nat /\ DOMAIN clients = 1..N /\ c \in 1..N
      /\ \A d \in 1..N : clients[d] \in ClientRows /\ clients[d].parent \in 0..N
      /\ DirectoryRows /\ Grounded /\ KindsAndParents /\ FirstsInv
  BY DEF DirectoryInv, DirectoryRows
<1>2. /\ \A d \in 1..N : clients[d].parent = c => ~clients[d].active
      /\ \A e \in DOMAIN engagements : engagements[e].client = c => engagements[e].phase = "ARCHIVED_READ_ONLY"
      /\ clients' = [clients EXCEPT ![c].active = FALSE]
      /\ UNCHANGED <<contacts, routes, affiliations, runs>>
  BY <1>1 DEF ClientDeactivate, Unencumbered
<1> DEFINE row == [clients[c] EXCEPT !.active = FALSE]
<1>3. /\ row \in ClientRows /\ row.kind = clients[c].kind /\ row.parent = clients[c].parent
      /\ row.active = FALSE /\ row.code = clients[c].code
  BY <1>1 DEF ClientRows
<1>4. clients' = [clients EXCEPT ![c] = row]
  BY <1>1, <1>2
<1> HIDE DEF row
<1>5. /\ clients' \in Seq(ClientRows) /\ Len(clients') = N
      /\ \A d \in 1..N : clients'[d] = IF d = c THEN row ELSE clients[d]
  BY <1>1, <1>3, <1>4, ExceptSeq
<1> HIDE DEF N
<1>6. \A d \in 1..N : /\ clients'[d].parent = clients[d].parent /\ clients'[d].kind = clients[d].kind
                      /\ clients'[d].code = clients[d].code
                      /\ d # c => clients'[d].active = clients[d].active
  BY <1>3, <1>5
<1>7. Grounded'
  <2> SUFFICES ASSUME NEW S \in SUBSET (1..N), S # {}, \A d \in S : clients'[d].parent \in S
               PROVE  FALSE
    BY <1>5 DEF Grounded
  <2>1. \A d \in S : clients[d].parent \in S
    BY <1>6
  <2> QED  BY <1>1, <2>1 DEF Grounded, N
<1>8. KindsAndParents'
  <2> SUFFICES ASSUME NEW d \in 1..N
               PROVE  /\ (clients'[d].kind = "SUBSIDIARY") <=> (clients'[d].parent # NoClient)
                      /\ clients'[d].active /\ clients'[d].parent # NoClient =>
                           clients'[clients'[d].parent].active
    BY <1>5 DEF KindsAndParents
  <2>1. clients[d].parent # NoClient => clients[d].parent \in 1..N
    <3>1. \A p \in 0..N : p # NoClient => p \in 1..N
      BY <1>1 DEF NoClient
    <3> QED  BY <1>1, <3>1
  <2>2. clients'[d].active => d # c /\ clients[d].active
    BY <1>3, <1>5
  <2>3. clients[d].active => clients[d].parent # c
    BY <1>2
  <2> QED  BY <1>1, <1>6, <2>1, <2>2, <2>3 DEF KindsAndParents, N
<1>9. DirectoryRows'
  BY <1>1, <1>2, <1>5, <1>6 DEF DirectoryRows, N
<1>10. FirstsInv'
  BY <1>1, <1>2, FiledStays DEF FirstsInv, FirstsAreUnique
<1>11. DirectoryGrows
  <2>1. Len(clients) <= Len(clients') /\ Len(contacts) <= Len(contacts')
    BY <1>1, <1>2, <1>5 DEF DirectoryRows, N
  <2> QED  BY <1>1, <1>2, <1>6, <2>1 DEF DirectoryGrows, N
<1> QED  BY <1>2, <1>5, <1>7, <1>8, <1>9, <1>10, <1>11 DEF DirectoryInv, N

LEMMA AffiliationAdding ==
  ASSUME DirectoryInv, NEW c \in DOMAIN clients, NEW d \in DOMAIN clients, AffiliationAdd(c, d)
  PROVE  DirectoryInv' /\ DirectoryGrows
<1>1. UNCHANGED <<clients, contacts, routes, runs>> /\ affiliations' = affiliations \cup {<<c, d>>}
  BY DEF AffiliationAdd
<1>2. DirectoryRows' /\ Grounded' /\ KindsAndParents'
  BY <1>1 DEF DirectoryInv, DirectoryRows, Grounded, KindsAndParents
<1>3. FirstsInv'
  BY <1>1, FiledStays DEF DirectoryInv, FirstsInv, FirstsAreUnique
<1>4. DirectoryGrows
  <2>1. Len(clients) \in Nat /\ Len(contacts) \in Nat
    BY DEF DirectoryInv, DirectoryRows
  <2> QED  BY <1>1, <2>1 DEF DirectoryGrows
<1>5. c \in 1..Len(clients) /\ d \in 1..Len(clients)
  BY DEF DirectoryInv, DirectoryRows
<1> QED  BY <1>1, <1>2, <1>3, <1>4, <1>5 DEF DirectoryInv

(* The first contact steps back for the next one.                           *)
LEMMA ContactUpdating ==
  ASSUME DirectoryInv, NEW k \in DOMAIN contacts, NEW role \in Roles, NEW email \in Emails \cup {NoEmail},
         NEW primary \in BOOLEAN, NEW active \in BOOLEAN, ContactUpdate(k, email, role, primary, active)
  PROVE  DirectoryInv' /\ DirectoryGrows
<1> DEFINE N == Len(contacts)
           row == [contacts[k] EXCEPT !.email = email, !.role = role, !.primary = primary, !.active = active]
<1>1. /\ contacts \in Seq(ContactRows) /\ N \in Nat /\ DOMAIN contacts = 1..N /\ k \in 1..N
      /\ \A j \in 1..N : contacts[j] \in ContactRows
      /\ DirectoryRows /\ Grounded /\ KindsAndParents /\ FirstsInv
  BY DEF DirectoryInv, DirectoryRows
<1>2. /\ primary => active
      /\ RoleFits(k, role)
      /\ contacts' = [j \in 1..N |->
           IF j = k THEN row
           ELSE IF primary /\ contacts[j].client = contacts[k].client /\ contacts[j].active
           THEN [contacts[j] EXCEPT !.primary = FALSE]
           ELSE contacts[j]]
      /\ UNCHANGED <<clients, routes, affiliations, runs>>
  BY <1>1 DEF ContactUpdate
<1>3. row \in ContactRows /\ row.client = contacts[k].client /\ row.primary = primary /\ row.active = active
      /\ row.role = role
  BY <1>1 DEF ContactRows
<1>4. \A j \in 1..N :
        LET stepped == [contacts[j] EXCEPT !.primary = FALSE]
        IN /\ stepped \in ContactRows /\ stepped.client = contacts[j].client /\ stepped.role = contacts[j].role
           /\ stepped.primary = FALSE /\ stepped.active = contacts[j].active
  BY <1>1 DEF ContactRows
<1> HIDE DEF row
<1>5. \A j \in 1..N :
        /\ contacts'[j] \in ContactRows /\ contacts'[j].client = contacts[j].client
        /\ j # k => /\ contacts'[j].role = contacts[j].role /\ contacts'[j].active = contacts[j].active
                    /\ contacts'[j].primary =>
                         /\ contacts[j].primary
                         /\ ~(primary /\ contacts[j].client = contacts[k].client /\ contacts[j].active)
        /\ j = k => contacts'[j] = row
  BY <1>1, <1>2, <1>3, <1>4
<1>6. contacts' \in Seq(ContactRows) /\ Len(contacts') = N /\ DOMAIN contacts' = 1..N
  <2>1. contacts' = [j \in 1..N |-> contacts'[j]]
    BY <1>2
  <2>2. contacts' \in [1..N -> ContactRows]
    BY <1>5, <2>1
  <2> HIDE DEF N
  <2> QED  BY <1>1, <2>2
<1> HIDE DEF N
<1>7. FirstsInv /\ FirstsAreUnique /\ \A j \in 1..N : contacts[j].primary => contacts[j].active
  BY <1>1 DEF FirstsInv, N
<1>8. \A j \in 1..N : contacts'[j].primary => contacts'[j].active
  BY <1>2, <1>3, <1>5, <1>7
<1>9. ASSUME NEW i \in 1..N, NEW j \in 1..N, contacts'[i].primary, contacts'[j].primary,
             contacts'[i].client = contacts'[j].client
      PROVE  i = j
  <2>1. contacts[i].client = contacts[j].client
    BY <1>5, <1>9
  <2>2. CASE i # k /\ j # k
    BY <1>1, <1>5, <1>7, <1>9, <2>1, <2>2 DEF FirstsAreUnique
  <2>3. CASE i = k /\ j # k
    BY <1>3, <1>5, <1>7, <1>9, <2>1, <2>3
  <2>4. CASE i # k /\ j = k
    BY <1>3, <1>5, <1>7, <1>9, <2>1, <2>4
  <2> QED  BY <2>2, <2>3, <2>4
<1>10. ASSUME NEW r \in routes, r.primary
       PROVE  contacts'[r.contact].role = RoleOf(r.purpose) \/ AsFiled(r)'
  <2>1. r.contact \in 1..N /\ (contacts[r.contact].role = RoleOf(r.purpose) \/ AsFiled(r)')
    BY <1>1, <1>2, <1>7, <1>10, FiledStays DEF FirstsAreUnique, DirectoryRows, N
  <2>2. CASE r.contact = k
    <3>1. RoleOf(r.purpose) = role
      BY <1>2, <1>10, <2>2 DEF RoleFits, PurposesOf
    <3> QED  BY <1>3, <1>5, <2>1, <2>2, <3>1
  <2>3. CASE r.contact # k
    BY <1>5, <2>1, <2>3
  <2> QED  BY <2>2, <2>3
<1>11. FirstsInv'
  BY <1>2, <1>6, <1>7, <1>8, <1>9, <1>10 DEF FirstsInv, FirstsAreUnique
<1>12. DirectoryRows'
  <2>1. /\ \A j \in 1..N : contacts'[j].client \in 1..Len(clients)
        /\ \A r \in routes : r.contact \in 1..N /\ contacts'[r.contact].client = r.client
    BY <1>1, <1>5 DEF DirectoryRows, N
  <2> QED  BY <1>1, <1>2, <1>6, <2>1 DEF DirectoryRows
<1>13. Grounded' /\ KindsAndParents'
  BY <1>1, <1>2 DEF Grounded, KindsAndParents
<1>14. DirectoryGrows
  <2>1. Len(clients) <= Len(clients') /\ Len(contacts) <= Len(contacts')
    BY <1>1, <1>2, <1>6 DEF DirectoryRows, N
  <2> QED  BY <1>2, <1>5, <2>1 DEF DirectoryGrows, N
<1> QED  BY <1>2, <1>11, <1>12, <1>13, <1>14 DEF DirectoryInv

(* A route of a contact; the one that was first before is an alternate.     *)
LEMMA ContactRouting ==
  ASSUME DirectoryInv, NEW k \in DOMAIN contacts, NEW purpose \in Purposes, NEW primary \in BOOLEAN,
         ContactRoute(k, purpose, primary)
  PROVE  DirectoryInv' /\ DirectoryGrows
<1> DEFINE c == contacts[k].client
           own == {r \in routes : r.purpose = purpose /\ r.contact = k}
           replaced == IF primary THEN Primaries(c, purpose) \ own ELSE {}
           new == [client |-> c, purpose |-> purpose, contact |-> k, primary |-> primary]
<1>1. /\ contacts \in Seq(ContactRows) /\ k \in 1..Len(contacts) /\ k \in Nat /\ contacts[k] \in ContactRows
      /\ Len(contacts) \in Nat /\ Len(clients) \in Nat
      /\ routes \subseteq RouteRows
      /\ \A r \in routes : r.contact \in 1..Len(contacts) /\ contacts[r.contact].client = r.client
      /\ DirectoryRows /\ Grounded /\ KindsAndParents /\ FirstsInv
  BY DEF DirectoryInv, DirectoryRows
<1>2. /\ primary => contacts[k].role = RoleOf(purpose)
      /\ routes' = (routes \ (own \cup replaced)) \cup {[r EXCEPT !.primary = FALSE] : r \in replaced} \cup {new}
      /\ UNCHANGED <<clients, contacts, affiliations, runs>>
  BY DEF ContactRoute
<1>3. /\ new \in RouteRows /\ new.client = c /\ new.contact = k /\ new.purpose = purpose /\ new.primary = primary
  BY <1>1 DEF RouteRows, ContactRows
<1>4. replaced \subseteq routes
  BY DEF Primaries
<1>5. \A r \in replaced :
        LET s == [r EXCEPT !.primary = FALSE]
        IN s \in RouteRows /\ s.contact = r.contact /\ s.client = r.client /\ s.primary = FALSE
  BY <1>1, <1>4 DEF RouteRows
<1> HIDE DEF new, own, replaced
<1>6. \A r \in routes' :
        /\ r \in RouteRows /\ r.contact \in 1..Len(contacts) /\ contacts[r.contact].client = r.client
        /\ r.primary => (r \in routes /\ r \notin own \cup replaced) \/ (r = new /\ primary)
  <2> SUFFICES ASSUME NEW r \in routes'
               PROVE  /\ r \in RouteRows /\ r.contact \in 1..Len(contacts) /\ contacts[r.contact].client = r.client
                      /\ r.primary => (r \in routes /\ r \notin own \cup replaced) \/ (r = new /\ primary)
    OBVIOUS
  <2>1. CASE r \in routes \ (own \cup replaced)
    BY <1>1, <2>1
  <2>2. CASE r \in {[q EXCEPT !.primary = FALSE] : q \in replaced}
    <3>1. PICK q \in replaced : r = [q EXCEPT !.primary = FALSE]
      BY <2>2
    <3>2. r \in RouteRows /\ r.contact = q.contact /\ r.client = q.client /\ r.primary = FALSE
      BY <1>5, <3>1
    <3>3. q \in routes
      BY <1>4, <3>1
    <3> QED  BY <1>1, <3>2, <3>3
  <2>3. CASE r = new
    BY <1>1, <1>3, <2>3
  <2> QED  BY <1>2, <2>1, <2>2, <2>3
<1>7. FirstsAreUnique /\ \A j \in 1..Len(contacts) : contacts[j].primary => contacts[j].active
  BY <1>1 DEF FirstsInv
<1>8. ASSUME NEW r \in routes, r.primary, r \notin own \cup replaced, primary, r.client = new.client
      PROVE  r.purpose # new.purpose
  BY <1>3, <1>8 DEF own, replaced, Primaries
<1>9. ASSUME NEW r \in routes', NEW s \in routes', r.primary, s.primary, r.client = s.client, r.purpose = s.purpose
      PROVE  r = s
  BY <1>6, <1>7, <1>8, <1>9 DEF FirstsAreUnique
<1>10. ASSUME NEW r \in routes', r.primary PROVE contacts[r.contact].role = RoleOf(r.purpose) \/ AsFiled(r)'
  BY <1>2, <1>3, <1>6, <1>7, <1>10, FiledStays DEF FirstsAreUnique
<1>11. FirstsInv'
  BY <1>2, <1>7, <1>9, <1>10 DEF FirstsInv, FirstsAreUnique
<1>12. DirectoryRows' /\ Grounded' /\ KindsAndParents'
  BY <1>1, <1>2, <1>6 DEF DirectoryRows, Grounded, KindsAndParents
<1>13. DirectoryGrows
  BY <1>1, <1>2 DEF DirectoryGrows
<1> QED  BY <1>2, <1>11, <1>12, <1>13 DEF DirectoryInv

----
(* The import.                                                              *)
LEMMA ClientOfRow ==
  ASSUME NEW f, FileFits(f), NEW T, NEW mapped \in Seq(T), Len(mapped) <= Len(f), NEW m \in 1..Len(mapped)
  PROVE  ClientOf(f, mapped, ImportOrder(f)[m]) = mapped[m].client
<1> DEFINE order == ImportOrder(f)
<1>1. /\ Len(f) \in Nat /\ \A n, l \in 1..Len(f) : order[n] = order[l] => n = l
  BY ImportOrdered
<1>2. DOMAIN mapped = 1..Len(mapped) /\ \A n \in DOMAIN mapped : n \in 1..Len(f)
  BY <1>1
<1> HIDE DEF order
<1>3. (CHOOSE n \in DOMAIN mapped : order[n] = order[m]) = m
  BY <1>1, <1>2
<1> QED  BY <1>3 DEF ClientOf, order

(* What a step of the import enters.                                        *)
Entered(r) == [n \in DOMAIN Batch(r) |-> [client |-> Len(clients) + n, contact |-> Len(contacts) + n]]
Given(r) == runs[r].mapped \o Entered(r)
ParentOf(r, i) ==
  IF runs[r].file[i].parent = NoRef THEN NoClient
  ELSE ClientOf(runs[r].file, Given(r), ParentRow(runs[r].file, i))
ImportedRow(r, n) == runs[r].file[Batch(r)[n]]
ImportedClients(r) ==
  [n \in DOMAIN Batch(r) |-> Client(ImportedRow(r, n).code, ImportedRow(r, n).name, ImportedRow(r, n).kind,
                                    ParentOf(r, Batch(r)[n]))]
ImportedContacts(r) ==
  [n \in DOMAIN Batch(r) |-> Contact(Len(clients) + n, ImportedRow(r, n).email, ImportedRow(r, n).role, TRUE)]
ImportedRoutes(r) ==
  UNION {PrimaryRoutes(Len(clients) + n, Len(contacts) + n, RowPurposes(ImportedRow(r, n))) : n \in DOMAIN Batch(r)}

LEMMA ImportApplied ==
  ASSUME NEW r, ImportApply(r)
  PROVE  /\ runs[r].status = "VALIDATED"
         /\ \A n \in DOMAIN Batch(r) :
              ParentOf(r, Batch(r)[n]) \in DOMAIN clients => clients[ParentOf(r, Batch(r)[n])].active
         /\ clients' = clients \o ImportedClients(r)
         /\ contacts' = contacts \o ImportedContacts(r)
         /\ routes' = routes \cup ImportedRoutes(r)
         /\ affiliations' = affiliations \cup
              {<<Len(clients) + n, ParentOf(r, Batch(r)[n])>> :
                 n \in {m \in DOMAIN Batch(r) : ImportedRow(r, m).parent # NoRef}}
         /\ runs' = [runs EXCEPT ![r].mapped = Given(r),
              ![r].status = IF Len(Given(r)) = Len(runs[r].file) THEN "APPLIED" ELSE "VALIDATED"]
         /\ UNCHANGED <<engagements, profiles>>
BY DEF ImportApply, Entered, Given, ParentOf, ClientOf, ImportedRow, ImportedClients, ImportedContacts,
       ImportedRoutes

(* The next rows in order become the next clients and contacts.             *)
LEMMA NextBatch ==
  ASSUME DirectoryInv, RunsInv, NEW r \in 1..Len(runs), runs[r].status = "VALIDATED"
  PROVE  /\ FileFits(runs[r].file) /\ runs[r].file \in Seq(FileRows)
         /\ runs[r].mapped \in Seq([client : Nat, contact : Nat])
         /\ Len(runs[r].mapped) \in Nat /\ Len(runs[r].mapped) <= Len(runs[r].file)
         /\ DOMAIN Batch(r) = 1..Len(Batch(r)) /\ Len(Batch(r)) \in Nat
         /\ Len(runs[r].mapped) + Len(Batch(r)) <= Len(runs[r].file)
         /\ \A n \in 1..Len(Batch(r)) :
              /\ Batch(r)[n] = ImportOrder(runs[r].file)[Len(runs[r].mapped) + n]
              /\ Batch(r)[n] \in 1..Len(runs[r].file) /\ ImportedRow(r, n) \in FileRows
         /\ Given(r) \in Seq([client : Nat, contact : Nat])
         /\ Len(Given(r)) = Len(runs[r].mapped) + Len(Batch(r))
         /\ \A n \in 1..Len(runs[r].mapped) : Given(r)[n] = runs[r].mapped[n]
         /\ \A n \in 1..Len(Batch(r)) :
              /\ Len(runs[r].mapped) + n \in 1..Len(Given(r))
              /\ Given(r)[Len(runs[r].mapped) + n] = [client |-> Len(clients) + n, contact |-> Len(contacts) + n]
<1> DEFINE f == runs[r].file
           mapped == runs[r].mapped
           order == ImportOrder(f)
           L == Len(f)
           D == Len(mapped)
           last == IF D + BatchSize < L THEN D + BatchSize ELSE L
           batch == Batch(r)
           B == Len(batch)
<1>1. /\ FileFits(f) /\ mapped \in Seq([client : Nat, contact : Nat]) /\ D <= L /\ f \in Seq(FileRows)
      /\ D \in Nat
  <2>1. runs[r] \in RunRows
    BY DEF RunsInv
  <2>2. f \in Files /\ mapped \in Seq([client : Nat, contact : Nat])
    BY <2>1 DEF RunRows
  <2>3. FileFits(f) /\ D <= L
    BY DEF RunsInv
  <2> QED  BY <2>2, <2>3, RowsAssumption
<1>2. order \in [1..L -> 1..L] /\ L \in Nat
  BY <1>1, ImportOrdered
<1>3. Len(order) = L /\ order \in Seq(1..L)
  BY <1>2
<1>4. batch = SubSeq(order, D + 1, last)
  BY <1>3 DEF Batch
<1>5. f \in [1..L -> FileRows]
  BY <1>1
<1>6. BatchSize \in Nat \ {0}
  BY ClientsAssumption
<1> HIDE DEF f, mapped, order, L, D
<1>7. last \in Nat /\ D <= last /\ last <= L
  BY <1>1, <1>2, <1>6
<1> HIDE DEF last, batch
<1>8. /\ \A i \in (D + 1)..last : i \in 1..L
      /\ D + 1 \in Int /\ last \in Int /\ last - (D + 1) + 1 = last - D
      /\ (IF D + 1 <= last THEN last - (D + 1) + 1 ELSE 0) = last - D
      /\ last - D \in Nat /\ D + (last - D) <= L
      /\ \A n \in 1..(last - D) : (D + 1) + n - 1 = D + n /\ D + n \in 1..L
  BY <1>1, <1>2, <1>7
<1>9. /\ batch \in Seq(1..L) /\ B = last - D
      /\ \A n \in 1..(last - D) : batch[n] = order[D + n]
  <2>1. \A i \in (D + 1)..last : order[i] \in 1..L
    BY <1>2, <1>8
  <2>2. /\ SubSeq(order, D + 1, last) \in Seq(1..L)
        /\ Len(SubSeq(order, D + 1, last)) = IF D + 1 <= last THEN last - (D + 1) + 1 ELSE 0
        /\ \A i \in 1..last - (D + 1) + 1 : SubSeq(order, D + 1, last)[i] = order[D + 1 + i - 1]
    BY <1>8, <2>1, SubSeqProperties
  <2> QED  BY <1>4, <1>8, <2>2
<1>10. DOMAIN batch = 1..B /\ B \in Nat
  BY <1>9
<1>11. D + B <= L
  BY <1>8, <1>9
<1>12. \A n \in 1..B : batch[n] = order[D + n] /\ batch[n] \in 1..L /\ f[batch[n]] \in FileRows
  BY <1>2, <1>5, <1>8, <1>9
<1> HIDE DEF B
<1> DEFINE new == [n \in 1..B |-> [client |-> Len(clients) + n, contact |-> Len(contacts) + n]]
<1>13. new \in Seq([client : Nat, contact : Nat]) /\ Len(new) = B
  <2>1. Len(clients) \in Nat /\ Len(contacts) \in Nat
    BY DEF DirectoryInv, DirectoryRows
  <2>2. \A n \in 1..B : new[n] \in [client : Nat, contact : Nat]
    BY <1>10, <2>1
  <2> QED  BY <1>10, <2>2
<1>14. Given(r) = mapped \o new
  BY <1>10 DEF Given, Entered, mapped, batch
<1>15. \A n \in 1..B : new[n] = [client |-> Len(clients) + n, contact |-> Len(contacts) + n]
  OBVIOUS
<1> HIDE DEF new
<1>16. /\ Given(r) \in Seq([client : Nat, contact : Nat]) /\ Len(Given(r)) = D + B
       /\ \A i \in 1..(D + B) : Given(r)[i] = IF i <= D THEN mapped[i] ELSE new[i - D]
  <2> DEFINE T == [client : Nat, contact : Nat]
  <2>1. mapped \in Seq(T) /\ new \in Seq(T)
    BY <1>1, <1>13
  <2> HIDE DEF T
  <2>2. /\ (mapped \o new) \in Seq(T) /\ Len(mapped \o new) = Len(mapped) + Len(new)
        /\ \A i \in 1..(Len(mapped) + Len(new)) :
             (mapped \o new)[i] = IF i <= Len(mapped) THEN mapped[i] ELSE new[i - Len(mapped)]
    BY <2>1, ConcatProperties
  <2> QED  BY <1>13, <1>14, <2>2 DEF D, T
<1>17. /\ \A n \in 1..D : n \in 1..(D + B) /\ n <= D
       /\ \A n \in 1..B : D + n \in 1..(D + B) /\ ~(D + n <= D) /\ (D + n) - D = n
  BY <1>1, <1>10
<1>18. /\ \A n \in 1..D : Given(r)[n] = mapped[n]
       /\ \A n \in 1..B : D + n \in 1..Len(Given(r)) /\ Given(r)[D + n] = new[n]
  BY <1>16, <1>17
<1> QED  BY <1>1, <1>10, <1>11, <1>12, <1>15, <1>16, <1>18 DEF f, mapped, order, L, D, batch, B, ImportedRow

(* The row above one of the batch was entered before it.                    *)
LEMMA ParentIsThere ==
  ASSUME DirectoryInv, RunsInv, NEW r \in 1..Len(runs), runs[r].status = "VALIDATED",
         NEW n \in 1..Len(Batch(r))
  PROVE  /\ ParentOf(r, Batch(r)[n]) \in 0..(Len(clients) + n - 1)
         /\ ParentOf(r, Batch(r)[n]) = NoClient <=> ImportedRow(r, n).parent = NoRef
         /\ (ImportedRow(r, n).kind = "SUBSIDIARY") <=> (ParentOf(r, Batch(r)[n]) # NoClient)
<1> DEFINE f == runs[r].file
           mapped == runs[r].mapped
           order == ImportOrder(f)
           D == Len(mapped)
           B == Len(Batch(r))
           N == Len(clients)
           given == Given(r)
           i == Batch(r)[n]
<1>1. /\ FileFits(f) /\ D \in Nat /\ B \in Nat /\ D + B <= Len(f)
      /\ i = order[D + n] /\ i \in 1..Len(f) /\ ImportedRow(r, n) = f[i]
      /\ given \in Seq([client : Nat, contact : Nat]) /\ Len(given) = D + B
      /\ \A m \in 1..D : given[m] = mapped[m]
      /\ \A m \in 1..B : given[D + m] = [client |-> N + m, contact |-> Len(contacts) + m]
  BY NextBatch DEF ImportedRow
<1>2. /\ order \in [1..Len(f) -> 1..Len(f)] /\ Rows(f) = 1..Len(f) /\ Len(f) \in Nat
      /\ \A j \in 1..Len(f) : \E m \in 1..Len(f) : order[m] = j
      /\ \A l, m \in 1..Len(f) : ParentRow(f, order[l]) = order[m] => m < l
  BY <1>1, ImportOrdered
<1>3. \A m \in 1..D : mapped[m].client \in 1..N
  BY DEF RunsInv
<1>4. N \in Nat
  BY DEF DirectoryInv, DirectoryRows
<1>5. ParentOf(r, i) = IF f[i].parent = NoRef THEN NoClient ELSE ClientOf(f, given, ParentRow(f, i))
  BY DEF ParentOf
<1>6. (f[i].kind = "SUBSIDIARY" <=> f[i].parent # NoRef) /\ (f[i].parent # NoRef => ParentRow(f, i) # NoClient)
  BY <1>1, <1>2 DEF FileFits, RowFits
<1> HIDE DEF f, mapped, order, D, B, N, given, i
<1>a. /\ D \in Nat /\ B \in Nat /\ N \in Nat /\ Len(f) \in Nat /\ D + B <= Len(f)
      /\ Len(given) = D + B
  BY <1>1, <1>2, <1>4
<1>7. ASSUME f[i].parent # NoRef
      PROVE  ParentOf(r, i) \in 1..(N + n - 1)
  <2>1. ParentRow(f, i) \in 1..Len(f)
    BY <1>2, <1>6, <1>7, ParentRowType
  <2>2. PICK m \in 1..Len(f) : order[m] = ParentRow(f, i)
    BY <1>2, <2>1
  <2>3. n \in 1..B
    BY DEF B
  <2>4. D + n \in 1..Len(f)
    BY <1>a, <2>3
  <2>5. m < D + n
    BY <1>1, <1>2, <2>2, <2>4
  <2>6. m \in 1..Len(given)
    BY <1>a, <2>2, <2>3, <2>5
  <2>7. ClientOf(f, given, order[m]) = given[m].client
    <3>1. Len(given) <= Len(f)
      BY <1>a
    <3>2. FileFits(f) /\ given \in Seq([client : Nat, contact : Nat])
      BY <1>1
    <3> QED  BY <2>6, <3>1, <3>2, ClientOfRow DEF order
  <2>8. ParentOf(r, i) = given[m].client
    BY <1>5, <1>7, <2>2, <2>7
  <2>9. CASE m <= D
    <3>1. m \in 1..D
      BY <1>1, <1>2, <2>2, <2>9
    <3>2. given[m].client \in 1..N
      BY <1>1, <1>3, <3>1
    <3>3. \A x \in 1..N : x \in 1..(N + n - 1)
      BY <1>1, <1>4, <2>3
    <3> QED  BY <2>8, <3>2, <3>3
  <2>10. CASE ~(m <= D)
    <3>1. m - D \in 1..B /\ D + (m - D) = m /\ N + (m - D) \in 1..(N + n - 1)
      BY <1>a, <2>2, <2>3, <2>5, <2>10
    <3>2. given[m].client = N + (m - D)
      <4>1. given[D + (m - D)] = [client |-> N + (m - D), contact |-> Len(contacts) + (m - D)]
        BY <1>1, <3>1
      <4> QED  BY <3>1, <4>1
    <3> QED  BY <2>8, <3>1, <3>2
  <2> QED  BY <2>9, <2>10
<1>8. /\ ParentOf(r, i) \in 0..(N + n - 1)
      /\ ParentOf(r, i) = NoClient <=> f[i].parent = NoRef
  <2>1. n \in 1..B
    BY DEF B
  <2>2. /\ 0 \in 0..(N + n - 1)
        /\ \A x \in 1..(N + n - 1) : x \in 0..(N + n - 1) /\ x # 0
    BY <1>1, <1>4, <2>1
  <2> QED  BY <1>5, <1>7, <2>2 DEF NoClient
<1> QED  BY <1>1, <1>6, <1>8 DEF i, N

LEMMA ImportRecorded ==
  ASSUME DirectoryInv, RunsInv, NEW r \in 1..Len(runs), ImportApply(r)
  PROVE  /\ runs' \in Seq(RunRows) /\ Len(runs') = Len(runs)
         /\ \A s \in 1..Len(runs) : s # r => runs'[s] = runs[s]
         /\ runs'[r].file = runs[r].file /\ runs'[r].mapped = Given(r)
         /\ runs'[r].status = IF Len(Given(r)) = Len(runs[r].file) THEN "APPLIED" ELSE "VALIDATED"
         /\ \A q : AsFiled(q) => AsFiled(q)'
<1> DEFINE row == [runs[r] EXCEPT !.mapped = Given(r),
                     !.status = IF Len(Given(r)) = Len(runs[r].file) THEN "APPLIED" ELSE "VALIDATED"]
<1>1. runs \in Seq(RunRows) /\ runs[r] \in RunRows /\ DOMAIN runs = 1..Len(runs)
  BY DEF RunsInv
<1>2. /\ runs[r].status = "VALIDATED"
      /\ runs' = [runs EXCEPT ![r].mapped = Given(r),
              ![r].status = IF Len(Given(r)) = Len(runs[r].file) THEN "APPLIED" ELSE "VALIDATED"]
  BY ImportApplied
<1>3. Given(r) \in Seq([client : Nat, contact : Nat])
  BY <1>2, NextBatch
<1>4. /\ row \in RunRows /\ row.file = runs[r].file /\ row.mapped = Given(r)
      /\ row.status = IF Len(Given(r)) = Len(runs[r].file) THEN "APPLIED" ELSE "VALIDATED"
  BY <1>1, <1>3 DEF RunRows
<1>5. runs' = [runs EXCEPT ![r] = row]
  BY <1>1, <1>2
<1> HIDE DEF row
<1>6. /\ runs' \in Seq(RunRows) /\ Len(runs') = Len(runs)
      /\ \A s \in 1..Len(runs) : runs'[s] = IF s = r THEN row ELSE runs[s]
  BY <1>1, <1>4, <1>5, ExceptSeq
<1>7. DOMAIN runs' = 1..Len(runs)
  BY <1>6
<1>8. ASSUME NEW q, AsFiled(q) PROVE AsFiled(q)'
  <2>1. PICK run \in 1..Len(runs) : \E n \in DOMAIN runs[run].mapped :
          /\ runs[run].mapped[n].contact = q.contact
          /\ q.purpose \in runs[run].file[ImportOrder(runs[run].file)[n]].purposes
    BY <1>1, <1>8 DEF AsFiled
  <2>2. CASE run # r
    <3>1. runs'[run] = runs[run] /\ run \in DOMAIN runs'
      BY <1>6, <1>7, <2>2
    <3> QED  BY <2>1, <3>1 DEF AsFiled
  <2>3. CASE run = r
    <3>1. PICK n \in DOMAIN runs[r].mapped :
            /\ runs[r].mapped[n].contact = q.contact
            /\ q.purpose \in runs[r].file[ImportOrder(runs[r].file)[n]].purposes
      BY <2>1, <2>3
    <3>2. /\ runs[r].mapped \in Seq([client : Nat, contact : Nat])
          /\ Len(Given(r)) = Len(runs[r].mapped) + Len(Batch(r))
          /\ Len(runs[r].mapped) \in Nat /\ Len(Batch(r)) \in Nat
          /\ \A m \in 1..Len(runs[r].mapped) : Given(r)[m] = runs[r].mapped[m]
      BY <1>2, NextBatch
    <3>3. DOMAIN runs[r].mapped = 1..Len(runs[r].mapped) /\ DOMAIN Given(r) = 1..Len(Given(r))
      <4>1. DOMAIN runs[r].mapped = 1..Len(runs[r].mapped)
        BY <3>2
      <4>2. DOMAIN Given(r) = 1..Len(Given(r))
        BY <1>3
      <4> QED  BY <4>1, <4>2
    <3>4. n \in DOMAIN Given(r) /\ Given(r)[n] = runs[r].mapped[n]
      BY <3>1, <3>2, <3>3
    <3>5. r \in DOMAIN runs' /\ runs'[r].mapped = Given(r) /\ runs'[r].file = runs[r].file
      BY <1>4, <1>6, <1>7
    <3> QED  BY <3>1, <3>4, <3>5 DEF AsFiled
  <2> QED  BY <2>2, <2>3
<1> QED  BY <1>4, <1>6, <1>8

(* What a step of the import adds to the directory.                         *)
LEMMA ImportedClientsFit ==
  ASSUME DirectoryInv, RunsInv, NEW r \in 1..Len(runs), ImportApply(r)
  PROVE  /\ NewClients(ImportedClients(r)) /\ Len(ImportedClients(r)) = Len(Batch(r))
         /\ \A n \in 1..Len(Batch(r)) : ImportedClients(r)[n].code = ImportedRow(r, n).code
<1> DEFINE B == Len(Batch(r))
           cs == ImportedClients(r)
           up == [n \in 1..B |-> ParentOf(r, Batch(r)[n])]
<1>1. runs[r].status = "VALIDATED"
  BY ImportApplied
<1>2. DOMAIN Batch(r) = 1..B /\ B \in Nat /\ \A n \in 1..B : ImportedRow(r, n) \in FileRows
  BY <1>1, NextBatch
<1>3. Len(clients) \in Nat /\ DOMAIN clients = 1..Len(clients)
  BY DEF DirectoryInv, DirectoryRows
<1>4. \A n \in 1..B : /\ up[n] \in 0..(Len(clients) + n - 1)
                      /\ (ImportedRow(r, n).kind = "SUBSIDIARY") <=> (up[n] # NoClient)
  BY <1>1, ParentIsThere
<1>5. \A n \in 1..B : up[n] \in 1..Len(clients) => clients[up[n]].active
  BY <1>2, <1>3, ImportApplied
<1>6. cs = [n \in 1..B |-> Client(ImportedRow(r, n).code, ImportedRow(r, n).name, ImportedRow(r, n).kind, up[n])]
  BY <1>2 DEF ImportedClients
<1> HIDE DEF cs, up, B
<1>7. ASSUME NEW n \in 1..B
      PROVE  /\ cs[n] \in ClientRows /\ cs[n].code = ImportedRow(r, n).code /\ cs[n].parent = up[n]
             /\ cs[n].kind = ImportedRow(r, n).kind /\ cs[n].active
  <2>1. up[n] \in Nat
    <3>1. \A x \in 0..(Len(clients) + n - 1) : x \in Nat
      BY <1>2, <1>3
    <3> QED  BY <1>4, <3>1
  <2>2. ImportedRow(r, n) \in FileRows
    BY <1>2
  <2> QED  BY <1>6, <2>1, <2>2 DEF Client, ClientRows, FileRows
<1>8. cs \in Seq(ClientRows) /\ Len(cs) = B
  <2>1. DOMAIN cs = 1..B /\ cs = [n \in 1..B |-> cs[n]]
    BY <1>6
  <2>2. cs \in [1..B -> ClientRows]
    BY <1>7, <2>1
  <2> QED  BY <1>2, <2>2
<1>9. NewClients(cs)
  BY <1>4, <1>5, <1>7, <1>8 DEF NewClients
<1> QED  BY <1>7, <1>8, <1>9 DEF cs, B

LEMMA ImportedContactsFit ==
  ASSUME DirectoryInv, RunsInv, NEW r \in 1..Len(runs), ImportApply(r),
         Len(clients') = Len(clients) + Len(Batch(r))
  PROVE  NewContacts(ImportedContacts(r), ImportedRoutes(r))
<1> DEFINE B == Len(Batch(r))
           D == Len(runs[r].mapped)
           N == Len(clients)
           K == Len(contacts)
           ks == ImportedContacts(r)
           rs == ImportedRoutes(r)
<1>1. runs[r].status = "VALIDATED"
  BY ImportApplied
<1>2. /\ DOMAIN Batch(r) = 1..B /\ B \in Nat /\ \A n \in 1..B : ImportedRow(r, n) \in FileRows
      /\ \A n \in 1..B : /\ D + n \in DOMAIN Given(r)
                         /\ Given(r)[D + n] = [client |-> N + n, contact |-> K + n]
                         /\ Batch(r)[n] = ImportOrder(runs[r].file)[D + n]
  <2>1. Given(r) \in Seq([client : Nat, contact : Nat])
    BY <1>1, NextBatch
  <2>2. DOMAIN Given(r) = 1..Len(Given(r))
    BY <2>1
  <2>3. /\ DOMAIN Batch(r) = 1..B /\ B \in Nat
        /\ \A n \in 1..B : ImportedRow(r, n) \in FileRows /\ Batch(r)[n] = ImportOrder(runs[r].file)[D + n]
    BY <1>1, NextBatch
  <2>4. \A n \in 1..B : D + n \in 1..Len(Given(r)) /\ Given(r)[D + n] = [client |-> N + n, contact |-> K + n]
    BY <1>1, NextBatch
  <2> HIDE DEF B, D, N, K
  <2> QED  BY <2>2, <2>3, <2>4
<1>3. /\ N \in Nat /\ K \in Nat
      /\ \A k \in 1..K : contacts[k].client \in 1..N
      /\ \A q \in routes : q.contact \in 1..K /\ contacts[q.contact].client = q.client
  BY DEF DirectoryInv, DirectoryRows
<1>4. ks = [n \in 1..B |-> Contact(N + n, ImportedRow(r, n).email, ImportedRow(r, n).role, TRUE)]
  BY <1>2 DEF ImportedContacts
<1>5. \A q \in rs : \E n \in 1..B : \E purpose \in RowPurposes(ImportedRow(r, n)) :
        q = [client |-> N + n, purpose |-> purpose, contact |-> K + n, primary |-> TRUE]
  BY <1>2 DEF ImportedRoutes, PrimaryRoutes
<1>6. /\ runs'[r].mapped = Given(r) /\ runs'[r].file = runs[r].file /\ r \in DOMAIN runs'
  <2>1. runs' \in Seq(RunRows) /\ Len(runs') = Len(runs)
    BY ImportRecorded
  <2> QED  BY <2>1, ImportRecorded
<1> HIDE DEF ks, rs, B, D, N, K
<1>7. ASSUME NEW n \in 1..B
      PROVE  /\ ks[n] \in ContactRows /\ ks[n].client = N + n /\ ks[n].active /\ ks[n].primary
             /\ ks[n].role = ImportedRow(r, n).role
  <2>1. N + n \in Nat
    BY <1>2, <1>3
  <2>2. ImportedRow(r, n) \in FileRows
    BY <1>2
  <2> QED  BY <1>4, <2>1, <2>2 DEF Contact, ContactRows, FileRows
<1>8. ks \in Seq(ContactRows) /\ Len(ks) = B
  <2>1. DOMAIN ks = 1..B /\ ks = [n \in 1..B |-> ks[n]]
    BY <1>4
  <2>2. ks \in [1..B -> ContactRows]
    BY <1>7, <2>1
  <2> QED  BY <1>2, <2>2
<1>9. /\ \A n \in 1..B : N + n \in 1..(N + B) /\ N + n \in Nat /\ K + n \in Nat /\ \A c \in 1..N : c # N + n
      /\ \A n, m \in 1..B : N + n = N + m => n = m
  BY <1>2, <1>3
<1>10. \A n \in 1..B :
         /\ ks[n].client \in 1..Len(clients')
         /\ \A k \in 1..K : contacts[k].client # ks[n].client
         /\ \A m \in 1..B : ks[m].client = ks[n].client => m = n
  <2>1. Len(clients') = N + B
    BY DEF N, B
  <2> SUFFICES ASSUME NEW n \in 1..B
               PROVE  /\ ks[n].client \in 1..Len(clients')
                      /\ \A k \in 1..K : contacts[k].client # ks[n].client
                      /\ \A m \in 1..B : ks[m].client = ks[n].client => m = n
    OBVIOUS
  <2>2. ks[n].client = N + n /\ \A m \in 1..B : ks[m].client = N + m
    BY <1>7
  <2>3. N + n \in 1..(N + B) /\ (\A c \in 1..N : c # N + n) /\ \A m \in 1..B : N + m = N + n => m = n
    BY <1>9
  <2> QED  BY <1>3, <2>1, <2>2, <2>3
<1>11. ASSUME NEW q \in rs
       PROVE  /\ q \in RouteRows /\ q.primary
              /\ \E n \in 1..B :
                   /\ q.contact = K + n /\ q.client = ks[n].client
                   /\ ks[n].role = RoleOf(q.purpose) \/ AsFiled(q)'
              /\ \A s \in routes : s.client # q.client
              /\ \A s \in rs : s.client = q.client /\ s.purpose = q.purpose => s = q
  <2>0. PICK n \in 1..B : \E purpose \in RowPurposes(ImportedRow(r, n)) :
          q = [client |-> N + n, purpose |-> purpose, contact |-> K + n, primary |-> TRUE]
    BY <1>5, <1>11
  <2>1. PICK purpose \in RowPurposes(ImportedRow(r, n)) :
          q = [client |-> N + n, purpose |-> purpose, contact |-> K + n, primary |-> TRUE]
    BY <2>0
  <2>2. q.primary /\ q.contact = K + n /\ q.client = N + n /\ q.purpose = purpose
    BY <2>1
  <2>3. purpose \in Purposes
    BY <1>2, <2>1 DEF RowPurposes, PurposesOf, FileRows
  <2>4. q \in RouteRows
    BY <1>9, <2>1, <2>3 DEF RouteRows
  <2>5. ks[n].role = RoleOf(q.purpose) \/ AsFiled(q)'
    <3>1. CASE ImportedRow(r, n).purposes = {}
      BY <1>7, <2>1, <2>2, <3>1 DEF RowPurposes, PurposesOf
    <3>2. CASE ImportedRow(r, n).purposes # {}
      <4>1. q.purpose \in runs[r].file[ImportOrder(runs[r].file)[D + n]].purposes
        BY <1>2, <2>1, <2>2, <3>2 DEF RowPurposes, ImportedRow
      <4>2. D + n \in DOMAIN Given(r) /\ Given(r)[D + n].contact = q.contact
        <5>1. D + n \in DOMAIN Given(r) /\ Given(r)[D + n] = [client |-> N + n, contact |-> K + n]
          BY <1>2
        <5> QED  BY <2>2, <5>1
      <4> QED  BY <1>6, <4>1, <4>2 DEF AsFiled
    <3> QED  BY <3>1, <3>2
  <2>6. \A s \in routes : s.client # q.client
    BY <1>3, <1>9, <2>2
  <2>7. ASSUME NEW s \in rs, s.client = q.client, s.purpose = q.purpose PROVE s = q
    <3>1. PICK m \in 1..B : s = [client |-> N + m, purpose |-> s.purpose, contact |-> K + m, primary |-> TRUE]
      BY <1>5
    <3>2. N + m = N + n
      BY <2>2, <2>7, <3>1
    <3>3. m = n
      BY <1>9, <3>2
    <3> QED  BY <2>1, <2>2, <2>7, <3>1, <3>3
  <2> QED  BY <1>7, <2>2, <2>4, <2>5, <2>6, <2>7
<1> QED  BY <1>7, <1>8, <1>10, <1>11 DEF NewContacts, ks, rs, K

LEMMA ImportApplying ==
  ASSUME DirectoryInv, RunsInv, NEW r \in 1..Len(runs), ImportApply(r)
  PROVE  /\ DirectoryInv' /\ DirectoryGrows
         /\ Len(clients') = Len(clients) + Len(Batch(r))
         /\ \A c \in 1..Len(clients) : clients'[c] = clients[c]
         /\ \A n \in 1..Len(Batch(r)) : clients'[Len(clients) + n].code = ImportedRow(r, n).code
<1> DEFINE B == Len(Batch(r))
           N == Len(clients)
           cs == ImportedClients(r)
           ks == ImportedContacts(r)
<1>1. NewClients(cs) /\ Len(cs) = B /\ \A n \in 1..B : cs[n].code = ImportedRow(r, n).code
  BY ImportedClientsFit
<1>2. /\ clients' = clients \o cs /\ contacts' = contacts \o ks /\ routes' = routes \cup ImportedRoutes(r)
      /\ affiliations' = affiliations \cup
              {<<N + n, ParentOf(r, Batch(r)[n])>> : n \in {m \in DOMAIN Batch(r) : ImportedRow(r, m).parent # NoRef}}
      /\ runs[r].status = "VALIDATED"
  BY ImportApplied
<1>3. DirectoryRows /\ Grounded /\ KindsAndParents
  BY DEF DirectoryInv
<1>4. /\ Len(clients') = N + B /\ N \in Nat /\ B \in Nat
      /\ \A c \in 1..N : clients'[c] = clients[c]
      /\ \A n \in 1..B : clients'[N + n] = cs[n]
  <2> HIDE DEF cs
  <2> QED  BY <1>1, <1>2, <1>3, ClientsAdded
<1>5. NewContacts(ks, ImportedRoutes(r))
  BY <1>4, ImportedContactsFit
<1>6. \A q \in routes : AsFiled(q) => AsFiled(q)'
  BY ImportRecorded
<1>7. affiliations' \subseteq (1..Len(clients')) \X (1..Len(clients'))
  <2>1. affiliations \subseteq (1..N) \X (1..N)
    BY DEF DirectoryInv
  <2>2. \A c \in 1..N : c \in 1..Len(clients')
    BY <1>4
  <2>3. ASSUME NEW n \in DOMAIN Batch(r), ImportedRow(r, n).parent # NoRef
        PROVE  N + n \in 1..Len(clients') /\ ParentOf(r, Batch(r)[n]) \in 1..Len(clients')
    <3>1. n \in 1..B
      BY <1>2, <2>3, NextBatch
    <3>2. ParentOf(r, Batch(r)[n]) \in 0..(N + n - 1) /\ ParentOf(r, Batch(r)[n]) # NoClient
      BY <1>2, <2>3, <3>1, ParentIsThere
    <3>3. \A x \in 0..(N + n - 1) : x # NoClient => x \in 1..Len(clients')
      BY <1>4, <3>1 DEF NoClient
    <3>4. N + n \in 1..Len(clients')
      BY <1>4, <3>1
    <3> QED  BY <3>2, <3>3, <3>4
  <2> QED  BY <1>2, <2>1, <2>2, <2>3
<1>8. affiliations \subseteq affiliations'
  BY <1>2
<1>9. DirectoryInv' /\ DirectoryGrows
  <2> HIDE DEF cs, ks
  <2> QED  BY <1>1, <1>2, <1>5, <1>6, <1>7, <1>8, DirectoryAdded
<1> QED  BY <1>1, <1>4, <1>9

(* What was mapped stays mapped to what it was mapped to.                   *)
LEMMA StillMapped ==
  ASSUME DirectoryGrows, NEW f, NEW mapped, Mapped(f, mapped),
         \A n \in DOMAIN mapped : mapped[n].client \in 1..Len(clients)
  PROVE  Mapped(f, mapped)'
<1>1. affiliations \subseteq affiliations'
  BY DEF DirectoryGrows
<1>2. \A n \in DOMAIN mapped : clients'[mapped[n].client].code = clients[mapped[n].client].code
  BY DEF DirectoryGrows
<1> QED  BY <1>1, <1>2 DEF Mapped

(* A batch is mapped to the clients it becomes.                             *)
LEMMA BatchMapped ==
  ASSUME DirectoryInv, RunsInv, NEW r \in 1..Len(runs), ImportApply(r),
         NEW f, f = runs[r].file, NEW given, given = Given(r)
  PROVE  Mapped(f, given)' /\ \A n \in 1..Len(given) : given[n].client \in 1..Len(clients')
<1> DEFINE mapped == runs[r].mapped
           order == ImportOrder(f)
           D == Len(mapped)
           B == Len(Batch(r))
           N == Len(clients)
           T == [client : Nat, contact : Nat]
<1>1. /\ FileFits(f) /\ D \in Nat /\ B \in Nat /\ DOMAIN Batch(r) = 1..B /\ D + B <= Len(f) /\ D <= Len(f)
      /\ \A n \in 1..B : Batch(r)[n] = order[D + n] /\ ImportedRow(r, n) = f[order[D + n]]
      /\ mapped \in Seq(T) /\ given \in Seq(T) /\ Len(given) = D + B
      /\ \A n \in 1..D : given[n] = mapped[n]
      /\ \A n \in 1..B : given[D + n] = [client |-> N + n, contact |-> Len(contacts) + n]
      /\ runs[r].status = "VALIDATED"
  BY ImportApplied, NextBatch DEF ImportedRow
<1>2. /\ order \in [1..Len(f) -> 1..Len(f)] /\ Rows(f) = 1..Len(f) /\ Len(f) \in Nat
      /\ \A j \in 1..Len(f) : \E m \in 1..Len(f) : order[m] = j
      /\ \A l, m \in 1..Len(f) : ParentRow(f, order[l]) = order[m] => m < l
  BY <1>1, ImportOrdered
<1>3. /\ \A n \in 1..D : mapped[n].client \in 1..N
      /\ Mapped(f, mapped) /\ DOMAIN mapped = 1..D
  <2>1. DOMAIN mapped = 1..D
    BY <1>1
  <2>2. \A n \in 1..Len(runs[r].mapped) : runs[r].mapped[n].client \in 1..Len(clients)
    BY DEF RunsInv
  <2>3. Mapped(runs[r].file, runs[r].mapped)
    BY DEF RunsInv
  <2> QED  BY <2>1, <2>2, <2>3
<1>4. /\ Len(clients') = N + B /\ N \in Nat
      /\ \A n \in 1..B : clients'[N + n].code = ImportedRow(r, n).code
      /\ \A c \in 1..N : clients'[c] = clients[c]
      /\ DirectoryGrows
  <2>1. N \in Nat
    BY DEF DirectoryInv, DirectoryRows
  <2> QED  BY <2>1, ImportApplying
<1>5. affiliations' = affiliations \cup
        {<<N + n, ParentOf(r, Batch(r)[n])>> : n \in {m \in DOMAIN Batch(r) : ImportedRow(r, m).parent # NoRef}}
  BY ImportApplied
<1>6. \A i : ParentOf(r, i) = IF f[i].parent = NoRef THEN NoClient ELSE ClientOf(f, given, ParentRow(f, i))
  BY DEF ParentOf
<1>7. \A i \in 1..Len(f) : f[i].parent # NoRef => ParentRow(f, i) # NoClient
  BY <1>1, <1>2 DEF FileFits, RowFits
<1>a. FileFits(f) /\ mapped \in Seq(T) /\ given \in Seq(T) /\ Len(mapped) <= Len(f) /\ Len(given) <= Len(f)
  BY <1>1
<1> HIDE DEF T
<1>8. \A m \in 1..Len(given) : ClientOf(f, given, order[m]) = given[m].client
  BY <1>a, ClientOfRow
<1>9. \A m \in 1..D : ClientOf(f, mapped, order[m]) = mapped[m].client
  BY <1>a, ClientOfRow
<1>10. DOMAIN given = 1..(D + B)
  BY <1>1
<1> HIDE DEF mapped, order, D, B, N
<1>11. /\ \A n \in 1..(D + B) : n \in 1..D \/ (n - D \in 1..B /\ n = D + (n - D))
       /\ \A n \in 1..D : n \in 1..(D + B) /\ n \in 1..Len(f)
       /\ \A n \in 1..(D + B) : n \in 1..Len(f)
       /\ \A n \in 1..B : N + n \in 1..(N + B)
       /\ \A n \in 1..N : n \in 1..(N + B)
  <2>1. D \in Nat /\ B \in Nat /\ N \in Nat /\ Len(f) \in Nat /\ D <= Len(f) /\ D + B <= Len(f)
    BY <1>1, <1>2, <1>4
  <2> QED  BY <2>1
<1>12. \A n \in 1..(D + B) : given[n].client \in 1..Len(clients')
  <2> SUFFICES ASSUME NEW n \in 1..(D + B) PROVE given[n].client \in 1..Len(clients')
    OBVIOUS
  <2>1. CASE n \in 1..D
    <3>1. given[n].client \in 1..N
      BY <1>1, <1>3, <2>1
    <3> QED  BY <1>4, <1>11, <3>1
  <2>2. CASE n - D \in 1..B /\ n = D + (n - D)
    <3>1. given[D + (n - D)].client = N + (n - D)
      <4>1. given[D + (n - D)] = [client |-> N + (n - D), contact |-> Len(contacts) + (n - D)]
        BY <1>1, <2>2
      <4> QED  BY <4>1
    <3>2. N + (n - D) \in 1..(N + B)
      BY <1>11, <2>2
    <3> QED  BY <1>4, <2>2, <3>1, <3>2
  <2> QED  BY <1>11, <2>1, <2>2
<1>13. ASSUME NEW n \in 1..(D + B)
       PROVE  /\ clients'[given[n].client].code = f[order[n]].code
              /\ f[order[n]].parent # NoRef =>
                   <<given[n].client, ClientOf(f, given, ParentRow(f, order[n]))>> \in affiliations'
  <2>1. CASE n \in 1..D
    <3>1. given[n] = mapped[n] /\ mapped[n].client \in 1..N
      BY <1>1, <1>3, <2>1
    <3>2. /\ clients[mapped[n].client].code = f[order[n]].code
          /\ f[order[n]].parent # NoRef =>
               <<mapped[n].client, ClientOf(f, mapped, ParentRow(f, order[n]))>> \in affiliations
      BY <1>3, <2>1 DEF Mapped, order
    <3>3. ASSUME f[order[n]].parent # NoRef
          PROVE  ClientOf(f, given, ParentRow(f, order[n])) = ClientOf(f, mapped, ParentRow(f, order[n]))
      <4>1. n \in 1..Len(f) /\ order[n] \in 1..Len(f)
        BY <1>2, <1>11, <2>1
      <4>2. ParentRow(f, order[n]) \in 1..Len(f)
        BY <1>2, <1>7, <3>3, <4>1, ParentRowType
      <4>3. PICK m \in 1..Len(f) : order[m] = ParentRow(f, order[n])
        BY <1>2, <4>2
      <4>4. m < n
        BY <1>2, <4>1, <4>3
      <4>5. m \in 1..D /\ m \in 1..Len(given)
        <5>1. m \in Nat /\ n \in Nat /\ D \in Nat /\ B \in Nat /\ Len(given) = D + B
          <6>1. D \in Nat /\ B \in Nat /\ Len(given) = D + B /\ Len(f) \in Nat
            BY <1>1, <1>2
          <6> QED  BY <4>3, <2>1, <6>1
        <5> QED  BY <2>1, <4>3, <4>4, <5>1
      <4> QED  BY <1>1, <1>8, <1>9, <4>3, <4>5
    <3> QED  BY <1>4, <1>5, <3>1, <3>2, <3>3
  <2>2. CASE n - D \in 1..B /\ n = D + (n - D)
    <3> DEFINE k == n - D
    <3>1. k \in 1..B /\ n = D + k
      BY <2>2
    <3> HIDE DEF k
    <3>2. given[n].client = N + k
      <4>1. given[D + k] = [client |-> N + k, contact |-> Len(contacts) + k]
        BY <1>1, <3>1
      <4> QED  BY <3>1, <4>1
    <3>3. clients'[N + k].code = f[order[n]].code /\ ImportedRow(r, k) = f[order[n]] /\ Batch(r)[k] = order[n]
      BY <1>1, <1>4, <3>1
    <3>4. ASSUME f[order[n]].parent # NoRef
          PROVE  <<N + k, ClientOf(f, given, ParentRow(f, order[n]))>> \in affiliations'
      <4>1. <<N + k, ParentOf(r, Batch(r)[k])>> \in affiliations'
        <5>1. k \in {m \in DOMAIN Batch(r) : ImportedRow(r, m).parent # NoRef}
          BY <1>1, <3>1, <3>3, <3>4
        <5> QED  BY <1>5, <5>1
      <4> QED  BY <1>6, <3>3, <3>4, <4>1
    <3> QED  BY <3>2, <3>3, <3>4
  <2> QED  BY <1>11, <2>1, <2>2
<1>14. Mapped(f, given)'
  <2>1. Mapped(f, given)' <=>
          \A n \in DOMAIN given :
            /\ clients'[given[n].client].code = f[order[n]].code
            /\ f[order[n]].parent # NoRef =>
                 <<given[n].client, ClientOf(f, given, ParentRow(f, order[n]))>> \in affiliations'
    BY DEF Mapped, order
  <2> QED  BY <1>10, <1>13, <2>1
<1> QED  BY <1>1, <1>12, <1>14

LEMMA ImportContinues ==
  ASSUME DirectoryInv, RunsInv, NEW r \in 1..Len(runs), ImportApply(r)
  PROVE  RunsInv'
<1> DEFINE f == runs[r].file
           mapped == runs[r].mapped
           D == Len(mapped)
           B == Len(Batch(r))
           N == Len(clients)
<1>1. /\ runs \in Seq(RunRows) /\ NoneTwice
      /\ \A s \in 1..Len(runs) :
           /\ runs[s].status # "REJECTED" => FileFits(runs[s].file) /\ Len(runs[s].mapped) <= Len(runs[s].file)
           /\ \A n \in 1..Len(runs[s].mapped) : runs[s].mapped[n].client \in 1..N
           /\ Progress(runs[s]) /\ Mapped(runs[s].file, runs[s].mapped)
  BY DEF RunsInv
<1>2. /\ runs' \in Seq(RunRows) /\ Len(runs') = Len(runs)
      /\ \A s \in 1..Len(runs) : s # r => runs'[s] = runs[s]
      /\ runs'[r].file = f /\ runs'[r].mapped = Given(r)
      /\ runs'[r].status = IF Len(Given(r)) = Len(f) THEN "APPLIED" ELSE "VALIDATED"
  BY ImportRecorded
<1>3. /\ FileFits(f) /\ D \in Nat /\ B \in Nat /\ D + B <= Len(f)
      /\ Given(r) \in Seq([client : Nat, contact : Nat]) /\ Len(Given(r)) = D + B
      /\ \A n \in 1..D : Given(r)[n] = mapped[n]
      /\ \A n \in 1..B : Given(r)[D + n] = [client |-> N + n, contact |-> Len(contacts) + n]
  BY ImportApplied, NextBatch
<1>4. DirectoryGrows /\ Len(clients') = N + B /\ N \in Nat
  BY ImportApplying DEF DirectoryInv, DirectoryRows
<1>5. \A g, h : g = f /\ h = Given(r) => Mapped(g, h)' /\ \A n \in 1..Len(h) : h[n].client \in 1..Len(clients')
  BY BatchMapped
<1>6. \A s \in 1..Len(runs) : DOMAIN runs[s].mapped = 1..Len(runs[s].mapped)
  BY <1>1 DEF RunRows
<1>7. DOMAIN Given(r) = 1..(D + B)
  BY <1>3
<1>8. Len(f) \in Nat
  BY <1>3, ImportOrdered
<1> HIDE DEF f, D, B, N, mapped
<1>9. \A n \in 1..(D + B) : \/ n \in 1..D /\ Given(r)[n] = mapped[n]
                            \/ n - D \in 1..B /\ Given(r)[n].client = N + (n - D)
  <2> SUFFICES ASSUME NEW n \in 1..(D + B)
               PROVE  \/ n \in 1..D /\ Given(r)[n] = mapped[n]
                      \/ n - D \in 1..B /\ Given(r)[n].client = N + (n - D)
    OBVIOUS
  <2>1. n \in 1..D \/ (n - D \in 1..B /\ n = D + (n - D))
    BY <1>3
  <2>2. CASE n - D \in 1..B /\ n = D + (n - D)
    <3>1. Given(r)[D + (n - D)] = [client |-> N + (n - D), contact |-> Len(contacts) + (n - D)]
      BY <1>3, <2>2
    <3> QED  BY <2>2, <3>1
  <2> QED  BY <1>3, <2>1, <2>2
<1>10. ASSUME NEW s \in 1..Len(runs')
       PROVE  /\ runs'[s].status # "REJECTED" =>
                   FileFits(runs'[s].file) /\ Len(runs'[s].mapped) <= Len(runs'[s].file)
              /\ \A n \in 1..Len(runs'[s].mapped) : runs'[s].mapped[n].client \in 1..Len(clients')
              /\ Progress(runs'[s]) /\ Mapped(runs[s].file, runs[s].mapped)'
  <2>1. CASE s = r
    <3>1. Mapped(runs[r].file, runs[r].mapped)' /\ \A n \in 1..Len(runs'[r].mapped) : runs'[r].mapped[n].client \in 1..Len(clients')
      <4>1. PICK g, h : g = f /\ h = Given(r)
        OBVIOUS
      <4>2. Mapped(g, h)' /\ \A n \in 1..Len(h) : h[n].client \in 1..Len(clients')
        BY <1>5, <4>1
      <4>3. g = runs'[r].file /\ h = runs'[r].mapped
        BY <1>2, <4>1
      <4> QED  BY <4>2, <4>3 DEF Mapped
    <3>2. Len(Given(r)) <= Len(f) /\ (Len(Given(r)) # Len(f) => Len(Given(r)) < Len(f))
      BY <1>3, <1>8
    <3>3. Progress(runs'[r])
      BY <1>2, <3>2 DEF Progress
    <3> QED  BY <1>2, <1>3, <2>1, <3>1, <3>2, <3>3
  <2>2. CASE s # r
    <3>1. s \in 1..Len(runs) /\ runs'[s] = runs[s]
      BY <1>2, <2>2
    <3>2. \A n \in 1..Len(runs[s].mapped) : runs[s].mapped[n].client \in 1..Len(clients')
      <4>1. \A x \in 1..N : x \in 1..Len(clients')
        BY <1>3, <1>4
      <4> QED  BY <1>1, <3>1, <4>1
    <3>3. Mapped(runs[s].file, runs[s].mapped)'
      <4>1. PICK g, h : g = runs[s].file /\ h = runs[s].mapped
        OBVIOUS
      <4>2. Mapped(g, h) /\ \A n \in DOMAIN h : h[n].client \in 1..Len(clients)
        BY <1>1, <1>6, <3>1, <4>1 DEF N
      <4>3. Mapped(g, h)'
        BY <1>4, <4>2, StillMapped
      <4>4. g = runs'[s].file /\ h = runs'[s].mapped
        BY <3>1, <4>1
      <4> QED  BY <4>3, <4>4 DEF Mapped
    <3> QED  BY <1>1, <3>1, <3>2, <3>3
  <2> QED  BY <2>1, <2>2
<1>11. NoneTwice'
  <2>1. DOMAIN runs' = 1..Len(runs) /\ DOMAIN runs = 1..Len(runs)
    BY <1>1, <1>2
  <2> SUFFICES ASSUME NEW s \in 1..Len(runs), NEW t \in 1..Len(runs), NEW n \in DOMAIN runs'[s].mapped,
                      NEW m \in DOMAIN runs'[t].mapped, runs'[s].mapped[n].client = runs'[t].mapped[m].client
               PROVE  s = t /\ n = m
    BY <2>1 DEF NoneTwice
  <2>2. \A q \in 1..Len(runs) : \A l \in DOMAIN runs[q].mapped : runs[q].mapped[l].client \in 1..N
    BY <1>1, <1>6
  <2>3. \A q, x \in 1..Len(runs) : \A l \in DOMAIN runs[q].mapped : \A k \in DOMAIN runs[x].mapped :
          runs[q].mapped[l].client = runs[x].mapped[k].client => q = x /\ l = k
    BY <1>1, <2>1 DEF NoneTwice
  <2>4. \A i \in 1..B : N + i \notin 1..N
    BY <1>3, <1>4
  <2>5. \A q \in 1..Len(runs) : \A l \in DOMAIN runs'[q].mapped :
          \/ l \in DOMAIN runs[q].mapped /\ runs'[q].mapped[l] = runs[q].mapped[l]
          \/ q = r /\ l - D \in 1..B /\ runs'[q].mapped[l].client = N + (l - D)
    <3> SUFFICES ASSUME NEW q \in 1..Len(runs), NEW l \in DOMAIN runs'[q].mapped
                 PROVE  \/ l \in DOMAIN runs[q].mapped /\ runs'[q].mapped[l] = runs[q].mapped[l]
                        \/ q = r /\ l - D \in 1..B /\ runs'[q].mapped[l].client = N + (l - D)
      OBVIOUS
    <3>1. CASE q = r
      <4>1. l \in 1..(D + B) /\ runs'[q].mapped = Given(r)
        BY <1>2, <1>7, <3>1
      <4>2. DOMAIN runs[q].mapped = 1..D /\ mapped = runs[q].mapped
        BY <1>6, <3>1 DEF D, mapped
      <4> QED  BY <1>9, <3>1, <4>1, <4>2
    <3>2. CASE q # r
      BY <1>2, <3>2
    <3> QED  BY <3>1, <3>2
  <2>6. CASE n \in DOMAIN runs[s].mapped /\ runs'[s].mapped[n] = runs[s].mapped[n]
    <3>1. runs'[s].mapped[n].client \in 1..N
      BY <2>2, <2>6
    <3>2. m \in DOMAIN runs[t].mapped /\ runs'[t].mapped[m] = runs[t].mapped[m]
      BY <2>4, <2>5, <3>1
    <3> QED  BY <2>3, <2>6, <3>2
  <2>7. CASE s = r /\ n - D \in 1..B /\ runs'[s].mapped[n].client = N + (n - D)
    <3>1. runs'[t].mapped[m].client \notin 1..N
      BY <2>4, <2>7
    <3>2. t = r /\ m - D \in 1..B /\ runs'[t].mapped[m].client = N + (m - D)
      BY <2>2, <2>5, <3>1
    <3>3. n \in 1..(D + B) /\ m \in 1..(D + B)
      BY <1>2, <1>7, <2>7, <3>2
    <3>4. N + (n - D) = N + (m - D)
      BY <2>7, <3>2
    <3>5. n = m
      BY <1>3, <1>4, <3>3, <3>4
    <3> QED  BY <2>7, <3>2, <3>5
  <2> QED  BY <2>5, <2>6, <2>7
<1> QED  BY <1>2, <1>10, <1>11 DEF RunsInv, Progress

(* A file is judged.                                                        *)
LEMMA ImportJudged ==
  ASSUME DirectoryInv, RunsInv, NEW f \in Files, ImportValidate(f)
  PROVE  DirectoryInv' /\ DirectoryGrows /\ RunsInv'
<1> DEFINE fits == \A i \in Rows(f) : RowFits(f, i) /\ f[i].code \notin UsedCodes
           run == [file |-> f, mapped |-> << >>, status |-> IF fits THEN "VALIDATED" ELSE "REJECTED"]
           R == Len(runs)
<1>1. /\ runs \in Seq(RunRows) /\ NoneTwice /\ R \in Nat /\ DOMAIN runs = 1..R
      /\ \A s \in 1..R :
           /\ runs[s].status # "REJECTED" => FileFits(runs[s].file) /\ Len(runs[s].mapped) <= Len(runs[s].file)
           /\ \A n \in 1..Len(runs[s].mapped) : runs[s].mapped[n].client \in 1..Len(clients)
           /\ Progress(runs[s]) /\ Mapped(runs[s].file, runs[s].mapped)
  BY DEF RunsInv
<1>2. runs' = Append(runs, run) /\ UNCHANGED <<clients, contacts, routes, affiliations, engagements>>
  BY DEF ImportValidate, directory
<1>3. f \in Seq(FileRows) /\ Len(f) \in Nat /\ (f # << >> => 0 < Len(f))
  <2>1. f \in Seq(FileRows)
    BY RowsAssumption
  <2> QED  BY <2>1, EmptySeq
<1>4. fits => FileFits(f)
  BY <1>3 DEF FileFits, IsFile
<1>5. /\ run \in RunRows /\ run.file = f /\ run.mapped = << >>
      /\ run.status # "REJECTED" => FileFits(f)
      /\ run.status \in {"VALIDATED", "REJECTED"}
  BY <1>4 DEF RunRows
<1> HIDE DEF run, fits, R
<1>6. /\ runs' \in Seq(RunRows) /\ Len(runs') = R + 1
      /\ \A s \in 1..R : runs'[s] = runs[s]
      /\ runs'[R + 1] = run
  BY <1>1, <1>2, <1>5, AppendProperties DEF R
<1>7. /\ DOMAIN runs' = 1..(R + 1) /\ \A s \in 1..(R + 1) : s \in 1..R \/ s = R + 1
      /\ \A s \in 1..R : s \in 1..(R + 1)
  BY <1>1, <1>6
<1>8. Len(<< >>) = 0 /\ DOMAIN << >> = {} /\ (\A n \in 1..0 : FALSE) /\ 0 <= Len(f)
  BY <1>3
<1>9. \A q : AsFiled(q) => AsFiled(q)'
  BY <1>1, <1>6, <1>7 DEF AsFiled
<1>10. DirectoryInv' /\ DirectoryGrows
  BY <1>2, <1>9, DirectoryStays
<1>11. ASSUME NEW s \in 1..(R + 1)
       PROVE  /\ runs'[s].status # "REJECTED" =>
                   FileFits(runs'[s].file) /\ Len(runs'[s].mapped) <= Len(runs'[s].file)
              /\ \A n \in 1..Len(runs'[s].mapped) : runs'[s].mapped[n].client \in 1..Len(clients')
              /\ Progress(runs[s])' /\ Mapped(runs[s].file, runs[s].mapped)'
  <2>1. CASE s \in 1..R
    <3>1. runs'[s] = runs[s]
      BY <1>6, <2>1
    <3>2. Progress(runs[s])'
      BY <1>1, <2>1, <3>1 DEF Progress
    <3>3. Mapped(runs[s].file, runs[s].mapped)'
      <4>1. PICK g, h : g = runs[s].file /\ h = runs[s].mapped
        OBVIOUS
      <4>2. Mapped(g, h)
        BY <1>1, <2>1, <4>1
      <4>3. Mapped(g, h)'
        BY <1>2, <4>2 DEF Mapped
      <4>4. g = runs'[s].file /\ h = runs'[s].mapped
        BY <3>1, <4>1
      <4> QED  BY <4>3, <4>4 DEF Mapped
    <3> QED  BY <1>1, <1>2, <2>1, <3>1, <3>2, <3>3
  <2>2. CASE s = R + 1
    <3>1. runs'[s] = run
      BY <1>6, <2>2
    <3>2. Progress(runs[s])'
      BY <1>3, <1>5, <1>8, <3>1 DEF Progress
    <3>3. Mapped(runs[s].file, runs[s].mapped)'
      BY <1>5, <1>8, <3>1 DEF Mapped
    <3> QED  BY <1>5, <1>8, <3>1, <3>2, <3>3
  <2> QED  BY <1>7, <2>1, <2>2
<1>12. NoneTwice'
  <2>1. \A q \in 1..(R + 1) : \A l \in DOMAIN runs'[q].mapped : q \in 1..R /\ runs'[q] = runs[q]
    BY <1>5, <1>6, <1>7, <1>8
  <2> QED  BY <1>1, <1>7, <2>1 DEF NoneTwice
<1> QED  BY <1>6, <1>10, <1>11, <1>12 DEF RunsInv

----
(* The people: an approver remains, as the last one cannot be deactivated   *)
(* and grades do not change below the profiles that need them.              *)
LEMMA ApproversFinite ==
  ASSUME PeopleInv
  PROVE  IsFiniteSet(Approvers) /\ DOMAIN profiles = 1..Len(profiles) /\ Len(profiles) \in Nat
<1>1. DOMAIN profiles = 1..Len(profiles) /\ Len(profiles) \in Nat
  BY DEF PeopleInv
<1>2. IsFiniteSet(1..Len(profiles))
  BY <1>1, FS_Interval
<1>3. Approvers \in SUBSET (1..Len(profiles))
  BY <1>1 DEF Approvers
<1> QED  BY <1>1, <1>2, <1>3, FS_Subset

LEMMA PeopleStep ==
  ASSUME DirectoryInv, PeopleInv, DirectoryNext
  PROVE  PeopleInv' /\ UNCHANGED <<clients, contacts, routes, affiliations, runs, engagements>>
<1>1. /\ staff \in Seq(Grades) /\ profiles \in Seq(ProfileRows) /\ ApproversRemain
      /\ DOMAIN profiles = 1..Len(profiles) /\ DOMAIN staff = 1..Len(staff)
      /\ Len(profiles) \in Nat /\ Len(staff) \in Nat
      /\ \A a \in 1..Len(profiles) :
           profiles[a].of \in IF profiles[a].persona = "CLIENT" THEN 1..Len(contacts) ELSE 1..Len(staff)
      /\ DOMAIN contacts = 1..Len(contacts) /\ Len(contacts) \in Nat
  BY DEF PeopleInv, DirectoryInv, DirectoryRows
<1>2. ASSUME NEW grade \in Grades, StaffCreate(grade)
      PROVE  PeopleInv' /\ UNCHANGED <<clients, contacts, routes, affiliations, runs, engagements>>
  <2>1. staff' = Append(staff, grade) /\ UNCHANGED <<clients, contacts, routes, affiliations, runs, engagements, profiles>>
    BY <1>2 DEF StaffCreate, clientVars, directory
  <2>2. staff' \in Seq(Grades) /\ Len(staff') = Len(staff) + 1 /\ \A s \in 1..Len(staff) : staff'[s] = staff[s]
    BY <1>1, <2>1, AppendProperties
  <2>3. \A s \in 1..Len(staff) : s \in 1..Len(staff')
    BY <1>1, <2>2
  <2>4. ApproversRemain'
    BY <1>1, <2>1, <2>2 DEF ApproversRemain, Approvers
  <2> QED  BY <1>1, <2>1, <2>2, <2>3, <2>4 DEF PeopleInv
<1>3. ASSUME NEW grade \in Grades, NEW s \in DOMAIN staff, StaffUpdate(s, grade)
      PROVE  PeopleInv' /\ UNCHANGED <<clients, contacts, routes, affiliations, runs, engagements>>
  <2>1. /\ staff' = [staff EXCEPT ![s] = grade] /\ GradeIsFree(s, grade)
        /\ UNCHANGED <<clients, contacts, routes, affiliations, runs, engagements, profiles>>
    BY <1>3 DEF StaffUpdate, clientVars, directory
  <2>2. /\ staff' \in Seq(Grades) /\ Len(staff') = Len(staff)
        /\ \A t \in 1..Len(staff) : staff'[t] = IF t = s THEN grade ELSE staff[t]
    BY <1>1, <2>1, ExceptSeq
  <2>3. ASSUME NEW a \in DOMAIN profiles, profiles[a].active, profiles[a].persona # "CLIENT"
        PROVE  GradeFits(profiles[a].persona, staff'[profiles[a].of])
    <3>1. profiles[a].of \in 1..Len(staff) /\ GradeFits(profiles[a].persona, staff[profiles[a].of])
      BY <1>1, <2>3 DEF ApproversRemain
    <3> QED  BY <2>1, <2>2, <2>3, <3>1 DEF GradeIsFree
  <2>4. ApproversRemain'
    BY <1>1, <2>1, <2>3 DEF ApproversRemain, Approvers
  <2> QED  BY <1>1, <2>1, <2>2, <2>4 DEF PeopleInv
<1>4. ASSUME NEW persona \in Personas,
             NEW x \in IF persona = "CLIENT" THEN DOMAIN contacts ELSE DOMAIN staff, ProfileAssign(persona, x)
      PROVE  PeopleInv' /\ UNCHANGED <<clients, contacts, routes, affiliations, runs, engagements>>
  <2> DEFINE row == Profile(persona, x)
             A == Len(profiles)
  <2>1. /\ profiles' = Append(profiles, row)
        /\ persona # "CLIENT" => GradeFits(persona, staff[x])
        /\ UNCHANGED <<clients, contacts, routes, affiliations, runs, engagements, staff>>
    BY <1>4 DEF ProfileAssign, directory
  <2>2. x \in IF persona = "CLIENT" THEN 1..Len(contacts) ELSE 1..Len(staff)
    BY <1>1
  <2>3. x \in Nat
    BY <1>1, <2>2
  <2>4. row \in ProfileRows /\ row.persona = persona /\ row.of = x /\ row.active
    BY <2>3 DEF Profile, ProfileRows
  <2> HIDE DEF row, A
  <2>5. /\ profiles' \in Seq(ProfileRows) /\ Len(profiles') = A + 1
        /\ \A a \in 1..A : profiles'[a] = profiles[a]
        /\ profiles'[A + 1] = row
    BY <1>1, <2>1, <2>4, AppendProperties DEF A
  <2>6. /\ DOMAIN profiles' = 1..(A + 1) /\ \A a \in 1..(A + 1) : a \in 1..A \/ a = A + 1
        /\ \A a \in 1..A : a \in 1..(A + 1)
    BY <1>1, <2>5 DEF A
  <2>7. Approvers' # {}
    <3>1. PICK a \in Approvers : TRUE
      BY <1>1 DEF ApproversRemain
    <3>2. a \in 1..A /\ profiles[a].persona = "APPROVER" /\ profiles[a].active
      BY <1>1, <3>1 DEF Approvers, A
    <3> QED  BY <2>5, <2>6, <3>2 DEF Approvers
  <2>8. \A a \in 1..(A + 1) : profiles'[a].active /\ profiles'[a].persona # "CLIENT" =>
          GradeFits(profiles'[a].persona, staff[profiles'[a].of])
    BY <1>1, <2>1, <2>4, <2>5, <2>6 DEF ApproversRemain, A
  <2>9. ApproversRemain'
    BY <2>1, <2>6, <2>7, <2>8 DEF ApproversRemain
  <2>10. \A a \in 1..(A + 1) :
           profiles'[a].of \in IF profiles'[a].persona = "CLIENT" THEN 1..Len(contacts) ELSE 1..Len(staff)
    BY <1>1, <2>2, <2>4, <2>5, <2>6 DEF A
  <2> QED  BY <1>1, <2>1, <2>5, <2>9, <2>10 DEF PeopleInv
<1>5. ASSUME NEW b \in DOMAIN profiles, ProfileDeactivate(b)
      PROVE  PeopleInv' /\ UNCHANGED <<clients, contacts, routes, affiliations, runs, engagements>>
  <2> DEFINE row == [profiles[b] EXCEPT !.active = FALSE]
  <2>1. /\ profiles' = [profiles EXCEPT ![b].active = FALSE] /\ Dispensable(b) /\ profiles[b].active
        /\ UNCHANGED <<clients, contacts, routes, affiliations, runs, engagements, staff>>
    BY <1>5 DEF ProfileDeactivate, directory
  <2>2. profiles[b] \in ProfileRows
    BY <1>1
  <2>3. row \in ProfileRows /\ row.persona = profiles[b].persona /\ row.of = profiles[b].of /\ row.active = FALSE
    BY <2>2 DEF ProfileRows
  <2>4. profiles' = [profiles EXCEPT ![b] = row]
    BY <1>1, <2>1
  <2> HIDE DEF row
  <2>5. /\ profiles' \in Seq(ProfileRows) /\ Len(profiles') = Len(profiles)
        /\ \A a \in 1..Len(profiles) : profiles'[a] = IF a = b THEN row ELSE profiles[a]
        /\ DOMAIN profiles' = 1..Len(profiles)
    BY <1>1, <2>3, <2>4, ExceptSeq
  <2>6. \A a \in 1..Len(profiles) :
          /\ profiles'[a].persona = profiles[a].persona /\ profiles'[a].of = profiles[a].of
          /\ profiles'[a].active => profiles[a].active
          /\ a # b => profiles'[a].active = profiles[a].active
    BY <2>3, <2>5
  <2>7. PICK a \in Approvers : a # b
    <3>1. CASE b \notin Approvers
      BY <1>1, <3>1 DEF ApproversRemain
    <3>2. CASE b \in Approvers
      <4>1. Cardinality(Approvers) > 1
        BY <2>1, <3>2 DEF Dispensable, Approvers
      <4>2. Approvers # {b}
        BY <4>1, FS_Singleton
      <4> QED  BY <3>2, <4>2
    <3> QED  BY <3>1, <3>2
  <2>8. Approvers' # {}
    <3>1. a \in 1..Len(profiles) /\ profiles[a].persona = "APPROVER" /\ profiles[a].active
      BY <1>1, <2>7 DEF Approvers
    <3> QED  BY <2>5, <2>6, <2>7, <3>1 DEF Approvers
  <2>9. ApproversRemain'
    BY <1>1, <2>1, <2>5, <2>6, <2>8 DEF ApproversRemain
  <2> QED  BY <1>1, <2>1, <2>5, <2>6, <2>9 DEF PeopleInv
<1> QED  BY <1>2, <1>3, <1>4, <1>5 DEF DirectoryNext

----
(* The form on the web.  An address is let in below its limit, and whoever  *)
(* was let in longer ago than the window does not count.                    *)
Looks == [pc : {"looked", "stored"}, name : Names, email : Emails,
          status : {"RECEIVED", "DUPLICATE", "REJECTED_SPAM"}, created : Nat, lead : Nat]
FormRows == [pc : {"new", "let in", "refused"}] \cup Looks

VisitsInv ==
  /\ time \in 0..MaxTime
  /\ visits \subseteq [by : Visitors, from : Addresses, at : 0..time] /\ IsFiniteSet(visits)
  /\ VisitsAreLimited

FormsInv ==
  /\ DOMAIN forms = Visitors
  /\ \A v \in Visitors : forms[v] \in FormRows /\ (forms[v] \in Looks => forms[v].lead \in 0..Len(leads))

LEMMA TimePasses ==
  ASSUME VisitsInv, Tick
  PROVE  VisitsInv'
<1>1. time < MaxTime /\ time' = time + 1 /\ visits' = visits
  BY DEF Tick
<1>2. time \in Nat /\ Window \in Nat \ {0} /\ VisitLimit \in Nat \ {0} /\ MaxTime \in Nat
  BY IntakeAssumption DEF VisitsInv
<1>3. time' \in 0..MaxTime /\ \A t \in 0..time : t \in 0..time'
  BY <1>1, <1>2
<1>4. visits' \subseteq [by : Visitors, from : Addresses, at : 0..time']
  BY <1>1, <1>3 DEF VisitsInv
<1>5. ASSUME NEW a \in Addresses, NEW t \in 0..time'
      PROVE  Cardinality({h \in visits' : h.from = a /\ t < h.at + Window /\ h.at <= t}) <= VisitLimit
  <2> DEFINE S == {h \in visits : h.from = a /\ t < h.at + Window /\ h.at <= t}
  <2>1. CASE t \in 0..time
    BY <1>1, <2>1 DEF VisitsInv, VisitsAreLimited
  <2>2. CASE t \notin 0..time
    <3> DEFINE U == {h \in visits : h.from = a /\ time < h.at + Window /\ h.at <= time}
    <3>1. t = time + 1 /\ time \in 0..time
      BY <1>1, <1>2, <2>2
    <3>2. \A h \in visits : h.at \in 0..time
      BY DEF VisitsInv
    <3>3. \A x \in 0..time : x <= time /\ (time + 1 < x + Window => time < x + Window)
      BY <1>2
    <3>4. S \in SUBSET U
      BY <3>1, <3>2, <3>3
    <3>5. Cardinality(U) <= VisitLimit
      BY <3>1 DEF VisitsInv, VisitsAreLimited
    <3>6. U \in SUBSET visits /\ IsFiniteSet(visits)
      BY DEF VisitsInv
    <3> HIDE DEF S, U
    <3>7. IsFiniteSet(U)
      BY <3>6, FS_Subset
    <3>8. Cardinality(S) <= Cardinality(U) /\ Cardinality(S) \in Nat /\ Cardinality(U) \in Nat
      BY <3>4, <3>7, FS_Subset, FS_CardinalityType
    <3>9. Cardinality(S) <= VisitLimit
      BY <1>2, <3>5, <3>8
    <3> QED  BY <1>1, <3>9 DEF S
  <2> QED  BY <2>1, <2>2
<1> QED  BY <1>1, <1>3, <1>4, <1>5 DEF VisitsInv, VisitsAreLimited

LEMMA Visiting ==
  ASSUME VisitsInv, NEW v \in Visitors, NEW a \in Addresses, Visit(v, a)
  PROVE  VisitsInv'
<1> DEFINE let == Cardinality(Recent(a)) < VisitLimit
           visit == [by |-> v, from |-> a, at |-> time]
<1>1. visits' = Kept \cup (IF let THEN {visit} ELSE {}) /\ time' = time
  BY DEF Visit
<1>2. /\ time \in Nat /\ time \in 0..time /\ Window \in Nat \ {0} /\ VisitLimit \in Nat \ {0}
      /\ IsFiniteSet(visits)
  BY IntakeAssumption DEF VisitsInv
<1>3. Kept \in SUBSET visits /\ IsFiniteSet(Kept)
  <2>1. Kept \in SUBSET visits
    BY DEF Kept
  <2> QED  BY <1>2, <2>1, FS_Subset
<1>4. visit \in [by : Visitors, from : Addresses, at : 0..time] /\ visit.at = time /\ visit.from = a
  BY <1>2
<1> HIDE DEF visit
<1>5. IsFiniteSet(visits')
  <2>1. IsFiniteSet(Kept \cup {visit})
    BY <1>3, FS_AddElement
  <2> QED  BY <1>1, <1>3, <2>1
<1>6. ASSUME NEW b \in Addresses, NEW t \in 0..time
      PROVE  Cardinality({h \in visits' : h.from = b /\ t < h.at + Window /\ h.at <= t}) <= VisitLimit
  <2> DEFINE S == {h \in visits' : h.from = b /\ t < h.at + Window /\ h.at <= t}
             U == {h \in visits : h.from = b /\ t < h.at + Window /\ h.at <= t}
  <2>1. /\ Cardinality(U) <= VisitLimit /\ IsFiniteSet(U) /\ Cardinality(U) \in Nat
    <3>1. U \in SUBSET visits
      OBVIOUS
    <3>2. Cardinality(U) <= VisitLimit
      BY <1>6 DEF VisitsInv, VisitsAreLimited
    <3> QED  BY <1>2, <3>1, <3>2, FS_Subset, FS_CardinalityType
  <2>2. CASE let /\ b = a /\ t = time
    <3> DEFINE R == Recent(a)
    <3>1. R \in SUBSET visits /\ IsFiniteSet(R) /\ Cardinality(R) \in Nat
      <4>1. R \in SUBSET visits
        BY DEF Recent
      <4> QED  BY <1>2, <4>1, FS_Subset, FS_CardinalityType
    <3>2. S \in SUBSET (R \cup {visit})
      BY <1>1, <1>3, <2>2 DEF Recent
    <3>3. IsFiniteSet(R \cup {visit}) /\ Cardinality(R \cup {visit}) <= Cardinality(R) + 1
          /\ Cardinality(R \cup {visit}) \in Nat
      <4>1. IsFiniteSet(R \cup {visit})
            /\ Cardinality(R \cup {visit}) = IF visit \in R THEN Cardinality(R) ELSE Cardinality(R) + 1
        BY <3>1, FS_AddElement
      <4> QED  BY <3>1, <4>1, FS_CardinalityType
    <3> HIDE DEF S
    <3>4. Cardinality(S) <= Cardinality(R \cup {visit}) /\ Cardinality(S) \in Nat
      <4>1. IsFiniteSet(S) /\ Cardinality(S) <= Cardinality(R \cup {visit})
        BY <3>2, <3>3, FS_Subset
      <4> QED  BY <4>1, FS_CardinalityType
    <3>5. Cardinality(R) < VisitLimit
      BY <2>2
    <3> HIDE DEF R
    <3>6. Cardinality(S) <= VisitLimit
      BY <1>2, <3>1, <3>3, <3>4, <3>5
    <3> QED  BY <3>6 DEF S
  <2>3. CASE ~(let /\ b = a /\ t = time)
    <3>1. ~(let /\ visit.from = b /\ visit.at <= t)
      BY <1>2, <1>4, <1>6, <2>3
    <3>2. S \in SUBSET U
      BY <1>1, <1>3, <3>1
    <3> HIDE DEF S, U
    <3>3. IsFiniteSet(S) /\ Cardinality(S) <= Cardinality(U)
      BY <2>1, <3>2, FS_Subset
    <3>4. Cardinality(S) \in Nat
      BY <3>3, FS_CardinalityType
    <3>5. Cardinality(S) <= VisitLimit
      BY <1>2, <2>1, <3>3, <3>4
    <3> QED  BY <3>5 DEF S
  <2> QED  BY <2>2, <2>3
<1>7. visits' \subseteq [by : Visitors, from : Addresses, at : 0..time]
  BY <1>1, <1>3, <1>4 DEF VisitsInv
<1> QED  BY <1>1, <1>5, <1>6, <1>7 DEF VisitsInv, VisitsAreLimited

----
(* Leads and engagements, and the submissions some leads stem from.         *)
EngagementsStem ==
  \A e \in DOMAIN engagements :
    /\ engagements[e].phase # "ARCHIVED_READ_ONLY" => clients[engagements[e].client].active
    /\ \E l \in DOMAIN leads :
         /\ leads[l].engagement = e /\ leads[l].client = engagements[e].client
         /\ \A m \in DOMAIN leads : leads[m].engagement = e => l = m
LeadsFit ==
  \A l \in DOMAIN leads :
    /\ (leads[l].status = "CONVERTED") <=> (leads[l].engagement # 0)
    /\ contacts[leads[l].contact].client = leads[l].client
AcceptedOnce ==
  \A s, t \in DOMAIN submissions :
    submissions[s].status = "ACCEPTED_AS_LEAD" =>
      /\ submissions[s].lead # NoLead
      /\ submissions[t].status = "ACCEPTED_AS_LEAD" /\ submissions[t].lead = submissions[s].lead => s = t

WorkPart ==
  /\ leads \in Seq(LeadRows) /\ engagements \in Seq(EngagementRows)
  /\ \A l \in 1..Len(leads) :
       /\ leads[l].client \in 1..Len(clients) /\ leads[l].contact \in 1..Len(contacts)
       /\ leads[l].engagement \in 0..Len(engagements)
  /\ \A e \in 1..Len(engagements) : engagements[e].client \in 1..Len(clients)
  /\ EngagementsStem /\ LeadsFit
SubmissionsPart ==
  /\ submissions \in Seq(SubmissionRows) /\ AcceptedOnce
  /\ \A s \in 1..Len(submissions) : submissions[s].lead \in 0..Len(leads)

LEMMA LeadsParts ==
  /\ LeadsInv <=> WorkPart /\ SubmissionsPart
  /\ LeadsInv' <=> WorkPart' /\ SubmissionsPart'
<1>1. WorkKeepsItsClient <=> EngagementsStem /\ LeadsFit /\ AcceptedOnce
  BY DEF WorkKeepsItsClient, EngagementsStem, LeadsFit, AcceptedOnce
<1>2. LeadsInv <=> WorkPart /\ SubmissionsPart
  BY <1>1 DEF LeadsInv, WorkPart, SubmissionsPart
<1>3. WorkKeepsItsClient' <=> EngagementsStem' /\ LeadsFit' /\ AcceptedOnce'
  BY DEF WorkKeepsItsClient, EngagementsStem, LeadsFit, AcceptedOnce
<1>4. LeadsInv' <=> WorkPart' /\ SubmissionsPart'
  BY <1>3 DEF LeadsInv, WorkPart, SubmissionsPart
<1> QED  BY <1>2, <1>4

(* References to leads stay when leads are added.                           *)
LEMMA ReferencesStay ==
  ASSUME WorkPart, WorkPart', Len(leads) <= Len(leads')
  PROVE  /\ SubmissionsPart /\ submissions' = submissions => SubmissionsPart'
         /\ FormsInv /\ forms' = forms => FormsInv'
<1>1. Len(leads) \in Nat /\ Len(leads') \in Nat
  BY DEF WorkPart
<1>2. \A l \in 0..Len(leads) : l \in 0..Len(leads')
  BY <1>1
<1>3. ASSUME SubmissionsPart, submissions' = submissions PROVE SubmissionsPart'
  BY <1>2, <1>3 DEF SubmissionsPart, AcceptedOnce
<1>4. ASSUME FormsInv, forms' = forms PROVE FormsInv'
  BY <1>2, <1>4 DEF FormsInv
<1> QED  BY <1>3, <1>4

(* A submission is judged.                                                  *)
LEMMA SubmissionJudged ==
  ASSUME SubmissionsPart, WorkPart, WorkPart', Len(leads) <= Len(leads'),
         NEW s \in DOMAIN submissions, NEW status \in {"DUPLICATE", "REJECTED_SPAM", "ACCEPTED_AS_LEAD"},
         NEW lead \in 0..Len(leads'),
         status = "ACCEPTED_AS_LEAD" => lead = Len(leads) + 1,
         Open(s), Triaged(s, status, lead)
  PROVE  SubmissionsPart'
<1> DEFINE row == [submissions[s] EXCEPT !.status = status, !.lead = lead]
<1>1. /\ submissions \in Seq(SubmissionRows) /\ AcceptedOnce
      /\ DOMAIN submissions = 1..Len(submissions)
      /\ \A t \in 1..Len(submissions) : submissions[t].lead \in 0..Len(leads)
      /\ Len(leads) \in Nat /\ Len(leads') \in Nat
  BY DEF SubmissionsPart, WorkPart
<1>2. lead \in Nat
  BY <1>1
<1>3. row \in SubmissionRows /\ row.status = status /\ row.lead = lead
  <2>1. submissions[s] \in SubmissionRows
    BY <1>1
  <2> QED  BY <1>2, <2>1 DEF SubmissionRows
<1>4. submissions' = [submissions EXCEPT ![s] = row]
  BY <1>1 DEF Triaged
<1> HIDE DEF row
<1>5. /\ submissions' \in Seq(SubmissionRows) /\ Len(submissions') = Len(submissions)
      /\ \A t \in 1..Len(submissions) : submissions'[t] = IF t = s THEN row ELSE submissions[t]
      /\ DOMAIN submissions' = 1..Len(submissions)
  BY <1>1, <1>3, <1>4, ExceptSeq
<1>6. \A l \in 0..Len(leads) : l \in 0..Len(leads') /\ l # Len(leads) + 1
  BY <1>1
<1>7. \A t \in 1..Len(submissions) : submissions'[t].lead \in 0..Len(leads')
  BY <1>1, <1>3, <1>5, <1>6
<1>8. status = "ACCEPTED_AS_LEAD" => lead # NoLead /\ \A t \in 1..Len(submissions) : submissions[t].lead # lead
  BY <1>1, <1>6 DEF NoLead
<1>9. AcceptedOnce'
  BY <1>1, <1>3, <1>5, <1>8 DEF AcceptedOnce
<1> QED  BY <1>5, <1>7, <1>9 DEF SubmissionsPart

(* A lead is added, that is open.                                           *)
LEMMA LeadAdded ==
  ASSUME DirectoryInv, DirectoryInv', DirectoryGrows, WorkPart, NEW c \in 1..Len(clients'), NEW k \in 1..Len(contacts'),
         contacts'[k].client = c, leads' = Append(leads, NewLead(c, k)), engagements' = engagements
  PROVE  WorkPart' /\ Len(leads') = Len(leads) + 1 /\ Len(leads) <= Len(leads') /\ Len(leads) \in Nat
<1> DEFINE row == NewLead(c, k)
           L == Len(leads)
           E == Len(engagements)
<1>1. /\ leads \in Seq(LeadRows) /\ engagements \in Seq(EngagementRows) /\ L \in Nat /\ E \in Nat
      /\ DOMAIN leads = 1..L /\ DOMAIN engagements = 1..E
      /\ \A l \in 1..L :
           /\ leads[l].client \in 1..Len(clients) /\ leads[l].contact \in 1..Len(contacts)
           /\ leads[l].engagement \in 0..E
      /\ \A e \in 1..E : engagements[e].client \in 1..Len(clients)
      /\ EngagementsStem /\ LeadsFit
  BY DEF WorkPart
<1>2. /\ Len(clients) \in Nat /\ Len(clients') \in Nat /\ Len(clients) <= Len(clients')
      /\ Len(contacts) \in Nat /\ Len(contacts') \in Nat /\ Len(contacts) <= Len(contacts')
  BY DEF DirectoryInv, DirectoryRows, DirectoryGrows
<1>3. /\ \A d \in 1..Len(clients) : d \in 1..Len(clients')
      /\ \A j \in 1..Len(contacts) : j \in 1..Len(contacts') /\ contacts'[j].client = contacts[j].client
  <2>1. \A x, y \in Nat : x <= y => \A d \in 1..x : d \in 1..y
    OBVIOUS
  <2>2. /\ \A d \in 1..Len(clients) : d \in 1..Len(clients')
        /\ \A j \in 1..Len(contacts) : j \in 1..Len(contacts')
    BY ONLY <1>2, <2>1
  <2>3. \A j \in 1..Len(contacts) : contacts'[j].client = contacts[j].client
    BY DEF DirectoryGrows
  <2> QED  BY ONLY <2>2, <2>3
<1>4. c \in Nat /\ k \in Nat
  BY <1>2
<1>5. /\ row \in LeadRows /\ row.client = c /\ row.contact = k /\ row.status = "OPEN" /\ row.engagement = 0
  BY <1>4 DEF NewLead, LeadRows
<1> HIDE DEF row, L, E
<1>6. /\ leads' \in Seq(LeadRows) /\ Len(leads') = L + 1
      /\ \A l \in 1..L : leads'[l] = leads[l]
      /\ leads'[L + 1] = row
  BY <1>1, <1>5, AppendProperties DEF L, row
<1>7. /\ DOMAIN leads' = 1..(L + 1) /\ (\A l \in 1..(L + 1) : l \in 1..L \/ l = L + 1)
      /\ \A l \in 1..L : l \in 1..(L + 1)
      /\ 0 \in 0..E /\ \A e \in 1..E : e # 0
  BY <1>1, <1>6
<1>8. \A l \in 1..(L + 1) :
        /\ leads'[l].client \in 1..Len(clients') /\ leads'[l].contact \in 1..Len(contacts')
        /\ leads'[l].engagement \in 0..E
  BY <1>1, <1>3, <1>5, <1>6, <1>7
<1>9. LeadsFit'
  <2>1. ASSUME NEW l \in 1..(L + 1)
        PROVE  /\ (leads'[l].status = "CONVERTED") <=> (leads'[l].engagement # 0)
               /\ contacts'[leads'[l].contact].client = leads'[l].client
    <3>1. CASE l \in 1..L
      <4>1. /\ (leads[l].status = "CONVERTED") <=> (leads[l].engagement # 0)
            /\ contacts[leads[l].contact].client = leads[l].client
        BY <1>1, <3>1 DEF LeadsFit
      <4>2. leads[l].contact \in 1..Len(contacts) /\ leads'[l] = leads[l]
        BY <1>1, <1>6, <3>1
      <4> QED  BY <1>3, <4>1, <4>2
    <3>2. CASE l = L + 1
      BY <1>5, <1>6, <3>2
    <3> QED  BY <1>7, <3>1, <3>2
  <2> QED  BY <1>7, <2>1 DEF LeadsFit
<1>10. ASSUME NEW e \in 1..E
       PROVE  /\ engagements[e].phase # "ARCHIVED_READ_ONLY" => clients'[engagements[e].client].active
              /\ \E l \in DOMAIN leads' :
                   /\ leads'[l].engagement = e /\ leads'[l].client = engagements[e].client
                   /\ \A m \in DOMAIN leads' : leads'[m].engagement = e => l = m
  <2>1. PICK l \in 1..L : /\ leads[l].engagement = e /\ leads[l].client = engagements[e].client
                          /\ \A m \in 1..L : leads[m].engagement = e => l = m
    <3>1. \E l \in DOMAIN leads :
            /\ leads[l].engagement = e /\ leads[l].client = engagements[e].client
            /\ \A m \in DOMAIN leads : leads[m].engagement = e => l = m
      <4>1. e \in DOMAIN engagements /\ EngagementsStem
        BY <1>1
      <4> QED  BY ONLY <4>1 DEF EngagementsStem
    <3> QED  BY <1>1, <3>1
  <2>2. \A m \in 1..(L + 1) : leads'[m].engagement = e => l = m
    BY <1>5, <1>6, <1>7, <2>1
  <2>3. \E q \in DOMAIN leads' :
                   /\ leads'[q].engagement = e /\ leads'[q].client = engagements[e].client
                   /\ \A m \in DOMAIN leads' : leads'[m].engagement = e => q = m
    BY <1>6, <1>7, <2>1, <2>2
  <2>4. engagements[e].phase # "ARCHIVED_READ_ONLY" => clients'[engagements[e].client].active
    <3>1. engagements[e].phase # "ARCHIVED_READ_ONLY" => clients[engagements[e].client].active
      BY <1>1 DEF EngagementsStem
    <3> QED  BY <1>1, <3>1 DEF DirectoryGrows
  <2> QED  BY <2>3, <2>4
<1>11. EngagementsStem'
  <2>1. DOMAIN engagements' = 1..E /\ engagements' = engagements
    BY <1>1
  <2> QED  BY <1>10, <2>1 DEF EngagementsStem
<1>12. \A e \in 1..E : engagements[e].client \in 1..Len(clients')
  BY <1>1, <1>3
<1>13. WorkPart'
  BY <1>1, <1>6, <1>8, <1>9, <1>11, <1>12 DEF WorkPart, E
<1> QED  BY <1>1, <1>6, <1>13 DEF L

(* An open lead that is changed stays that of its client, and no engagement *)
(* is.                                                                      *)
LEMMA LeadChanged ==
  ASSUME WorkPart, UNCHANGED <<clients, contacts, engagements>>, NEW l \in DOMAIN leads, NEW row \in LeadRows,
         leads' = [leads EXCEPT ![l] = row], leads[l].status = "OPEN",
         row.client = leads[l].client, row.status # "CONVERTED", row.engagement = leads[l].engagement,
         row.contact \in 1..Len(contacts), contacts[row.contact].client = row.client
  PROVE  WorkPart' /\ Len(leads') = Len(leads)
<1> DEFINE L == Len(leads)
           E == Len(engagements)
<1>1. /\ leads \in Seq(LeadRows) /\ engagements \in Seq(EngagementRows) /\ L \in Nat /\ E \in Nat
      /\ DOMAIN leads = 1..L /\ DOMAIN engagements = 1..E
      /\ \A m \in 1..L :
           /\ leads[m].client \in 1..Len(clients) /\ leads[m].contact \in 1..Len(contacts)
           /\ leads[m].engagement \in 0..E
      /\ \A e \in 1..E : engagements[e].client \in 1..Len(clients)
      /\ EngagementsStem /\ LeadsFit
  BY DEF WorkPart
<1>2. /\ leads' \in Seq(LeadRows) /\ Len(leads') = L
      /\ \A m \in 1..L : leads'[m] = IF m = l THEN row ELSE leads[m]
      /\ DOMAIN leads' = 1..L
  BY <1>1, ExceptSeq
<1>3. \A m \in 1..L : leads'[m].engagement = leads[m].engagement /\ leads'[m].client = leads[m].client
  BY <1>2
<1>4. row.engagement = 0
  BY <1>1 DEF LeadsFit
<1> HIDE DEF L, E
<1>5. LeadsFit'
  <2>1. ASSUME NEW m \in 1..L
        PROVE  /\ (leads'[m].status = "CONVERTED") <=> (leads'[m].engagement # 0)
               /\ contacts[leads'[m].contact].client = leads'[m].client
    <3>1. CASE m = l
      BY <1>2, <1>4, <3>1
    <3>2. CASE m # l
      <4>1. leads'[m] = leads[m]
        BY <1>2, <3>2
      <4> QED  BY <1>1, <4>1 DEF LeadsFit
    <3> QED  BY <3>1, <3>2
  <2> QED  BY <1>2, <2>1 DEF LeadsFit
<1>6. EngagementsStem'
  <2>1. \A e \in DOMAIN engagements :
          /\ engagements[e].phase # "ARCHIVED_READ_ONLY" => clients[engagements[e].client].active
          /\ \E q \in DOMAIN leads' :
               /\ leads'[q].engagement = e /\ leads'[q].client = engagements[e].client
               /\ \A m \in DOMAIN leads' : leads'[m].engagement = e => q = m
    <3>1. EngagementsStem /\ DOMAIN leads' = DOMAIN leads
          /\ \A m \in DOMAIN leads : leads'[m].engagement = leads[m].engagement /\ leads'[m].client = leads[m].client
      BY <1>1, <1>2, <1>3
    <3> QED  BY ONLY <3>1 DEF EngagementsStem
  <2> QED  BY <2>1 DEF EngagementsStem
<1>7. \A m \in 1..L : /\ leads'[m].client \in 1..Len(clients) /\ leads'[m].contact \in 1..Len(contacts)
                      /\ leads'[m].engagement \in 0..E
  BY <1>1, <1>2
<1> QED  BY <1>1, <1>2, <1>5, <1>6, <1>7 DEF WorkPart, L, E

LEMMA LeadUpdating ==
  ASSUME DirectoryInv, WorkPart, NEW l \in DOMAIN leads, NEW k \in DOMAIN contacts, LeadUpdate(l, k)
  PROVE  WorkPart' /\ Len(leads') = Len(leads)
<1> DEFINE row == [leads[l] EXCEPT !.contact = k]
<1>1. /\ leads[l].status = "OPEN" /\ contacts[k].client = leads[l].client
      /\ leads' = [leads EXCEPT ![l].contact = k] /\ UNCHANGED <<clients, contacts, engagements>>
  BY DEF LeadUpdate, clientVars, directory
<1>2. k \in 1..Len(contacts) /\ k \in Nat
  BY DEF DirectoryInv, DirectoryRows
<1>3. leads[l] \in LeadRows
  BY DEF WorkPart
<1>4. /\ row \in LeadRows /\ row.client = leads[l].client /\ row.status = leads[l].status
      /\ row.engagement = leads[l].engagement /\ row.contact = k
  BY <1>2, <1>3 DEF LeadRows
<1>5. leads' = [leads EXCEPT ![l] = row]
  BY <1>1
<1> HIDE DEF row
<1>6. row.status # "CONVERTED" /\ row.contact \in 1..Len(contacts) /\ contacts[row.contact].client = row.client
  BY <1>1, <1>2, <1>4
<1> QED  BY <1>1, <1>4, <1>5, <1>6, LeadChanged

LEMMA LeadLosing ==
  ASSUME WorkPart, NEW l \in DOMAIN leads, LeadLose(l)
  PROVE  WorkPart' /\ Len(leads') = Len(leads)
<1> DEFINE row == [leads[l] EXCEPT !.status = "LOST"]
<1>1. /\ leads[l].status = "OPEN"
      /\ leads' = [leads EXCEPT ![l].status = "LOST"] /\ UNCHANGED <<clients, contacts, engagements>>
  BY DEF LeadLose, clientVars, directory
<1>2. leads[l] \in LeadRows /\ leads[l].contact \in 1..Len(contacts) /\ contacts[leads[l].contact].client = leads[l].client
  BY DEF WorkPart, LeadsFit
<1>3. /\ row \in LeadRows /\ row.client = leads[l].client /\ row.status = "LOST"
      /\ row.engagement = leads[l].engagement /\ row.contact = leads[l].contact
  BY <1>2 DEF LeadRows
<1>4. leads' = [leads EXCEPT ![l] = row]
  BY <1>1
<1> HIDE DEF row
<1>5. row.status # "CONVERTED" /\ row.contact \in 1..Len(contacts) /\ contacts[row.contact].client = row.client
  BY <1>2, <1>3
<1> QED  BY <1>1, <1>3, <1>4, <1>5, LeadChanged

(* An open lead of an active client becomes its engagement.                 *)
LEMMA LeadConverting ==
  ASSUME DirectoryInv, WorkPart, NEW l \in DOMAIN leads, LeadConvert(l)
  PROVE  WorkPart' /\ Len(leads') = Len(leads)
<1> DEFINE L == Len(leads)
           E == Len(engagements)
           row == [leads[l] EXCEPT !.status = "CONVERTED", !.engagement = E + 1]
           work == [client |-> leads[l].client, phase |-> "LEAD_INGESTION"]
<1>1. /\ leads \in Seq(LeadRows) /\ engagements \in Seq(EngagementRows) /\ L \in Nat /\ E \in Nat
      /\ DOMAIN leads = 1..L /\ DOMAIN engagements = 1..E
      /\ \A m \in 1..L :
           /\ leads[m].client \in 1..Len(clients) /\ leads[m].contact \in 1..Len(contacts)
           /\ leads[m].engagement \in 0..E
      /\ \A e \in 1..E : engagements[e].client \in 1..Len(clients)
      /\ EngagementsStem /\ LeadsFit
      /\ Len(clients) \in Nat
  <2>1. Len(clients) \in Nat
    BY DEF DirectoryInv, DirectoryRows
  <2> QED  BY <2>1 DEF WorkPart
<1>2. /\ leads[l].status = "OPEN" /\ clients[leads[l].client].active
      /\ engagements' = Append(engagements, work)
      /\ leads' = [leads EXCEPT ![l].status = "CONVERTED", ![l].engagement = E + 1]
      /\ UNCHANGED <<clients, contacts>>
  BY DEF LeadConvert, Reachable, ActiveClient, directory
<1>3. leads[l] \in LeadRows /\ leads[l].client \in Nat /\ leads[l].client \in 1..Len(clients) /\ l \in 1..L
  <2>1. leads[l] \in LeadRows /\ l \in 1..L
    BY <1>1
  <2> QED  BY <1>1, <2>1 DEF LeadRows
<1>4. leads[l].engagement = 0
  BY <1>1, <1>2 DEF LeadsFit
<1>5. work \in EngagementRows /\ work.client = leads[l].client
  BY <1>3 DEF EngagementRows
<1>6. /\ row \in LeadRows /\ row.client = leads[l].client /\ row.contact = leads[l].contact
      /\ row.status = "CONVERTED" /\ row.engagement = E + 1
  <2>1. E + 1 \in Nat
    BY <1>1
  <2> HIDE DEF E
  <2> QED  BY <1>3, <2>1 DEF LeadRows
<1>7. leads' = [leads EXCEPT ![l] = row]
  BY <1>1, <1>2
<1> HIDE DEF row, work
<1>8. /\ leads' \in Seq(LeadRows) /\ Len(leads') = L
      /\ \A m \in 1..L : leads'[m] = IF m = l THEN row ELSE leads[m]
      /\ DOMAIN leads' = 1..L
  BY <1>1, <1>6, <1>7, ExceptSeq
<1>9. /\ engagements' \in Seq(EngagementRows) /\ Len(engagements') = E + 1
      /\ \A e \in 1..E : engagements'[e] = engagements[e]
      /\ engagements'[E + 1] = work
      /\ DOMAIN engagements' = 1..(E + 1)
  BY <1>1, <1>2, <1>5, AppendProperties
<1> HIDE DEF L, E
<1>10. /\ \A e \in 1..(E + 1) : e \in 1..E \/ e = E + 1
       /\ \A e \in 0..E : e \in 0..(E + 1) /\ e # E + 1
       /\ \A e \in 1..E : e # 0 /\ e # E + 1 /\ e \in 0..E
       /\ E + 1 \in 0..(E + 1) /\ E + 1 # 0
  BY <1>1
<1>11. \A m \in 1..L :
         /\ leads'[m].client = leads[m].client /\ leads'[m].contact = leads[m].contact
         /\ leads'[m].engagement = IF m = l THEN E + 1 ELSE leads[m].engagement
         /\ leads'[m].engagement \in 0..(E + 1)
  BY <1>1, <1>6, <1>8, <1>10
<1>12. LeadsFit'
  <2>1. ASSUME NEW m \in 1..L
        PROVE  /\ (leads'[m].status = "CONVERTED") <=> (leads'[m].engagement # 0)
               /\ contacts[leads'[m].contact].client = leads'[m].client
    <3>1. contacts[leads'[m].contact].client = leads'[m].client
      BY <1>1, <1>11 DEF LeadsFit
    <3>2. CASE m = l
      BY <1>6, <1>8, <1>10, <3>1, <3>2
    <3>3. CASE m # l
      <4>1. leads'[m] = leads[m]
        BY <1>8, <3>3
      <4> QED  BY <1>1, <3>1, <4>1 DEF LeadsFit
    <3> QED  BY <3>2, <3>3
  <2> QED  BY <1>2, <1>8, <2>1 DEF LeadsFit
<1>13. ASSUME NEW e \in 1..(E + 1)
       PROVE  /\ engagements'[e].phase # "ARCHIVED_READ_ONLY" => clients[engagements'[e].client].active
              /\ \E q \in 1..L :
                   /\ leads'[q].engagement = e /\ leads'[q].client = engagements'[e].client
                   /\ \A m \in 1..L : leads'[m].engagement = e => q = m
              /\ engagements'[e].client \in 1..Len(clients)
  <2>1. CASE e \in 1..E
    <3>1. /\ engagements[e].phase # "ARCHIVED_READ_ONLY" => clients[engagements[e].client].active
          /\ \E q \in 1..L :
               /\ leads[q].engagement = e /\ leads[q].client = engagements[e].client
               /\ \A m \in 1..L : leads[m].engagement = e => q = m
      <4>1. e \in DOMAIN engagements /\ EngagementsStem /\ DOMAIN leads = 1..L
        BY <1>1, <2>1
      <4> QED  BY ONLY <4>1 DEF EngagementsStem
    <3>2. PICK q \in 1..L :
               /\ leads[q].engagement = e /\ leads[q].client = engagements[e].client
               /\ \A m \in 1..L : leads[m].engagement = e => q = m
      BY <3>1
    <3>3. q # l /\ e # E + 1
      BY <1>4, <1>10, <2>1, <3>2
    <3>4. leads'[q].engagement = e /\ leads'[q].client = engagements'[e].client
      BY <1>9, <1>11, <2>1, <3>2, <3>3
    <3>5. \A m \in 1..L : leads'[m].engagement = e => q = m
      BY <1>11, <3>2, <3>3
    <3> QED  BY <1>1, <1>9, <2>1, <3>1, <3>4, <3>5
  <2>2. CASE e = E + 1
    <3>1. engagements'[e] = work
      BY <1>9, <2>2
    <3>2. leads'[l].engagement = e /\ leads'[l].client = engagements'[e].client
      BY <1>3, <1>5, <1>11, <2>2, <3>1
    <3>3. \A m \in 1..L : leads'[m].engagement = e => l = m
      BY <1>1, <1>10, <1>11, <2>2
    <3> QED  BY <1>2, <1>3, <1>5, <3>1, <3>2, <3>3
  <2> QED  BY <1>10, <2>1, <2>2
<1>14. EngagementsStem'
  <2>1. \A e \in DOMAIN engagements' :
          /\ engagements'[e].phase # "ARCHIVED_READ_ONLY" => clients'[engagements'[e].client].active
          /\ \E q \in DOMAIN leads' :
               /\ leads'[q].engagement = e /\ leads'[q].client = engagements'[e].client
               /\ \A m \in DOMAIN leads' : leads'[m].engagement = e => q = m
    <3>1. /\ clients' = clients /\ DOMAIN leads' = 1..L /\ DOMAIN engagements' = 1..(E + 1)
          /\ \A e \in 1..(E + 1) :
               /\ engagements'[e].phase # "ARCHIVED_READ_ONLY" => clients[engagements'[e].client].active
               /\ \E q \in 1..L :
                    /\ leads'[q].engagement = e /\ leads'[q].client = engagements'[e].client
                    /\ \A m \in 1..L : leads'[m].engagement = e => q = m
      BY <1>2, <1>8, <1>9, <1>13
    <3> QED  BY ONLY <3>1
  <2> QED  BY ONLY <2>1 DEF EngagementsStem
<1>15. \A m \in 1..L : leads'[m].client \in 1..Len(clients) /\ leads'[m].contact \in 1..Len(contacts)
  BY <1>1, <1>11
<1> QED  BY <1>2, <1>8, <1>9, <1>11, <1>12, <1>13, <1>14, <1>15 DEF WorkPart, L

(* An engagement of an active client advances, or its archive is sealed.    *)
LEMMA EngagementChanging ==
  ASSUME WorkPart, NEW e \in DOMAIN engagements, EngagementAdvance(e) \/ EngagementSealed(e)
  PROVE  WorkPart' /\ Len(leads') = Len(leads)
<1> DEFINE L == Len(leads)
           E == Len(engagements)
<1>1. /\ leads \in Seq(LeadRows) /\ engagements \in Seq(EngagementRows) /\ L \in Nat /\ E \in Nat
      /\ DOMAIN leads = 1..L /\ DOMAIN engagements = 1..E
      /\ EngagementsStem /\ LeadsFit
      /\ \A d \in 1..E : engagements[d].client \in 1..Len(clients)
  BY DEF WorkPart
<1>2. PICK phase \in {"PROPOSAL_GENERATION", "ARCHIVED_READ_ONLY"} :
        engagements' = [engagements EXCEPT ![e].phase = phase]
  BY DEF EngagementAdvance, EngagementSealed
<1>3. UNCHANGED <<clients, contacts, leads>> /\ engagements[e].phase # "ARCHIVED_READ_ONLY"
  BY DEF EngagementAdvance, EngagementSealed, directory
<1> DEFINE row == [engagements[e] EXCEPT !.phase = phase]
<1>4. engagements[e] \in EngagementRows
  BY <1>1
<1>5. row \in EngagementRows /\ row.client = engagements[e].client /\ row.phase = phase
  BY <1>4 DEF EngagementRows
<1>6. engagements' = [engagements EXCEPT ![e] = row]
  BY <1>2
<1> HIDE DEF row
<1>7. /\ engagements' \in Seq(EngagementRows) /\ Len(engagements') = E
      /\ \A d \in 1..E : engagements'[d] = IF d = e THEN row ELSE engagements[d]
      /\ DOMAIN engagements' = 1..E
  BY <1>1, <1>5, <1>6, ExceptSeq
<1>8. \A d \in 1..E : /\ engagements'[d].client = engagements[d].client
                      /\ engagements'[d].phase # "ARCHIVED_READ_ONLY" => engagements[d].phase # "ARCHIVED_READ_ONLY"
  BY <1>3, <1>5, <1>7
<1>9. EngagementsStem'
  <2>1. \A d \in DOMAIN engagements' :
          /\ engagements'[d].phase # "ARCHIVED_READ_ONLY" => clients[engagements'[d].client].active
          /\ \E l \in DOMAIN leads :
               /\ leads[l].engagement = d /\ leads[l].client = engagements'[d].client
               /\ \A m \in DOMAIN leads : leads[m].engagement = d => l = m
    <3>1. EngagementsStem /\ DOMAIN engagements' = DOMAIN engagements
          /\ \A d \in DOMAIN engagements :
               /\ engagements'[d].client = engagements[d].client
               /\ engagements'[d].phase # "ARCHIVED_READ_ONLY" => engagements[d].phase # "ARCHIVED_READ_ONLY"
      BY <1>1, <1>7, <1>8
    <3> QED  BY ONLY <3>1 DEF EngagementsStem
  <2> QED  BY <1>3, <2>1 DEF EngagementsStem
<1>10. LeadsFit'
  BY <1>1, <1>3 DEF LeadsFit
<1> QED  BY <1>1, <1>3, <1>7, <1>8, <1>9, <1>10 DEF WorkPart

LEMMA ClientLead ==
  ASSUME DirectoryInv, DirectoryInv', DirectoryGrows, WorkPart,
         NEW c \in DOMAIN clients, NEW k \in DOMAIN contacts, LeadOfClient(c, k)
  PROVE  WorkPart' /\ Len(leads) <= Len(leads')
<1>1. /\ contacts[k].client = c /\ leads' = Append(leads, NewLead(c, k))
      /\ UNCHANGED <<clients, contacts, engagements>>
  BY DEF LeadOfClient, clientVars, directory
<1>2. c \in 1..Len(clients') /\ k \in 1..Len(contacts') /\ contacts'[k].client = c
  BY <1>1 DEF DirectoryInv, DirectoryRows
<1> QED  BY <1>1, <1>2, LeadAdded

LEMMA ProspectLead ==
  ASSUME DirectoryInv, DirectoryInv', DirectoryGrows, WorkPart,
         NEW code, NEW name, NEW email, NEW role, LeadOfProspect(code, name, email, role)
  PROVE  WorkPart' /\ Len(leads) <= Len(leads')
<1> DEFINE c == Len(clients) + 1
           k == Len(contacts) + 1
           contact == Contact(c, email, role, TRUE)
           client == Client(code, name, "STANDALONE", NoClient)
<1>1. /\ clients' = Append(clients, client) /\ contacts' = Append(contacts, contact)
      /\ leads' = Append(leads, NewLead(c, k)) /\ engagements' = engagements
  BY DEF LeadOfProspect, Registered
<1>2. /\ clients \in Seq(ClientRows) /\ contacts \in Seq(ContactRows)
      /\ Len(clients) \in Nat /\ Len(contacts) \in Nat
      /\ clients' \in Seq(ClientRows) /\ contacts' \in Seq(ContactRows)
  BY DEF DirectoryInv, DirectoryRows
<1>3. contact.client = c
  BY DEF Contact
<1> HIDE DEF contact, client
<1>4. Len(clients') = c /\ Len(contacts') = k /\ contacts'[k] = contact
  <2>1. clients \in Seq(ClientRows \cup {client}) /\ contacts \in Seq(ContactRows \cup {contact})
    BY <1>2, SeqMonotonic
  <2>2. Len(clients') = c
    BY <1>1, <2>1, AppendProperties
  <2>3. Len(contacts') = k /\ contacts'[k] = contact
    BY <1>1, <2>1, AppendProperties
  <2> QED  BY <2>2, <2>3
<1>5. c \in 1..Len(clients') /\ k \in 1..Len(contacts') /\ contacts'[k].client = c
  BY <1>2, <1>3, <1>4
<1> QED  BY <1>1, <1>5, LeadAdded

(* An accepted inquiry: its client and its contact are found or added.      *)
LEMMA Accepting ==
  ASSUME DirectoryInv, WorkPart, SubmissionsPart, NEW s \in DOMAIN submissions, TriageAccept(s)
  PROVE  /\ DirectoryInv' /\ DirectoryGrows /\ WorkPart' /\ SubmissionsPart' /\ Len(leads) <= Len(leads')
         /\ UNCHANGED <<runs, profiles, staff, time, visits, forms>>
<1> DEFINE N == Len(clients)
           K == Len(contacts)
           name == submissions[s].name
           email == submissions[s].email
           c == IF Namesakes(name) = {} THEN N + 1 ELSE CHOOSE n \in Namesakes(name) : TRUE
           there == Addressed(c, email)
           first == {j \in there : contacts[j].primary}
           client == Client("WEB", name, "STANDALONE", NoClient)
           contact == Contact(c, email, "OTHER", ~HasFirst(c))
<1>1. /\ clients \in Seq(ClientRows) /\ contacts \in Seq(ContactRows) /\ N \in Nat /\ K \in Nat
      /\ DOMAIN clients = 1..N /\ DOMAIN contacts = 1..K
      /\ \A j \in 1..K : contacts[j].client \in 1..N
      /\ \A j \in 1..K : contacts[j].primary => contacts[j].active
  BY DEF DirectoryInv, DirectoryRows, FirstsInv
<1>2. name \in Names /\ email \in Emails
  <2>1. submissions[s] \in SubmissionRows
    BY DEF SubmissionsPart
  <2> QED  BY <2>1 DEF SubmissionRows
<1>3. /\ Open(s)
      /\ IF c \in DOMAIN clients THEN UNCHANGED clients
         ELSE clients' = Append(clients, client)
      /\ \E k \in IF there = {} THEN {K + 1} ELSE IF first = {} THEN there ELSE first :
           /\ IF k \in DOMAIN contacts THEN UNCHANGED contacts
              ELSE contacts' = Append(contacts, contact)
           /\ leads' = Append(leads, NewLead(c, k))
      /\ Triaged(s, "ACCEPTED_AS_LEAD", Len(leads) + 1)
      /\ UNCHANGED <<routes, affiliations, runs, engagements, profiles, staff, time, visits, forms>>
  BY DEF TriageAccept
<1>4. c \in 1..(N + 1) /\ (c \notin 1..N => c = N + 1)
  <2>1. CASE Namesakes(name) = {}
    BY <1>1, <2>1
  <2>2. CASE Namesakes(name) # {}
    <3>1. c \in Namesakes(name)
      BY <2>2
    <3>2. c \in 1..N
      BY <1>1, <3>1 DEF Namesakes
    <3>3. \A x \in 1..N : x \in 1..(N + 1)
      BY <1>1
    <3> HIDE DEF c, N
    <3> QED  BY <3>2, <3>3
  <2> QED  BY <2>1, <2>2
<1>5. \A k \in there : k \in 1..K /\ contacts[k].client = c
  BY <1>1 DEF Addressed
<1>6. PICK k : /\ k \in IF there = {} THEN {K + 1} ELSE IF first = {} THEN there ELSE first
               /\ IF k \in DOMAIN contacts THEN UNCHANGED contacts ELSE contacts' = Append(contacts, contact)
               /\ leads' = Append(leads, NewLead(c, k))
  BY <1>3
<1>7. k \in there \/ k = K + 1
  BY <1>6
<1>8. /\ client \in ClientRows /\ client.active /\ client.parent = NoClient /\ client.kind = "STANDALONE"
  <2>1. NoClient \in Nat
    BY DEF NoClient
  <2>2. "STANDALONE" \in ClientKinds
    BY DEF ClientKinds
  <2>3. "WEB" \in STRING
    BY CodeAssumption
  <2> HIDE DEF name
  <2> QED  BY <1>2, <2>1, <2>2, <2>3 DEF Client, ClientRows
<1>9. /\ contact \in ContactRows /\ contact.client = c /\ contact.active
      /\ contact.primary = ~HasFirst(c)
  <2>1. c \in Nat /\ "OTHER" \in Roles
    BY <1>1, <1>4, RowsAssumption
  <2>2. (~HasFirst(c)) \in BOOLEAN
    BY DEF HasFirst
  <2> HIDE DEF c, email
  <2> QED  BY <1>2, <2>1, <2>2 DEF Contact, ContactRows
<1> DEFINE cs == IF c \in DOMAIN clients THEN << >> ELSE <<client>>
           ks == IF k \in DOMAIN contacts THEN << >> ELSE <<contact>>
<1> HIDE DEF c, client, contact, there, first, N, K, name, email
<1>10. /\ clients' = clients \o cs /\ cs \in Seq(ClientRows)
       /\ \/ c \in 1..N /\ Len(cs) = 0
          \/ c = N + 1 /\ Len(cs) = 1 /\ cs[1] = client
  <2>1. CASE c \in DOMAIN clients
    <3>1. cs = << >> /\ clients' = clients /\ clients \o << >> = clients
      BY <1>1, <1>3, <2>1, ConcatEmptySeq
    <3> QED  BY <1>1, <2>1, <3>1
  <2>2. CASE c \notin DOMAIN clients
    <3>1. cs = <<client>> /\ clients' = Append(clients, client) /\ c = N + 1
      BY <1>1, <1>3, <1>4, <2>2
    <3> QED  BY <1>1, <1>8, <3>1, AppendOne
  <2> QED  BY <2>1, <2>2
<1>11. /\ contacts' = contacts \o ks /\ ks \in Seq(ContactRows)
       /\ \/ k \in 1..K /\ Len(ks) = 0 /\ contacts[k].client = c
          \/ k = K + 1 /\ Len(ks) = 1 /\ ks[1] = contact
  <2>1. CASE k \in DOMAIN contacts
    <3>1. ks = << >> /\ contacts' = contacts /\ contacts \o << >> = contacts
      BY <1>1, <1>6, <2>1, ConcatEmptySeq
    <3>2. k \in there
      BY <1>1, <1>7, <2>1
    <3>3. k \in 1..K /\ contacts[k].client = c
      BY <1>5, <3>2
    <3>4. Len(ks) = 0 /\ ks \in Seq(ContactRows)
      BY <3>1
    <3> QED  BY <3>1, <3>3, <3>4
  <2>2. CASE k \notin DOMAIN contacts
    <3>1. ks = <<contact>> /\ contacts' = Append(contacts, contact) /\ k = K + 1
      BY <1>1, <1>5, <1>6, <1>7, <2>2
    <3> QED  BY <1>1, <1>9, <3>1, AppendOne
  <2> QED  BY <2>1, <2>2
<1> HIDE DEF cs, ks
<1>12. NewClients(cs)
  <2>1. \A n \in 1..Len(cs) : n = 1 /\ cs[n] = client
    BY <1>10
  <2>2. NoClient \in 0..(N + 1 - 1) /\ NoClient \notin 1..N
    BY <1>1 DEF NoClient
  <2> QED  BY <1>8, <1>10, <2>1, <2>2 DEF NewClients, N
<1>13. Len(clients') = N + Len(cs) /\ c \in 1..Len(clients')
  <2>1. Len(clients') = N + Len(cs)
    BY <1>1, <1>10, ConcatProperties DEF N
  <2> QED  BY <1>1, <1>10, <2>1
<1>14. NewContacts(ks, {})
  <2>1. \A n \in 1..Len(ks) : n = 1 /\ ks[n] = contact
    BY <1>11
  <2>2. ~HasFirst(c) => \A j \in 1..K : contacts[j].primary => contacts[j].client # c
    BY <1>1 DEF HasFirst
  <2>3. \A n \in 1..Len(ks) :
          /\ ks[n].active /\ ks[n].client \in 1..Len(clients')
          /\ ks[n].primary =>
               /\ \A j \in 1..K : contacts[j].primary => contacts[j].client # ks[n].client
               /\ \A m \in 1..Len(ks) : ks[m].primary /\ ks[m].client = ks[n].client => m = n
    BY <1>9, <1>13, <2>1, <2>2
  <2> QED  BY <1>11, <2>3 DEF NewContacts, K
<1>15. affiliations' \subseteq (1..Len(clients')) \X (1..Len(clients'))
  <2>1. \A x \in 1..N : x \in 1..Len(clients')
    BY <1>1, <1>10, <1>13
  <2> QED  BY <1>3, <2>1 DEF DirectoryInv, N
<1>16. DirectoryInv' /\ DirectoryGrows
  <2>1. routes' = routes \cup {} /\ affiliations \subseteq affiliations' /\ runs' = runs
    BY <1>3
  <2> QED  BY <1>10, <1>11, <1>12, <1>14, <1>15, <2>1, DirectoryAdded, FiledStays
<1>17. k \in 1..Len(contacts') /\ contacts'[k].client = c
  <2>1. /\ Len(contacts') = K + Len(ks)
        /\ \A i \in 1..(K + Len(ks)) : contacts'[i] = IF i <= K THEN contacts[i] ELSE ks[i - K]
    BY <1>1, <1>11, ConcatProperties DEF K
  <2>2. CASE k \in 1..K /\ Len(ks) = 0 /\ contacts[k].client = c
    <3>1. k \in 1..(K + Len(ks)) /\ k <= K
      BY <1>1, <2>2
    <3> QED  BY <2>1, <2>2, <3>1
  <2>3. CASE k = K + 1 /\ Len(ks) = 1 /\ ks[1] = contact
    <3>1. k \in 1..(K + Len(ks)) /\ ~(k <= K) /\ k - K = 1
      BY <1>1, <2>3
    <3> QED  BY <1>9, <2>1, <2>3, <3>1
  <2> QED  BY <1>11, <2>2, <2>3
<1>18. WorkPart' /\ Len(leads') = Len(leads) + 1 /\ Len(leads) <= Len(leads') /\ Len(leads) \in Nat
  BY <1>3, <1>6, <1>13, <1>16, <1>17, LeadAdded
<1>19. SubmissionsPart'
  <2>1. Len(leads) + 1 \in 0..Len(leads')
    BY <1>18
  <2> QED  BY <1>3, <1>18, <2>1, SubmissionJudged
<1> QED  BY <1>3, <1>16, <1>18, <1>19

(* The other outcomes of a triage.                                          *)
LEMMA Judging ==
  ASSUME WorkPart, SubmissionsPart, NEW s \in DOMAIN submissions,
         TriageSpam(s) \/ \E lead \in {NoLead} \cup DOMAIN leads : TriageDuplicate(s, lead)
  PROVE  SubmissionsPart' /\ UNCHANGED <<clientVars, staff, time, visits, forms, leads>>
<1>1. Len(leads) \in Nat /\ DOMAIN leads = 1..Len(leads) /\ DOMAIN submissions = 1..Len(submissions)
      /\ \A t \in 1..Len(submissions) : submissions[t].lead \in 0..Len(leads)
  BY DEF WorkPart, SubmissionsPart
<1>2. NoLead \in 0..Len(leads) /\ \A l \in 1..Len(leads) : l \in 0..Len(leads)
  BY <1>1 DEF NoLead
<1>3. UNCHANGED <<clientVars, staff, time, visits, forms, leads>>
  BY DEF TriageSpam, TriageDuplicate
<1>4. PICK status \in {"DUPLICATE", "REJECTED_SPAM"}, lead \in 0..Len(leads) : Open(s) /\ Triaged(s, status, lead)
  <2>1. CASE TriageSpam(s)
    BY <1>2, <2>1 DEF TriageSpam
  <2>2. ASSUME NEW l \in {NoLead} \cup DOMAIN leads, TriageDuplicate(s, l)
        PROVE  \E lead \in 0..Len(leads) : Open(s) /\ Triaged(s, "DUPLICATE", lead)
    <3> DEFINE lead == IF l = NoLead THEN submissions[s].lead ELSE l
    <3>1. Open(s) /\ Triaged(s, "DUPLICATE", lead)
      BY <2>2 DEF TriageDuplicate
    <3>2. lead \in 0..Len(leads)
      BY <1>1, <1>2
    <3> HIDE DEF lead
    <3> QED  BY <3>1, <3>2
  <2> QED  BY <2>1, <2>2
<1>5. WorkPart' /\ Len(leads) <= Len(leads')
  <2>1. UNCHANGED <<clients, contacts, leads, engagements>>
    BY <1>3 DEF clientVars, directory
  <2>2. WorkPart'
    BY <2>1 DEF WorkPart, EngagementsStem, LeadsFit
  <2> QED  BY <1>1, <2>1, <2>2
<1>6. lead \in 0..Len(leads')
  BY <1>3, <1>4
<1>7. SubmissionsPart'
  BY <1>4, <1>5, <1>6, SubmissionJudged
<1> QED  BY <1>3, <1>7

LEMMA OnlyStep ==
  ASSUME NEW form \in [pc : {"new", "let in", "refused"}], NEW p \in {"let in", "refused"}
  PROVE  LET row == [form EXCEPT !.pc = p]
         IN row \in FormRows /\ row \notin Looks
<1> DEFINE row == [form EXCEPT !.pc = p]
<1>1. row \in [pc : {"new", "let in", "refused"}]
  OBVIOUS
<1> HIDE DEF row
<1>2. DOMAIN row = {"pc"} /\ \A q \in Looks : "name" \in DOMAIN q
  BY <1>1 DEF Looks
<1> QED  BY <1>1, <1>2 DEF FormRows, row

(* A submission is looked at, and stored as it then was.                    *)
LEMMA FormStep ==
  ASSUME VisitsInv, FormsInv, WorkPart, SubmissionsPart, NEW v \in Visitors,
         \/ \E a \in Addresses : Visit(v, a)
         \/ \E name \in Names, email \in Emails : Look(v, name, email)
         \/ NotHuman(v) \/ Store(v)
  PROVE  /\ VisitsInv' /\ FormsInv' /\ SubmissionsPart'
         /\ UNCHANGED <<clientVars, staff, time, leads>>
<1>1. /\ DOMAIN forms = Visitors
      /\ \A w \in Visitors : forms[w] \in FormRows /\ (forms[w] \in Looks => forms[w].lead \in 0..Len(leads))
  BY DEF FormsInv
<1>2. forms[v] \in [pc : {"new", "let in", "refused"}] \/ forms[v] \in Looks
  BY <1>1 DEF FormRows
<1>3. Len(leads) \in Nat /\ DOMAIN leads = 1..Len(leads) /\ DOMAIN submissions = 1..Len(submissions)
      /\ Len(submissions) \in Nat /\ submissions \in Seq(SubmissionRows)
      /\ \A t \in 1..Len(submissions) : submissions[t].lead \in 0..Len(leads)
  BY DEF WorkPart, SubmissionsPart
<1>4. ASSUME NEW row \in FormRows, row \in Looks => row.lead \in 0..Len(leads),
             forms' = [forms EXCEPT ![v] = row], leads' = leads
      PROVE  FormsInv'
  BY <1>1, <1>4 DEF FormsInv
<1>5. ASSUME submissions' = submissions, leads' = leads PROVE SubmissionsPart'
  BY <1>5 DEF SubmissionsPart, AcceptedOnce
<1>6. ASSUME NEW p \in {"let in", "refused"}, forms[v] \in [pc : {"new", "let in", "refused"}],
             forms' = [forms EXCEPT ![v].pc = p], leads' = leads
      PROVE  FormsInv'
  <2> DEFINE row == [forms[v] EXCEPT !.pc = p]
  <2>1. row \in FormRows /\ row \notin Looks
    BY <1>6, OnlyStep
  <2>2. forms' = [forms EXCEPT ![v] = row]
    BY <1>1, <1>6
  <2> HIDE DEF row
  <2> QED  BY <1>4, <1>6, <2>1, <2>2
<1>7. ASSUME NEW a \in Addresses, Visit(v, a)
      PROVE  /\ VisitsInv' /\ FormsInv' /\ SubmissionsPart'
             /\ UNCHANGED <<clientVars, staff, time, leads>>
  <2>1. /\ forms[v].pc = "new" /\ UNCHANGED <<clientVars, staff, time, submissions, leads>>
        /\ \E p \in {"let in", "refused"} : forms' = [forms EXCEPT ![v].pc = p]
    BY <1>7 DEF Visit
  <2>2. PICK p \in {"let in", "refused"} : forms' = [forms EXCEPT ![v].pc = p]
    BY <2>1
  <2>3. forms[v] \in [pc : {"new", "let in", "refused"}]
    BY <1>2, <2>1 DEF Looks
  <2>4. FormsInv'
    BY <1>6, <2>1, <2>2, <2>3
  <2> QED  BY <1>5, <1>7, <2>1, <2>4, Visiting
<1>8. ASSUME NotHuman(v)
      PROVE  /\ VisitsInv' /\ FormsInv' /\ SubmissionsPart'
             /\ UNCHANGED <<clientVars, staff, time, leads>>
  <2>1. /\ forms[v].pc = "let in" /\ UNCHANGED <<clientVars, staff, time, visits, submissions, leads>>
        /\ forms' = [forms EXCEPT ![v].pc = "refused"]
    BY <1>8 DEF NotHuman
  <2>2. forms[v] \in [pc : {"new", "let in", "refused"}]
    BY <1>2, <2>1 DEF Looks
  <2>3. FormsInv'
    BY <1>6, <2>1, <2>2
  <2>4. VisitsInv'
    BY <2>1 DEF VisitsInv, VisitsAreLimited
  <2> QED  BY <1>5, <2>1, <2>3, <2>4
<1>9. ASSUME NEW name \in Names, NEW email \in Emails, Look(v, name, email)
      PROVE  /\ VisitsInv' /\ FormsInv' /\ SubmissionsPart'
             /\ UNCHANGED <<clientVars, staff, time, leads>>
  <2>1. /\ UNCHANGED <<clientVars, staff, time, visits, submissions, leads>>
        /\ \E status \in {"RECEIVED", "DUPLICATE", "REJECTED_SPAM"}, lead \in Repeated(email) :
             forms' = [forms EXCEPT ![v] =
               [pc |-> "looked", name |-> name, email |-> email, status |-> status, created |-> time,
                lead |-> IF status = "DUPLICATE" THEN lead ELSE NoLead]]
    BY <1>9 DEF Look
  <2>2. PICK status \in {"RECEIVED", "DUPLICATE", "REJECTED_SPAM"}, lead \in Repeated(email) :
             forms' = [forms EXCEPT ![v] =
               [pc |-> "looked", name |-> name, email |-> email, status |-> status, created |-> time,
                lead |-> IF status = "DUPLICATE" THEN lead ELSE NoLead]]
    BY <2>1
  <2>3. NoLead \in 0..Len(leads) /\ \A l \in 1..Len(leads) : l \in 0..Len(leads)
    BY <1>3 DEF NoLead
  <2>4. lead \in 0..Len(leads)
    <3>1. Repeated(email) \subseteq {submissions[t].lead : t \in DOMAIN submissions} \cup {NoLead} \cup DOMAIN leads
      BY DEF Repeated, Latest, Prior, Matching
    <3> QED  BY <1>3, <2>2, <2>3, <3>1
  <2> DEFINE own == IF status = "DUPLICATE" THEN lead ELSE NoLead
             row == [pc |-> "looked", name |-> name, email |-> email, status |-> status, created |-> time,
                     lead |-> own]
  <2>5. own \in 0..Len(leads) /\ own \in Nat /\ time \in Nat
    <3>1. own \in 0..Len(leads)
      BY <2>3, <2>4
    <3>2. time \in Nat /\ \A l \in 0..Len(leads) : l \in Nat
      BY <1>3, IntakeAssumption DEF VisitsInv
    <3> HIDE DEF own
    <3> QED  BY <3>1, <3>2
  <2> HIDE DEF own
  <2>6. row \in Looks /\ row.lead = own
    BY <1>9, <2>2, <2>5 DEF Looks
  <2>7. forms' = [forms EXCEPT ![v] = row]
    BY <2>2 DEF own
  <2> HIDE DEF row
  <2>8. FormsInv'
    BY <1>4, <2>1, <2>5, <2>6, <2>7 DEF FormRows
  <2>9. VisitsInv'
    BY <2>1 DEF VisitsInv, VisitsAreLimited
  <2> QED  BY <1>5, <2>1, <2>8, <2>9
<1>10. ASSUME Store(v)
       PROVE  /\ VisitsInv' /\ FormsInv' /\ SubmissionsPart'
              /\ UNCHANGED <<clientVars, staff, time, leads>>
  <2> DEFINE new == [name |-> forms[v].name, email |-> forms[v].email, status |-> forms[v].status,
                     lead |-> forms[v].lead, created |-> forms[v].created]
             row == [forms[v] EXCEPT !.pc = "stored"]
             S == Len(submissions)
  <2>1. /\ forms[v].pc = "looked" /\ UNCHANGED <<clientVars, staff, time, visits, leads>>
        /\ forms' = [forms EXCEPT ![v].pc = "stored"]
        /\ submissions' = Append(submissions, new)
    BY <1>10 DEF Store
  <2>2. forms[v] \in Looks /\ forms[v].lead \in 0..Len(leads)
    BY <1>1, <1>2, <2>1
  <2>3. row \in Looks /\ row.lead = forms[v].lead
    BY <2>2 DEF Looks
  <2>4. forms' = [forms EXCEPT ![v] = row]
    BY <1>1, <2>1
  <2>5. new \in SubmissionRows /\ new.lead = forms[v].lead /\ new.status # "ACCEPTED_AS_LEAD"
    BY <2>2 DEF Looks, SubmissionRows
  <2> HIDE DEF new, row
  <2>6. FormsInv'
    BY <1>4, <2>1, <2>2, <2>3, <2>4 DEF FormRows
  <2>7. VisitsInv'
    BY <2>1 DEF VisitsInv, VisitsAreLimited
  <2>8. /\ submissions' \in Seq(SubmissionRows) /\ Len(submissions') = S + 1
        /\ \A t \in 1..S : submissions'[t] = submissions[t]
        /\ submissions'[S + 1] = new
    BY <1>3, <2>1, <2>5, AppendProperties
  <2> HIDE DEF S
  <2>9. DOMAIN submissions' = 1..(S + 1) /\ DOMAIN submissions = 1..S
        /\ \A t \in 1..(S + 1) : t \in 1..S \/ t = S + 1
    BY <1>3, <2>8 DEF S
  <2>10. AcceptedOnce'
    <3>1. AcceptedOnce
      BY DEF SubmissionsPart
    <3> QED  BY <2>5, <2>8, <2>9, <3>1 DEF AcceptedOnce
  <2>11. \A t \in 1..(S + 1) : submissions'[t].lead \in 0..Len(leads)
    BY <1>3, <2>2, <2>5, <2>8, <2>9 DEF S
  <2>12. SubmissionsPart'
    BY <2>1, <2>8, <2>10, <2>11 DEF SubmissionsPart
  <2> QED  BY <2>1, <2>6, <2>7, <2>12
<1> QED  BY <1>7, <1>8, <1>9, <1>10

----
(* All of it.                                                               *)
IntakeInv == DirectoryInv /\ RunsInv /\ LeadsInv /\ PeopleInv /\ VisitsInv /\ FormsInv

LEMMA IntakeImplies ==
  ASSUME IntakeInv
  PROVE  IntakeTypeOK /\ DirectoryHolds
<1>1. DirectoryInv /\ RunsInv /\ LeadsInv /\ PeopleInv /\ VisitsInv /\ FormsInv
  BY DEF IntakeInv
<1>2. /\ DirectoryRows /\ Grounded /\ KindsAndParents /\ FirstsInv
      /\ affiliations \subseteq (1..Len(clients)) \X (1..Len(clients))
  BY <1>1 DEF DirectoryInv
<1>3. /\ clients \in Seq(ClientRows) /\ contacts \in Seq(ContactRows) /\ routes \subseteq RouteRows
      /\ Len(clients) \in Nat /\ Len(contacts) \in Nat
      /\ DOMAIN clients = 1..Len(clients) /\ DOMAIN contacts = 1..Len(contacts)
      /\ \A c \in 1..Len(clients) : clients[c] \in ClientRows /\ clients[c].parent \in 0..Len(clients)
      /\ \A k \in 1..Len(contacts) : contacts[k] \in ContactRows /\ contacts[k].client \in 1..Len(clients)
      /\ \A r \in routes :
           r \in RouteRows /\ r.contact \in 1..Len(contacts) /\ contacts[r.contact].client = r.client
  BY <1>2 DEF DirectoryRows
<1>4. runs \in Seq(RunRows) /\ DOMAIN runs = 1..Len(runs) /\ \A r \in 1..Len(runs) : runs[r] \in RunRows
  BY <1>1 DEF RunsInv
<1>5. ClientsTypeOK
  <2>1. \A c \in 1..Len(clients) : clients[c].parent \in {NoClient} \cup 1..Len(clients)
    BY <1>3 DEF NoClient
  <2>2. \A c \in DOMAIN clients :
          /\ clients[c].code \in STRING /\ clients[c].name \in Names
          /\ clients[c].kind \in ClientKinds /\ clients[c].active \in BOOLEAN
          /\ clients[c].parent \in {NoClient} \cup DOMAIN clients
    BY <1>3, <2>1 DEF ClientRows
  <2>3. \A k \in DOMAIN contacts :
          /\ contacts[k].client \in DOMAIN clients /\ contacts[k].role \in Roles
          /\ contacts[k].email \in Emails \cup {NoEmail}
          /\ contacts[k].primary \in BOOLEAN /\ contacts[k].active \in BOOLEAN
    BY <1>3 DEF ContactRows
  <2>4. \A r \in routes :
          r.contact \in DOMAIN contacts /\ r.purpose \in Purposes /\ contacts[r.contact].client = r.client
    BY <1>3 DEF RouteRows
  <2>5. \A r \in DOMAIN runs :
          runs[r].file \in Files /\ runs[r].status \in {"VALIDATED", "APPLIED", "REJECTED"}
    BY <1>4 DEF RunRows
  <2> QED  BY <1>2, <1>3, <2>2, <2>3, <2>4, <2>5 DEF ClientsTypeOK
<1>6. DirectoryTypeOK
  <2>1. /\ \A s \in DOMAIN staff : staff[s] \in Grades
        /\ \A a \in DOMAIN profiles : profiles[a] \in ProfileRows
        /\ DOMAIN profiles = 1..Len(profiles) /\ DOMAIN staff = 1..Len(staff)
    BY <1>1 DEF PeopleInv
  <2>2. \A a \in DOMAIN profiles :
          profiles[a].of \in IF profiles[a].persona = "CLIENT" THEN DOMAIN contacts ELSE DOMAIN staff
    BY <1>1, <1>3, <2>1 DEF PeopleInv
  <2> QED  BY <2>1, <2>2 DEF DirectoryTypeOK, ProfileRows
<1>7. /\ leads \in Seq(LeadRows) /\ engagements \in Seq(EngagementRows) /\ submissions \in Seq(SubmissionRows)
      /\ Len(leads) \in Nat /\ Len(engagements) \in Nat
      /\ DOMAIN leads = 1..Len(leads) /\ DOMAIN engagements = 1..Len(engagements)
      /\ DOMAIN submissions = 1..Len(submissions)
      /\ \A l \in 1..Len(leads) :
           /\ leads[l] \in LeadRows
           /\ leads[l].client \in 1..Len(clients) /\ leads[l].contact \in 1..Len(contacts)
           /\ leads[l].engagement \in 0..Len(engagements)
      /\ \A s \in 1..Len(submissions) : submissions[s] \in SubmissionRows /\ submissions[s].lead \in 0..Len(leads)
  BY <1>1 DEF LeadsInv
<1>8. IntakeTypeOK
  <2>1. time \in 0..MaxTime /\ visits \subseteq [by : Visitors, from : Addresses, at : 0..time]
    BY <1>1 DEF VisitsInv
  <2>2. /\ \A x \in 0..Len(leads) : x \in {NoLead} \cup 1..Len(leads)
        /\ \A x \in 0..Len(engagements) : x \in {0} \cup 1..Len(engagements)
    BY <1>7 DEF NoLead
  <2>3. \A s \in DOMAIN submissions :
          /\ submissions[s].status \in {"RECEIVED", "DUPLICATE", "REJECTED_SPAM", "ACCEPTED_AS_LEAD"}
          /\ submissions[s].lead \in {NoLead} \cup DOMAIN leads
    BY <1>7, <2>2 DEF SubmissionRows
  <2>4. \A l \in DOMAIN leads :
          /\ leads[l].client \in DOMAIN clients /\ leads[l].contact \in DOMAIN contacts
          /\ leads[l].status \in {"OPEN", "CONVERTED", "LOST"}
          /\ leads[l].engagement \in {0} \cup DOMAIN engagements
    BY <1>3, <1>7, <2>2 DEF LeadRows
  <2> QED  BY <1>5, <1>6, <2>1, <2>3, <2>4 DEF IntakeTypeOK
<1>9. ClientsFormAForest
  <2>1. \A c \in 1..Len(clients) : clients[c].parent # NoClient => c \notin Above(clients[c].parent)
    BY <1>2, AboveGrounded
  <2> QED  BY <1>2, <1>3, <2>1 DEF ClientsFormAForest, KindsAndParents
<1>10. FirstsAreUnique
  BY <1>2 DEF FirstsInv
<1>11. ImportsMapOnce
  BY <1>1, <1>4, OnceMapped DEF RunsInv
<1>12. ApproversRemain /\ WorkKeepsItsClient /\ VisitsAreLimited
  BY <1>1 DEF PeopleInv, LeadsInv, VisitsInv
<1> QED  BY <1>8, <1>9, <1>10, <1>11, <1>12 DEF DirectoryHolds

LEMMA IntakeStarts ==
  ASSUME IntakeInit
  PROVE  IntakeInv
<1>1. /\ clients = << >> /\ contacts = << >> /\ routes = {} /\ affiliations = {}
      /\ runs = << >> /\ engagements = << >>
      /\ staff = <<"PARTNER">> /\ profiles = <<Profile("APPROVER", 1)>>
      /\ time = 0 /\ visits = {}
      /\ forms = [v \in Visitors |-> [pc |-> "new"]]
      /\ submissions = << >> /\ leads = << >>
  BY DEF IntakeInit, ClientsInit, DirectoryInit
<1>2. \A S : << >> \in Seq(S) /\ Len(<< >>) = 0 /\ 1..0 = {} /\ DOMAIN << >> = {}
  OBVIOUS
<1>3. DirectoryInv
  <2>1. DirectoryRows
    BY <1>1, <1>2 DEF DirectoryRows
  <2>2. Grounded /\ KindsAndParents
    BY <1>1, <1>2 DEF Grounded, KindsAndParents
  <2>3. FirstsInv
    BY <1>1, <1>2 DEF FirstsInv, FirstsAreUnique
  <2> QED  BY <1>1, <2>1, <2>2, <2>3 DEF DirectoryInv
<1>4. RunsInv
  BY <1>1, <1>2 DEF RunsInv, NoneTwice
<1>5. LeadsInv
  BY <1>1, <1>2 DEF LeadsInv, WorkKeepsItsClient
<1>6. PeopleInv
  <2> DEFINE row == Profile("APPROVER", 1)
  <2>1. row \in ProfileRows /\ row.persona = "APPROVER" /\ row.of = 1 /\ row.active
    BY DEF Profile, ProfileRows, Personas
  <2> HIDE DEF row
  <2>2. staff \in Seq(Grades) /\ Len(staff) = 1 /\ staff[1] = "PARTNER" /\ 1..1 = {1}
    BY <1>1, DirectoryAssumption
  <2>3. profiles \in Seq(ProfileRows) /\ Len(profiles) = 1 /\ profiles[1] = row /\ DOMAIN profiles = {1}
    <3>1. profiles = <<row>>
      BY <1>1 DEF row
    <3> QED  BY <2>1, <3>1
  <2>4. 1 \in Approvers
    BY <2>1, <2>3 DEF Approvers
  <2>5. ApproversRemain
    BY <2>1, <2>2, <2>3, <2>4 DEF ApproversRemain, GradeFits
  <2> QED  BY <2>1, <2>2, <2>3, <2>5 DEF PeopleInv
<1>7. VisitsInv
  <2>1. time \in 0..MaxTime /\ visits \subseteq [by : Visitors, from : Addresses, at : 0..time]
    BY <1>1, IntakeAssumption
  <2>2. IsFiniteSet(visits) /\ Cardinality({}) = 0
    BY <1>1, FS_EmptySet
  <2>3. VisitsAreLimited
    <3>1. \A a, t : {h \in visits : h.from = a /\ t < h.at + Window /\ h.at <= t} = {}
      BY <1>1
    <3> QED  BY <2>2, <3>1, IntakeAssumption DEF VisitsAreLimited
  <2> QED  BY <2>1, <2>2, <2>3 DEF VisitsInv
<1>8. FormsInv
  <2>1. [pc |-> "new"] \in FormRows /\ [pc |-> "new"] \notin Looks
    <3>1. DOMAIN [pc |-> "new"] = {"pc"} /\ \A q \in Looks : "name" \in DOMAIN q
      BY DEF Looks
    <3> QED  BY <3>1 DEF FormRows
  <2> QED  BY <1>1, <2>1 DEF FormsInv
<1> QED  BY <1>3, <1>4, <1>5, <1>6, <1>7, <1>8 DEF IntakeInv

(* A command of the directory: whoever refers to it still may.              *)
LEMMA CommandApplied ==
  ASSUME IntakeInv, DirectoryInv', DirectoryGrows, RunsInv',
         UNCHANGED <<engagements, profiles, staff, webVars, leads>>
  PROVE  IntakeInv'
<1>1. UNCHANGED <<leads, engagements, submissions, staff, profiles, time, visits, forms>>
  BY DEF webVars
<1>2. LeadsInv'
  BY <1>1, LeadsStay DEF IntakeInv
<1>3. PeopleInv'
  BY <1>1, PeopleStay DEF IntakeInv
<1>4. VisitsInv' /\ FormsInv'
  BY <1>1 DEF IntakeInv, VisitsInv, VisitsAreLimited, FormsInv
<1> QED  BY <1>2, <1>3, <1>4 DEF IntakeInv

LEMMA ClientStep ==
  ASSUME IntakeInv, ClientNext, UNCHANGED <<staff, webVars, leads>>
  PROVE  IntakeInv'
<1>1. DirectoryInv
  BY DEF IntakeInv
<1>2. DirectoryInv' /\ DirectoryGrows /\ UNCHANGED <<runs, engagements, profiles>>
  <2>1. ASSUME NEW name \in Names, NEW kind \in ClientKinds, NEW parent \in {NoClient} \cup DOMAIN clients,
               NEW code \in ClientCodes, NEW role \in Roles,
               ClientCreate(code, name, kind, parent, NoEmail, role)
        PROVE  DirectoryInv' /\ DirectoryGrows /\ UNCHANGED <<runs, engagements, profiles>>
    BY <1>1, <2>1, ClientCreating DEF ClientCreate
  <2>2. ASSUME NEW name \in Names, NEW kind \in ClientKinds, NEW parent \in {NoClient} \cup DOMAIN clients,
               NEW c \in DOMAIN clients, ClientUpdate(c, name, kind, parent)
        PROVE  DirectoryInv' /\ DirectoryGrows /\ UNCHANGED <<runs, engagements, profiles>>
    BY <1>1, <2>2, ClientUpdating DEF ClientUpdate
  <2>3. ASSUME NEW c \in DOMAIN clients, NEW d \in DOMAIN clients, AffiliationAdd(c, d)
        PROVE  DirectoryInv' /\ DirectoryGrows /\ UNCHANGED <<runs, engagements, profiles>>
    BY <1>1, <2>3, AffiliationAdding DEF AffiliationAdd
  <2>4. ASSUME NEW c \in DOMAIN clients, ClientDeactivate(c)
        PROVE  DirectoryInv' /\ DirectoryGrows /\ UNCHANGED <<runs, engagements, profiles>>
    BY <1>1, <2>4, ClientDeactivating DEF ClientDeactivate
  <2> QED  BY <2>1, <2>2, <2>3, <2>4 DEF ClientNext
<1>3. RunsInv'
  BY <1>2, RunsStay DEF IntakeInv
<1> QED  BY <1>2, <1>3, CommandApplied

LEMMA ContactStep ==
  ASSUME IntakeInv, ContactNext, UNCHANGED <<staff, webVars, leads>>
  PROVE  IntakeInv'
<1>1. DirectoryInv
  BY DEF IntakeInv
<1>2. DirectoryInv' /\ DirectoryGrows /\ UNCHANGED <<runs, engagements, profiles>>
  <2>1. ASSUME NEW c \in DOMAIN clients, NEW role \in Roles, NEW email \in Emails \cup {NoEmail},
               ContactCreate(c, email, role)
        PROVE  DirectoryInv' /\ DirectoryGrows /\ UNCHANGED <<runs, engagements, profiles>>
    BY <1>1, <2>1, ContactCreating DEF ContactCreate
  <2>2. ASSUME NEW k \in DOMAIN contacts, NEW role \in Roles, NEW email \in Emails \cup {NoEmail},
               NEW primary \in BOOLEAN, NEW active \in BOOLEAN, ContactUpdate(k, email, role, primary, active)
        PROVE  DirectoryInv' /\ DirectoryGrows /\ UNCHANGED <<runs, engagements, profiles>>
    BY <1>1, <2>2, ContactUpdating DEF ContactUpdate
  <2>3. ASSUME NEW k \in DOMAIN contacts, NEW purpose \in Purposes, NEW primary \in BOOLEAN,
               ContactRoute(k, purpose, primary)
        PROVE  DirectoryInv' /\ DirectoryGrows /\ UNCHANGED <<runs, engagements, profiles>>
    BY <1>1, <2>3, ContactRouting DEF ContactRoute
  <2> QED  BY <2>1, <2>2, <2>3 DEF ContactNext
<1>3. RunsInv'
  BY <1>2, RunsStay DEF IntakeInv
<1> QED  BY <1>2, <1>3, CommandApplied

LEMMA ImportStep ==
  ASSUME IntakeInv, ImportNext, UNCHANGED <<staff, webVars, leads>>
  PROVE  IntakeInv'
<1>1. DirectoryInv /\ RunsInv
  BY DEF IntakeInv
<1>2. ASSUME NEW f \in Files, ImportValidate(f) PROVE IntakeInv'
  <2>1. DirectoryInv' /\ DirectoryGrows /\ RunsInv'
    BY <1>1, <1>2, ImportJudged
  <2> QED  BY <1>2, <2>1, CommandApplied DEF ImportValidate
<1>3. ASSUME NEW r \in DOMAIN runs, ImportApply(r) PROVE IntakeInv'
  <2>1. r \in 1..Len(runs)
    BY <1>1 DEF RunsInv
  <2>2. DirectoryInv' /\ DirectoryGrows
    BY <1>1, <1>3, <2>1, ImportApplying
  <2>3. RunsInv'
    BY <1>1, <1>3, <2>1, ImportContinues
  <2>4. UNCHANGED <<engagements, profiles>>
    BY <1>3, ImportApplied
  <2> QED  BY <2>2, <2>3, <2>4, CommandApplied
<1> QED  BY <1>2, <1>3 DEF ImportNext

LEMMA PeopleChange ==
  ASSUME IntakeInv, DirectoryNext, UNCHANGED <<webVars, leads>>
  PROVE  IntakeInv'
<1>1. PeopleInv' /\ UNCHANGED <<clients, contacts, routes, affiliations, runs, engagements>>
  BY PeopleStep DEF IntakeInv
<1>2. DirectoryInv' /\ DirectoryGrows
  BY <1>1, DirectoryStays, FiledStays DEF IntakeInv
<1>3. RunsInv'
  BY <1>1, <1>2, RunsStay DEF IntakeInv
<1>4. UNCHANGED <<leads, engagements, submissions, time, visits, forms>>
  BY <1>1 DEF webVars
<1>5. LeadsInv'
  BY <1>2, <1>4, LeadsStay DEF IntakeInv
<1>6. VisitsInv' /\ FormsInv'
  BY <1>4 DEF IntakeInv, VisitsInv, VisitsAreLimited, FormsInv
<1> QED  BY <1>1, <1>2, <1>3, <1>5, <1>6 DEF IntakeInv

(* Outside the directory: it and what refers to it stay.                    *)
LEMMA DirectoryUntouched ==
  ASSUME IntakeInv, UNCHANGED <<clients, contacts, routes, affiliations, runs, profiles, staff>>
  PROVE  DirectoryInv' /\ DirectoryGrows /\ RunsInv' /\ PeopleInv'
<1>1. DirectoryInv' /\ DirectoryGrows
  BY DirectoryStays, FiledStays DEF IntakeInv
<1>2. RunsInv'
  BY <1>1, RunsStay DEF IntakeInv
<1>3. PeopleInv'
  BY <1>1, PeopleStay DEF IntakeInv
<1> QED  BY <1>1, <1>2, <1>3

LEMMA WebStep ==
  ASSUME IntakeInv, WebNext
  PROVE  IntakeInv'
<1>1. VisitsInv /\ FormsInv /\ WorkPart /\ SubmissionsPart
  BY LeadsParts DEF IntakeInv
<1>2. /\ VisitsInv' /\ FormsInv' /\ SubmissionsPart'
      /\ UNCHANGED <<clients, contacts, routes, affiliations, runs, engagements, profiles, staff, leads>>
  <2>1. CASE Tick
    <3>1. UNCHANGED <<clients, contacts, routes, affiliations, runs, engagements, profiles, staff, leads,
                      submissions, forms>>
      BY <2>1 DEF Tick, clientVars, directory
    <3>2. FormsInv' /\ SubmissionsPart'
      BY <1>1, <3>1 DEF FormsInv, SubmissionsPart, AcceptedOnce
    <3> QED  BY <1>1, <2>1, <3>1, <3>2, TimePasses
  <2>2. ASSUME NEW v \in Visitors,
               \/ \E a \in Addresses : Visit(v, a)
               \/ \E name \in Names, email \in Emails : Look(v, name, email)
               \/ NotHuman(v) \/ Store(v)
        PROVE  /\ VisitsInv' /\ FormsInv' /\ SubmissionsPart'
               /\ UNCHANGED <<clients, contacts, routes, affiliations, runs, engagements, profiles, staff, leads>>
    <3>1. /\ VisitsInv' /\ FormsInv' /\ SubmissionsPart'
          /\ UNCHANGED <<clientVars, staff, time, leads>>
      BY <1>1, <2>2, FormStep
    <3> QED  BY <3>1 DEF clientVars, directory
  <2> QED  BY <2>1, <2>2 DEF WebNext
<1>3. DirectoryInv' /\ RunsInv' /\ PeopleInv'
  BY <1>2, DirectoryUntouched
<1>4. WorkPart'
  BY <1>1, <1>2 DEF WorkPart, EngagementsStem, LeadsFit
<1> QED  BY <1>2, <1>3, <1>4, LeadsParts DEF IntakeInv

LEMMA TriageStep ==
  ASSUME IntakeInv, TriageNext
  PROVE  IntakeInv'
<1>1. VisitsInv /\ FormsInv /\ WorkPart /\ SubmissionsPart /\ DirectoryInv
  BY LeadsParts DEF IntakeInv
<1>2. PICK s \in DOMAIN submissions :
        \/ TriageAccept(s)
        \/ TriageSpam(s) \/ \E lead \in {NoLead} \cup DOMAIN leads : TriageDuplicate(s, lead)
  BY DEF TriageNext
<1>3. CASE TriageAccept(s)
  <2>1. /\ DirectoryInv' /\ DirectoryGrows /\ WorkPart' /\ SubmissionsPart' /\ Len(leads) <= Len(leads')
        /\ UNCHANGED <<runs, profiles, staff, time, visits, forms>>
    BY <1>1, <1>2, <1>3, Accepting
  <2>2. RunsInv' /\ PeopleInv'
    BY <2>1, RunsStay, PeopleStay DEF IntakeInv
  <2>3. FormsInv'
    BY <1>1, <2>1, ReferencesStay
  <2>4. VisitsInv'
    BY <1>1, <2>1 DEF VisitsInv, VisitsAreLimited
  <2> QED  BY <2>1, <2>2, <2>3, <2>4, LeadsParts DEF IntakeInv
<1>4. CASE TriageSpam(s) \/ \E lead \in {NoLead} \cup DOMAIN leads : TriageDuplicate(s, lead)
  <2>1. SubmissionsPart' /\ UNCHANGED <<clientVars, staff, time, visits, forms, leads>>
    BY <1>1, <1>2, <1>4, Judging
  <2>2. UNCHANGED <<clients, contacts, routes, affiliations, runs, engagements, profiles, staff, time, visits, forms, leads>>
    BY <2>1 DEF clientVars, directory
  <2>3. DirectoryInv' /\ RunsInv' /\ PeopleInv'
    BY <2>2, DirectoryUntouched
  <2>4. WorkPart'
    BY <1>1, <2>2 DEF WorkPart, EngagementsStem, LeadsFit
  <2>5. VisitsInv' /\ FormsInv'
    BY <1>1, <2>2 DEF VisitsInv, VisitsAreLimited, FormsInv
  <2> QED  BY <2>1, <2>3, <2>4, <2>5, LeadsParts DEF IntakeInv
<1> QED  BY <1>2, <1>3, <1>4

LEMMA WorkApplied ==
  ASSUME IntakeInv, DirectoryInv', DirectoryGrows, WorkPart', Len(leads) <= Len(leads'),
         UNCHANGED <<runs, profiles, staff, webVars>>
  PROVE  IntakeInv'
<1>1. VisitsInv /\ FormsInv /\ WorkPart /\ SubmissionsPart
  BY LeadsParts DEF IntakeInv
<1>2. UNCHANGED <<time, visits, forms, submissions>>
  BY DEF webVars
<1>3. RunsInv' /\ PeopleInv'
  BY RunsStay, PeopleStay DEF IntakeInv
<1>4. SubmissionsPart' /\ FormsInv'
  BY <1>1, <1>2, ReferencesStay
<1>5. VisitsInv'
  BY <1>1, <1>2 DEF VisitsInv, VisitsAreLimited
<1> QED  BY <1>3, <1>4, <1>5, LeadsParts DEF IntakeInv

LEMMA ProspectStep ==
  ASSUME IntakeInv, ProspectNext
  PROVE  IntakeInv'
<1>1. WorkPart /\ DirectoryInv
  BY LeadsParts DEF IntakeInv
<1>2. PICK code \in ClientCodes, name \in Names, email \in Emails, role \in Roles :
        LeadOfProspect(code, name, email, role)
  BY DEF ProspectNext
<1>3. DirectoryInv' /\ DirectoryGrows
  BY <1>1, <1>2, ProspectRegistered
<1>4. WorkPart' /\ Len(leads) <= Len(leads')
  BY <1>1, <1>2, <1>3, ProspectLead
<1>5. UNCHANGED <<runs, profiles, staff, webVars>>
  BY <1>2 DEF LeadOfProspect
<1> QED  BY <1>3, <1>4, <1>5, WorkApplied

LEMMA LeadStep ==
  ASSUME IntakeInv, LeadNext
  PROVE  IntakeInv'
<1>1. WorkPart /\ DirectoryInv /\ Len(leads) \in Nat
  <2>1. WorkPart /\ DirectoryInv
    BY LeadsParts DEF IntakeInv
  <2> QED  BY <2>1 DEF WorkPart
<1>2. /\ UNCHANGED <<clients, contacts, routes, affiliations, runs, profiles, staff, webVars>>
      /\ \/ \E c \in DOMAIN clients, k \in DOMAIN contacts : LeadOfClient(c, k)
         \/ WorkPart' /\ Len(leads') = Len(leads)
  <2>1. ASSUME NEW c \in DOMAIN clients, NEW k \in DOMAIN contacts, LeadOfClient(c, k)
        PROVE  UNCHANGED <<clients, contacts, routes, affiliations, runs, profiles, staff, webVars>>
    BY <2>1 DEF LeadOfClient, clientVars, directory
  <2>2. ASSUME NEW l \in DOMAIN leads, LeadLose(l)
        PROVE  /\ UNCHANGED <<clients, contacts, routes, affiliations, runs, profiles, staff, webVars>>
               /\ WorkPart' /\ Len(leads') = Len(leads)
    BY <1>1, <2>2, LeadLosing DEF LeadLose, clientVars, directory
  <2>3. ASSUME NEW l \in DOMAIN leads, LeadConvert(l)
        PROVE  /\ UNCHANGED <<clients, contacts, routes, affiliations, runs, profiles, staff, webVars>>
               /\ WorkPart' /\ Len(leads') = Len(leads)
    BY <1>1, <2>3, LeadConverting DEF LeadConvert, clientVars, directory
  <2>4. ASSUME NEW l \in DOMAIN leads, NEW k \in DOMAIN contacts, LeadUpdate(l, k)
        PROVE  /\ UNCHANGED <<clients, contacts, routes, affiliations, runs, profiles, staff, webVars>>
               /\ WorkPart' /\ Len(leads') = Len(leads)
    BY <1>1, <2>4, LeadUpdating DEF LeadUpdate, clientVars, directory
  <2>5. ASSUME NEW e \in DOMAIN engagements, EngagementAdvance(e) \/ EngagementSealed(e)
        PROVE  /\ UNCHANGED <<clients, contacts, routes, affiliations, runs, profiles, staff, webVars>>
               /\ WorkPart' /\ Len(leads') = Len(leads)
    BY <1>1, <2>5, EngagementChanging DEF EngagementAdvance, EngagementSealed, clientVars, directory
  <2> QED  BY <2>1, <2>2, <2>3, <2>4, <2>5 DEF LeadNext
<1>3. DirectoryInv' /\ DirectoryGrows
  BY <1>2, DirectoryUntouched
<1>4. WorkPart' /\ Len(leads) <= Len(leads')
  <2>1. CASE WorkPart' /\ Len(leads') = Len(leads)
    BY <1>1, <2>1
  <2>2. ASSUME NEW c \in DOMAIN clients, NEW k \in DOMAIN contacts, LeadOfClient(c, k)
        PROVE  WorkPart' /\ Len(leads) <= Len(leads')
    BY <1>1, <1>3, <2>2, ClientLead
  <2> QED  BY <1>2, <2>1, <2>2
<1> QED  BY <1>2, <1>3, <1>4, WorkApplied

LEMMA IntakeStep ==
  ASSUME IntakeInv, [IntakeNext]_intakeVars
  PROVE  IntakeInv'
<1>1. CASE (ClientNext \/ ImportNext \/ ContactNext) /\ UNCHANGED <<staff, webVars, leads>>
  BY <1>1, ClientStep, ImportStep, ContactStep
<1>2. CASE DirectoryNext /\ UNCHANGED <<webVars, leads>>
  BY <1>2, PeopleChange
<1>3. CASE WebNext \/ TriageNext \/ ProspectNext \/ LeadNext
  BY <1>3, WebStep, TriageStep, ProspectStep, LeadStep
<1>4. CASE UNCHANGED intakeVars
  <2>1. UNCHANGED <<clients, contacts, routes, affiliations, runs, engagements, profiles, staff, webVars, leads>>
    BY <1>4 DEF intakeVars, clientVars, directory
  <2>2. DirectoryInv' /\ DirectoryGrows /\ RunsInv'
    BY <2>1, DirectoryUntouched
  <2> QED  BY <2>1, <2>2, CommandApplied
<1> QED  BY <1>1, <1>2, <1>3, <1>4 DEF IntakeNext

(* The directory holds together whoever changes it, for any number of       *)
(* clients, contacts, imports, inquiries, leads and people: groups are a    *)
(* forest, first contacts and routes are unique, an import maps each of its *)
(* rows once, an approver remains among the staff, work keeps its client,   *)
(* and no address is let in beyond the limit (business.ts,                  *)
(* publicLeadIntake.ts, publicLeadRateLimit.ts).                            *)
THEOREM DirectoryTogether == IntakeSpec => []DirectoryHolds
<1>1. IntakeInit => IntakeInv
  BY IntakeStarts
<1>2. IntakeInv /\ [IntakeNext]_intakeVars => IntakeInv'
  BY IntakeStep
<1>3. IntakeInv => DirectoryHolds
  BY IntakeImplies
<1> QED  BY <1>1, <1>2, <1>3, PTL DEF IntakeSpec

(* And every reference within it is to a row that is there: contacts,       *)
(* routes and leads name clients, submissions name leads, leads name        *)
(* engagements, whatever is imported, triaged or converted in between.      *)
THEOREM IntakeTypes == IntakeSpec => []IntakeTypeOK
<1>1. IntakeInit => IntakeInv
  BY IntakeStarts
<1>2. IntakeInv /\ [IntakeNext]_intakeVars => IntakeInv'
  BY IntakeStep
<1>3. IntakeInv => IntakeTypeOK
  BY IntakeImplies
<1> QED  BY <1>1, <1>2, <1>3, PTL DEF IntakeSpec

----
(* Journals balance, and whatever has a document has its journal.           *)
LEMMA AccountsFinite == IsFiniteSet(Accounts)
<1>1. \A S, x : IsFiniteSet(S) => IsFiniteSet(S \cup {x})
  BY FS_AddElement
<1>2. IsFiniteSet({"BANK"})
  BY FS_Singleton
<1>3. IsFiniteSet({"BANK", "CASH"})
  <2>1. IsFiniteSet({"BANK"} \cup {"CASH"})
    BY <1>1, <1>2
  <2>2. {"BANK"} \cup {"CASH"} = {"BANK", "CASH"}
    OBVIOUS
  <2> QED  BY <2>1, <2>2
<1> DEFINE A == {"BANK", "CASH"} \cup {"AR"} \cup {"UNALLOCATED"} \cup {"LIABILITY"} \cup {"VAT"}
           B == A \cup {"AP"} \cup {"DRAWINGS"} \cup {"REVENUE"} \cup {"EXPENSE"}
<1>4. IsFiniteSet(A)
  <2>1. IsFiniteSet({"BANK", "CASH"} \cup {"AR"})
    BY <1>1, <1>3
  <2>2. IsFiniteSet({"BANK", "CASH"} \cup {"AR"} \cup {"UNALLOCATED"})
    BY <1>1, <2>1
  <2>3. IsFiniteSet({"BANK", "CASH"} \cup {"AR"} \cup {"UNALLOCATED"} \cup {"LIABILITY"})
    BY <1>1, <2>2
  <2> QED  BY <1>1, <2>3
<1>5. IsFiniteSet(B)
  <2> HIDE DEF A
  <2>1. IsFiniteSet(A \cup {"AP"})
    BY <1>1, <1>4
  <2>2. IsFiniteSet(A \cup {"AP"} \cup {"DRAWINGS"})
    BY <1>1, <2>1
  <2>3. IsFiniteSet(A \cup {"AP"} \cup {"DRAWINGS"} \cup {"REVENUE"})
    BY <1>1, <2>2
  <2> QED  BY <1>1, <2>3
<1>6. Accounts = B
  BY DEF Accounts
<1> QED  BY <1>5, <1>6

LEMMA TransferType ==
  ASSUME NEW debit, NEW credit, NEW n \in Int
  PROVE  Transfer(debit, credit, n) \in [Accounts -> Int]
BY DEF Transfer, Plus, Line, Nothing

(* A transfer between two accounts balances.                                *)
LEMMA TransferBalances ==
  ASSUME NEW debit \in Accounts, NEW credit \in Accounts, debit # credit, NEW n \in Nat \ {0}
  PROVE  IsBalanced(Transfer(debit, credit, n))
<1> DEFINE f == Nothing
           g == Line(debit, n)
           h == Transfer(debit, credit, n)
<1>1. /\ \A a \in Accounts : f[a] = 0 /\ f[a] \in Int /\ g[a] \in Int /\ h[a] \in Int
      /\ \A a \in Accounts \ {debit} : f[a] = g[a]
      /\ \A a \in Accounts \ {credit} : g[a] = h[a]
      /\ g[debit] = n /\ g[credit] = 0 /\ h[credit] = -n /\ h[debit] = n
      /\ DOMAIN h = Accounts
  BY DEF Transfer, Plus, Line, Nothing
<1> HIDE DEF f, g, h
<1>2. SumFunctionOnSet(f, Accounts) = 0
  BY <1>1, AccountsFinite, SumOfZeros
<1>3. SumFunctionOnSet(g, Accounts) = SumFunctionOnSet(f, Accounts) - f[debit] + g[debit]
  BY <1>1, AccountsFinite, SumChanges
<1>4. SumFunctionOnSet(h, Accounts) = SumFunctionOnSet(g, Accounts) - g[credit] + h[credit]
  BY <1>1, AccountsFinite, SumChanges
<1>5. SumFunctionOnSet(h, Accounts) = 0
  BY <1>1, <1>2, <1>3, <1>4
<1>6. SumFunction(h) = 0
  BY <1>1, <1>5 DEF SumFunction
<1>7. h # Nothing
  BY <1>1 DEF f
<1> QED  BY <1>6, <1>7 DEF IsBalanced, h

ExpenseRows == [status : {"ABSENT", "DRAFT", "POSTED"}, by : Actors \cup {"none"}, date : Days \cup {0},
                settled : Settlements \cup {"none"}, amount : Nat]

(* Only manual journals wait to be posted.                                  *)
JournalTypes(k) ==
  /\ journals[k].by \in Actors
  /\ journals[k].net \in [Accounts -> Int] /\ IsBalanced(journals[k].net)
  /\ journals[k].reverses \in PostedKeys \cup {NoKey}
  /\ journals[k].status = "DRAFT" => \E e \in Entries : k = Manual(e)

BooksInv ==
  /\ today \in Days
  /\ LedgerInv
  /\ \A p \in periods : p.last \in p.first..LastDay /\ p.status \in {"OPEN", "CLOSED"}
  /\ IsFiniteSet(DOMAIN journals) /\ \A k \in DOMAIN journals : JournalTypes(k)
  /\ expenses \in [Entries -> ExpenseRows]

(* What is booked besides a key stays as it is.                             *)
OthersStay(key) == \A k : k # key => (Booked(k)' <=> Booked(k))

LEMMA BooksStay ==
  ASSUME BooksInv, UNCHANGED <<periods, journals>>, today' \in Days, expenses' \in [Entries -> ExpenseRows]
  PROVE  BooksInv' /\ \A k : Booked(k)' <=> Booked(k)
<1>1. LedgerInv'
  BY Untouched DEF BooksInv
<1>2. \A k \in DOMAIN journals : JournalTypes(k)'
  BY DEF BooksInv, JournalTypes, PostedKeys, Drafts
<1>3. \A k : Booked(k)' <=> Booked(k)
  BY DEF Booked
<1> QED  BY <1>1, <1>2, <1>3 DEF BooksInv

LEMMA JournalEntered ==
  ASSUME BooksInv, UNCHANGED <<today, periods>>, expenses' \in [Entries -> ExpenseRows],
         NEW key, NEW d \in Days, NEW status \in {"DRAFT", "POSTED"}, NEW by \in Actors,
         NEW net \in [Accounts -> Int], NEW reverses \in PostedKeys \cup {NoKey},
         key \notin PostedKeys, OpenOn(d), IsBalanced(net),
         status = "DRAFT" => \E e \in Entries : key = Manual(e),
         journals' = WithJournal(key, Journal(d, status, by, net, reverses))
  PROVE  /\ BooksInv' /\ OthersStay(key)
         /\ Booked(key)' <=> status = "POSTED"
<1> DEFINE j == Journal(d, status, by, net, reverses)
<1>1. j.by = by /\ j.net = net /\ j.reverses = reverses /\ j.status = status
  BY DEF Journal
<1>2. /\ DOMAIN journals' = DOMAIN journals \cup {key}
      /\ journals'[key] = j
      /\ \A k \in DOMAIN journals : k # key => journals'[k] = journals[k]
  BY DEF WithJournal
<1> HIDE DEF j
<1>3. LedgerInv'
  BY Inserted DEF BooksInv
<1>4. PostedKeys \subseteq PostedKeys'
  BY <1>2 DEF PostedKeys, Drafts
<1>5. \A k \in DOMAIN journals' : JournalTypes(k)'
  <2> SUFFICES ASSUME NEW k \in DOMAIN journals' PROVE JournalTypes(k)'
    OBVIOUS
  <2>1. CASE k = key
    BY <1>1, <1>2, <1>4, <2>1 DEF JournalTypes
  <2>2. CASE k # key
    <3>1. k \in DOMAIN journals /\ journals'[k] = journals[k] /\ JournalTypes(k)
      BY <1>2, <2>2 DEF BooksInv
    <3> QED  BY <1>4, <3>1 DEF JournalTypes
  <2> QED  BY <2>1, <2>2
<1>6. IsFiniteSet(DOMAIN journals')
  BY <1>2, FS_AddElement DEF BooksInv
<1>7. OthersStay(key) /\ (Booked(key)' <=> status = "POSTED")
  BY <1>1, <1>2 DEF OthersStay, Booked
<1> QED  BY <1>3, <1>5, <1>6, <1>7 DEF BooksInv

(* Whatever books an event has it booked.                                   *)
LEMMA EventBooked ==
  ASSUME BooksInv, UNCHANGED <<today, periods>>, expenses' \in [Entries -> ExpenseRows],
         NEW key, NEW d \in Days \cup {0}, NEW by \in Actors, NEW net \in [Accounts -> Int],
         NEW reverses \in PostedKeys \cup {NoKey}, Book(key, d, by, net, reverses)
  PROVE  BooksInv' /\ OthersStay(key) /\ Booked(key)'
<1>1. CASE Booked(key)
  <2>1. journals' = journals /\ today' \in Days
    BY <1>1 DEF Book, BooksInv
  <2> QED  BY <1>1, <2>1, BooksStay DEF OthersStay
<1>2. CASE ~Booked(key)
  <2>1. /\ OpenOn(d) /\ IsBalanced(net)
        /\ journals' = WithJournal(key, Journal(d, "POSTED", by, net, reverses))
    BY <1>2 DEF Book
  <2>2. key \notin PostedKeys
    BY <1>2 DEF Booked, PostedKeys, Drafts, BooksInv, LedgerInv, JournalsForm, JournalForm
  <2>3. d \in Days
    <3>1. ASSUME d = 0 PROVE FALSE
      BY <2>1, <3>1 DEF OpenOn, Covers, BooksInv, LedgerInv, PeriodsForm, Days
    <3> QED  BY <3>1
  <2> QED  BY <2>1, <2>2, <2>3, JournalEntered
<1> QED  BY <1>1, <1>2

----
(* The documents of billing, their journals being named after them.         *)
Papers == {"invoice", "payment", "reversal"}
PapersStay == \A w \in Papers : \A x : Booked(<<w, x>>)' <=> Booked(<<w, x>>)

LEMMA OtherPapers ==
  ASSUME NEW w, w \notin Papers, NEW key, key[1] = w, OthersStay(key)
  PROVE  PapersStay
<1> SUFFICES ASSUME NEW v \in Papers, NEW x PROVE Booked(<<v, x>>)' <=> Booked(<<v, x>>)
  BY DEF PapersStay
<1>1. <<v, x>>[1] = v
  OBVIOUS
<1>2. <<v, x>> # key
  BY <1>1
<1> QED  BY <1>2 DEF OthersStay

LEMMA MinusType == ASSUME NEW net \in [Accounts -> Int] PROVE Minus(net) \in [Accounts -> Int]
BY DEF Minus

LEMMA ExpenseTypes ==
  ASSUME expenses \in [Entries -> ExpenseRows], NEW e \in Entries, NEW x \in ExpenseRows
  PROVE  [expenses EXCEPT ![e] = x] \in [Entries -> ExpenseRows]
OBVIOUS

(* Each manual command of the ledger.                                       *)
LEMMA PeriodsChange ==
  ASSUME BooksInv, UNCHANGED <<today, journals, expenses>>, LedgerInv',
         \A p \in periods' : p.last \in p.first..LastDay /\ p.status \in {"OPEN", "CLOSED"}
  PROVE  BooksInv' /\ PapersStay
<1>1. \A k \in DOMAIN journals' : JournalTypes(k)'
  BY DEF BooksInv, JournalTypes, PostedKeys, Drafts
<1>2. PapersStay
  BY DEF PapersStay, Booked
<1> QED  BY <1>1, <1>2 DEF BooksInv

LEMMA BooksOpen ==
  ASSUME BooksInv, NEW first \in Days, NEW last \in Days, PeriodOpen(first, last)
  PROVE  BooksInv' /\ PapersStay
<1>1. LedgerInv'
  BY Opening DEF BooksInv
<1>2. last \in first..LastDay /\ Period(first, last, "OPEN").first = first
      /\ Period(first, last, "OPEN").last = last /\ Period(first, last, "OPEN").status = "OPEN"
  BY LedgerAssumption DEF PeriodOpen, Days, Period
<1>3. \A p \in periods' : p.last \in p.first..LastDay /\ p.status \in {"OPEN", "CLOSED"}
  BY <1>2 DEF PeriodOpen, BooksInv
<1> QED  BY <1>1, <1>3, PeriodsChange DEF PeriodOpen

LEMMA BooksClose ==
  ASSUME BooksInv, NEW p \in periods, PeriodClose(p)
  PROVE  BooksInv' /\ PapersStay
<1>1. LedgerInv'
  BY Closing DEF BooksInv
<1>2. p = Period(p.first, p.last, p.status) /\ p.last \in p.first..LastDay
  BY DEF BooksInv, LedgerInv, PeriodsForm
<1> DEFINE new == [p EXCEPT !.status = "CLOSED"]
<1>3. new.first = p.first /\ new.last = p.last /\ new.status = "CLOSED"
  BY <1>2 DEF Period
<1>4. periods' = (periods \ {p}) \cup {new}
  BY DEF PeriodClose
<1> HIDE DEF new
<1>5. \A q \in periods' : q.last \in q.first..LastDay /\ q.status \in {"OPEN", "CLOSED"}
  BY <1>2, <1>3, <1>4 DEF BooksInv
<1> QED  BY <1>1, <1>5, PeriodsChange DEF PeriodClose

LEMMA BooksReverse ==
  ASSUME BooksInv, NEW actor \in Actors, NEW key, NEW d \in Days, JournalReverse(actor, key, d)
  PROVE  BooksInv' /\ PapersStay
<1> DEFINE k == <<"reverse", key>>
           net == Minus(journals[key].net)
<1>1. /\ key \in PostedKeys /\ Book(k, d, actor, net, key)
      /\ UNCHANGED <<today, periods, expenses>>
  BY DEF JournalReverse, Booked, PostedKeys, Drafts
<1>2. net \in [Accounts -> Int] /\ k[1] = "reverse"
  BY <1>1, MinusType DEF BooksInv, JournalTypes, PostedKeys
<1>3. expenses' \in [Entries -> ExpenseRows]
  BY <1>1 DEF BooksInv
<1> HIDE DEF k, net
<1>4. BooksInv' /\ OthersStay(k)
  BY <1>1, <1>2, <1>3, EventBooked
<1> QED  BY <1>2, <1>4, OtherPapers DEF Papers

LEMMA BooksStep ==
  ASSUME BooksInv, LedgerNext
  PROVE  BooksInv' /\ PapersStay
<1> USE LedgerAssumption
<1>1. CASE \E first, last \in Days : PeriodOpen(first, last)
  BY <1>1, BooksOpen
<1>2. CASE \E p \in periods : PeriodClose(p)
  BY <1>2, BooksClose
<1>3. ASSUME NEW actor \in Actors, NEW e \in Entries, NEW d \in Days, NEW n \in Amounts,
             NEW debit \in {"BANK", "EXPENSE"}, NEW credit \in {"BANK", "EXPENSE"},
             JournalCreate(actor, e, d, debit, credit, n)
      PROVE  BooksInv' /\ PapersStay
  <2> DEFINE key == Manual(e)
             net == Transfer(debit, credit, n)
  <2>1. key \notin PostedKeys /\ key[1] = "manual" /\ \E x \in Entries : key = Manual(x)
    BY <1>3 DEF JournalCreate, PostedKeys, Manual
  <2>2. net \in [Accounts -> Int]
    BY TransferType
  <2>3. IsBalanced(net)
    BY <1>3, TransferBalances DEF JournalCreate, Accounts
  <2>4. /\ OpenOn(d) /\ UNCHANGED <<today, periods, expenses>>
        /\ journals' = WithJournal(key, Journal(d, "DRAFT", actor, net, NoKey))
    BY <1>3 DEF JournalCreate
  <2> HIDE DEF key, net
  <2>5. expenses' \in [Entries -> ExpenseRows]
    BY <2>4 DEF BooksInv
  <2>6. BooksInv' /\ OthersStay(key)
    BY <2>1, <2>2, <2>3, <2>4, <2>5, JournalEntered
  <2> QED  BY <2>1, <2>6, OtherPapers DEF Papers
<1>4. ASSUME NEW actor \in Actors, NEW e \in Entries, NEW d \in Days, NEW n \in Amounts,
             NEW settled \in Settlements, ExpenseCreate(actor, e, d, settled, n)
      PROVE  BooksInv' /\ PapersStay
  <2> DEFINE x == [status |-> "DRAFT", by |-> actor, date |-> d, settled |-> settled, amount |-> n]
  <2>1. x \in ExpenseRows
    BY DEF ExpenseRows
  <2>2. expenses' = [expenses EXCEPT ![e] = x] /\ UNCHANGED <<today, periods, journals>>
    BY <1>4 DEF ExpenseCreate
  <2> HIDE DEF x
  <2>3. expenses' \in [Entries -> ExpenseRows] /\ today' \in Days
    BY <2>1, <2>2, ExpenseTypes DEF BooksInv
  <2> QED  BY <2>2, <2>3, BooksStay DEF PapersStay
<1>5. ASSUME NEW actor \in Actors, NEW e \in Entries, NEW d \in Days, NEW n \in Amounts,
             NEW partner \in Actors, Withdrawal(actor, partner, e, d, n)
      PROVE  BooksInv' /\ PapersStay
  <2> DEFINE key == <<"withdrawal", e>>
             net == Transfer("DRAWINGS", "BANK", n)
  <2>1. net \in [Accounts -> Int] /\ key[1] = "withdrawal"
    BY TransferType
  <2>2. Book(key, d, actor, net, NoKey) /\ UNCHANGED <<today, periods, expenses>>
    BY <1>5 DEF Withdrawal
  <2> HIDE DEF key, net
  <2>3. BooksInv' /\ OthersStay(key)
    BY <2>1, <2>2, EventBooked DEF BooksInv
  <2> QED  BY <2>1, <2>3, OtherPapers DEF Papers
<1>6. ASSUME NEW actor \in Actors, NEW e \in Entries, NEW d \in Days, NEW n \in Amounts,
             PettyCashReplenish(actor, e, d, n)
      PROVE  BooksInv' /\ PapersStay
  <2> DEFINE key == <<"replenishment", e>>
             net == Transfer("CASH", "BANK", n)
  <2>1. net \in [Accounts -> Int] /\ key[1] = "replenishment"
    BY TransferType
  <2>2. Book(key, d, actor, net, NoKey) /\ UNCHANGED <<today, periods, expenses>>
    BY <1>6 DEF PettyCashReplenish
  <2> HIDE DEF key, net
  <2>3. BooksInv' /\ OthersStay(key)
    BY <2>1, <2>2, EventBooked DEF BooksInv
  <2> QED  BY <2>1, <2>3, OtherPapers DEF Papers
<1>7. ASSUME NEW actor \in Actors, NEW key \in DOMAIN journals, JournalPost(actor, key)
      PROVE  BooksInv' /\ PapersStay
  <2> DEFINE j == journals[key]
  <2>1. /\ key \in Drafts /\ key \notin PostedKeys
        /\ OpenOn(j.date) /\ UNCHANGED <<today, periods, expenses>>
        /\ j.date \in Days
        /\ journals' = WithJournal(key, Journal(j.date, "POSTED", actor, j.net, j.reverses))
    BY <1>7, PostingForm DEF BooksInv
  <2>2. JournalTypes(key) /\ expenses' \in [Entries -> ExpenseRows]
    BY <2>1 DEF BooksInv
  <2>3. PICK e \in Entries : key = Manual(e)
    BY <2>1, <2>2 DEF JournalTypes, Drafts
  <2>4. /\ j.net \in [Accounts -> Int] /\ IsBalanced(j.net) /\ j.reverses \in PostedKeys \cup {NoKey}
    BY <2>2 DEF JournalTypes
  <2> HIDE DEF j
  <2>5. BooksInv' /\ OthersStay(key)
    BY <2>1, <2>2, <2>4, JournalEntered
  <2>6. key[1] = "manual"
    BY <2>3 DEF Manual
  <2> QED  BY <2>5, <2>6, OtherPapers DEF Papers
<1>8. ASSUME NEW actor \in Actors, NEW key, NEW d \in Days, JournalReverse(actor, key, d)
      PROVE  BooksInv' /\ PapersStay
  BY <1>8, BooksReverse
<1>9. ASSUME NEW actor \in Actors, NEW e \in Entries, ExpensePost(actor, e)
      PROVE  BooksInv' /\ PapersStay
  <2> DEFINE x == expenses[e]
             key == <<"expense", e>>
             net == Transfer("EXPENSE", x.settled, x.amount)
             y == [x EXCEPT !.status = "POSTED"]
  <2>1. x \in ExpenseRows
    BY DEF BooksInv
  <2>2. x.date \in Days \cup {0} /\ x.amount \in Int /\ y \in ExpenseRows
    BY <2>1 DEF ExpenseRows
  <2>3. net \in [Accounts -> Int] /\ key[1] = "expense"
    BY <2>2, TransferType
  <2>4. Book(key, x.date, actor, net, NoKey) /\ UNCHANGED <<today, periods>>
    BY <1>9 DEF ExpensePost
  <2>5. expenses' = [expenses EXCEPT ![e] = y]
    BY <1>9 DEF ExpensePost, BooksInv
  <2>6. expenses' \in [Entries -> ExpenseRows]
    BY <2>2, <2>5, ExpenseTypes DEF BooksInv
  <2> HIDE DEF x, key, net, y
  <2>7. BooksInv' /\ OthersStay(key)
    BY <2>2, <2>3, <2>4, <2>6, EventBooked
  <2> QED  BY <2>3, <2>7, OtherPapers DEF Papers
<1> QED  BY <1>1, <1>2, <1>3, <1>4, <1>5, <1>6, <1>7, <1>8, <1>9 DEF LedgerNext

LEMMA BooksBegin == LedgerInit => BooksInv /\ \A k : ~Booked(k)
<1> SUFFICES ASSUME LedgerInit PROVE BooksInv /\ \A k : ~Booked(k)
  OBVIOUS
<1>1. LedgerInv
  BY LedgerStarts
<1>2. DOMAIN journals = {}
  BY DEF LedgerInit
<1>3. IsFiniteSet(DOMAIN journals)
  BY <1>2, FS_EmptySet
<1>4. \A p \in periods : p.last \in p.first..LastDay /\ p.status \in {"OPEN", "CLOSED"}
  BY LedgerAssumption DEF LedgerInit, Period
<1>5. today \in Days
  BY LedgerAssumption DEF LedgerInit, Days
<1>6. expenses \in [Entries -> ExpenseRows]
  BY DEF LedgerInit, NoExpense, ExpenseRows
<1>7. \A k : ~Booked(k)
  BY <1>2 DEF Booked
<1> QED  BY <1>1, <1>2, <1>3, <1>4, <1>5, <1>6, <1>7 DEF BooksInv

LEMMA BooksImply == BooksInv => LedgerTypeOK
<1> SUFFICES ASSUME BooksInv PROVE LedgerTypeOK
  OBVIOUS
<1>1. \A p \in periods : p.first \in Days
  BY DEF BooksInv, LedgerInv, PeriodsForm
<1>2. \A p \in periods : p.last \in p.first..LastDay /\ p.status \in {"OPEN", "CLOSED"}
  BY DEF BooksInv
<1>3. \A k \in DOMAIN journals : journals[k].date \in Days /\ journals[k].status \in {"DRAFT", "POSTED"}
  BY DEF BooksInv, LedgerInv, JournalsForm, JournalForm
<1>4. \A k \in DOMAIN journals :
        /\ journals[k].by \in Actors
        /\ journals[k].net \in [Accounts -> Int] /\ IsBalanced(journals[k].net)
        /\ journals[k].reverses \in PostedKeys \cup {NoKey}
  BY DEF BooksInv, JournalTypes
<1>5. \A e \in Entries : expenses[e].status \in {"ABSENT", "DRAFT", "POSTED"}
  BY DEF BooksInv, ExpenseRows
<1> QED  BY <1>1, <1>2, <1>3, <1>4, <1>5 DEF LedgerTypeOK, BooksInv

(* Every journal balances and is dated on a day, under all the manual       *)
(* commands of the ledger and for any number of entries and amounts: what   *)
(* expenses, withdrawals, replenishments and reversals book passes the      *)
(* balance check of postJournal because its lines balance, never because    *)
(* one was dropped, and a reversal names a journal that is posted           *)
(* (businessPractice.ts).                                                   *)
THEOREM JournalsBalance == LedgerSpec => []LedgerTypeOK
<1>1. LedgerInit => BooksInv
  BY BooksBegin
<1>2. BooksInv /\ [LedgerNext]_<<today, ledger>> => BooksInv'
  <2>1. CASE LedgerNext
    BY <2>1, BooksStep
  <2>2. CASE UNCHANGED <<today, ledger>>
    BY <2>2, BooksStay DEF ledger, BooksInv
  <2> QED  BY <2>1, <2>2
<1> QED  BY <1>1, <1>2, BooksImply, PTL DEF LedgerSpec

----
(* Billing. *)
LifeCycles == {"ADVANCE_BILLING", "PLANNING"}
Invoices == [status : {"ABSENT", "PENDING_DOCUMENT", "ISSUED"}, date : 0..LastDay]
PolicyRows == [method : Methods, from : 0..LastDay]

DocsInv ==
  /\ lifecycle \in LifeCycles
  /\ invoices \in [Kinds -> Invoices]
  /\ \A i \in Kinds : invoices[i].status # "ABSENT" => Subtotal(i) > 0
  /\ returns \in [Payments -> [Kinds -> [Days -> Nat]]]
  /\ \A p \in Payments, i \in Kinds : Until(returns[p][i], LastDay) <= Alloc(p, i)
  /\ policies \in Seq(PolicyRows)

(* A document has its journal, and a journal its document.                  *)
Papered ==
  /\ \A i \in Kinds : Issued(i) <=> Booked(<<"invoice", i>>)
  /\ \A p \in Payments : Original(p) <=> Booked(<<"payment", p>>)
  /\ \A p \in Payments : IsReversed(p) <=> Booked(<<"reversal", p>>)

BillingInv == BooksInv /\ MoneyInv /\ DocsInv /\ Papered

LEMMA DocsKept ==
  ASSUME DocsInv, UNCHANGED <<invoices, returns, policies>>, lifecycle' \in LifeCycles,
         \A p \in Payments, i \in Kinds : Until(returns[p][i], LastDay) <= Alloc(p, i)'
  PROVE  DocsInv'
BY DEF DocsInv, Subtotal, AdvanceFee

LEMMA PapersKept ==
  ASSUME Papered, PapersStay, invoices' = invoices,
         \A p \in Payments : /\ payments'[p].status = payments[p].status
                             /\ payments'[p].reversedOn = payments[p].reversedOn
  PROVE  Papered'
<1>1. \A i \in Kinds : Booked(<<"invoice", i>>)' <=> Booked(<<"invoice", i>>)
  BY DEF PapersStay, Papers
<1>2. \A p \in Payments : Booked(<<"payment", p>>)' <=> Booked(<<"payment", p>>)
  BY DEF PapersStay, Papers
<1>3. \A p \in Payments : Booked(<<"reversal", p>>)' <=> Booked(<<"reversal", p>>)
  BY DEF PapersStay, Papers
<1> QED  BY <1>1, <1>2, <1>3 DEF Papered, Issued, Original, IsReversed

(* A document is booked and nothing else is.                                *)
LEMMA PaperBooked ==
  ASSUME NEW w \in Papers, NEW x, OthersStay(<<w, x>>), NEW v \in Papers, NEW y, v # w \/ y # x
  PROVE  Booked(<<v, y>>)' <=> Booked(<<v, y>>)
<1>1. <<v, y>> # <<w, x>>
  OBVIOUS
<1> QED  BY <1>1 DEF OthersStay

(* How much of an allocation was returned.                                  *)
LEMMA UntilType ==
  ASSUME NEW byDay \in [Days -> Nat], NEW d \in 0..LastDay
  PROVE  Until(byDay, d) \in Nat
<1> DEFINE f == [e \in 1..d |-> byDay[e]]
<1>1. \A e \in 1..d : f[e] \in Nat
  BY LedgerAssumption DEF Days
<1>2. DOMAIN f = 1..d /\ IsFiniteSet(1..d)
  BY FS_Interval, LedgerAssumption
<1> HIDE DEF f
<1>3. SumFunctionOnSet(f, 1..d) \in Nat
  BY <1>1, <1>2, SumType
<1> QED  BY <1>2, <1>3 DEF Until, SumFunction, f

LEMMA SumGrows ==
  ASSUME NEW S, IsFiniteSet(S), NEW x \in S, NEW f, NEW g, NEW n \in Int,
         DOMAIN f = S, DOMAIN g = S, \A y \in S : f[y] \in Int,
         \A y \in S : g[y] = IF y = x THEN f[y] + n ELSE f[y]
  PROVE  SumFunction(g) = SumFunction(f) + n
<1>1. /\ \A y \in S : f[y] \in Int /\ g[y] \in Int
      /\ \A y \in S \ {x} : f[y] = g[y]
      /\ g[x] = f[x] + n
  OBVIOUS
<1>2. SumFunctionOnSet(g, S) = SumFunctionOnSet(f, S) - f[x] + g[x]
  BY <1>1, SumChanges
<1>3. SumFunctionOnSet(f, S) \in Int
  BY <1>1, SumType
<1>4. SumFunctionOnSet(g, S) = SumFunctionOnSet(f, S) + n
  BY <1>1, <1>2, <1>3
<1> QED  BY <1>4 DEF SumFunction

LEMMA UntilGrows ==
  ASSUME NEW byDay \in [Days -> Nat], NEW d \in Days, NEW n \in Nat
  PROVE  Until([byDay EXCEPT ![d] = @ + n], LastDay) = Until(byDay, LastDay) + n
<1> DEFINE now == [byDay EXCEPT ![d] = @ + n]
           h == [e \in 1..LastDay |-> byDay[e]]
           k == [e \in 1..LastDay |-> now[e]]
<1>0. Days = 1..LastDay
  BY DEF Days
<1>1. IsFiniteSet(Days)
  BY <1>0, FS_Interval, LedgerAssumption
<1>2. /\ DOMAIN h = Days /\ DOMAIN k = Days
      /\ \A e \in Days : h[e] \in Int
      /\ \A e \in Days : k[e] = IF e = d THEN h[e] + n ELSE h[e]
  BY <1>0
<1>3. SumFunction(k) = SumFunction(h) + n
  <2> HIDE DEF h, k
  <2>1. n \in Int
    OBVIOUS
  <2>2. ASSUME NEW T, T = Days PROVE SumFunction(k) = SumFunction(h) + n
    <3>1. IsFiniteSet(T) /\ d \in T
      BY <1>1, <2>2
    <3>2. DOMAIN h = T /\ DOMAIN k = T
      BY <1>2, <2>2
    <3>3. \A e \in T : h[e] \in Int
      BY <1>2, <2>2
    <3>4. \A e \in T : k[e] = IF e = d THEN h[e] + n ELSE h[e]
      BY <1>2, <2>2
    <3> QED  BY ONLY <2>1, <3>1, <3>2, <3>3, <3>4, SumGrows
  <2> QED  BY <2>2
<1> QED  BY <1>3 DEF Until

(* The lines of what is booked.                                             *)
LEMMA InvoiceLinesType ==
  ASSUME NEW i \in Kinds
  PROVE  InvoiceLines(i) \in [Accounts -> Int]
<1>1. Total(i) \in Int /\ -Subtotal(i) \in Int /\ -Tax(i) \in Int
  BY Taxes
<1> QED  BY <1>1 DEF InvoiceLines, Plus, Line, Nothing

LEMMA PaymentLinesType ==
  ASSUME NEW n \in Nat, NEW shares \in [Kinds -> 0..Fee]
  PROVE  PaymentLines(n, shares) \in [Accounts -> Int]
<1>1. \A i \in Kinds : shares[i] \in Int
  OBVIOUS
<1>2. SumFunctionOnSet(shares, Kinds) \in Int
  BY <1>1, SumType, KindsFinite
<1>3. SumFunction(shares) \in Int
  BY <1>2 DEF SumFunction
<1> DEFINE s == SumFunction(shares)
<1>4. s \in Int /\ -s \in Int /\ s - n \in Int
  BY <1>3
<1> HIDE DEF s
<1>5. Plus(Line("BANK", n), Plus(Line("AR", -s), Line("UNALLOCATED", s - n))) \in [Accounts -> Int]
  BY <1>4 DEF Plus, Line, Nothing
<1> QED  BY <1>5 DEF PaymentLines, s

LEMMA BalanceType ==
  ASSUME BooksInv, NEW account \in Accounts, NEW d
  PROVE  BalanceOn(account, d) \in Int
<1> DEFINE S == {key \in PostedKeys : journals[key].date <= d}
           f == [k \in S |-> journals[k].net[account]]
<1>1. IsFiniteSet(S)
  BY FS_Subset DEF BooksInv, PostedKeys
<1>2. \A k \in S : f[k] \in Int
  BY DEF BooksInv, JournalTypes, PostedKeys
<1>3. DOMAIN f = S
  OBVIOUS
<1> HIDE DEF f, S
<1>4. SumFunctionOnSet(f, S) \in Int
  BY <1>1, <1>2, SumType
<1> QED  BY <1>3, <1>4 DEF BalanceOn, SumFunction, f, S

LEMMA MaxOfTwo == ASSUME NEW x \in Int, NEW y \in Int PROVE Max({x, y}) \in Int
<1>1. \E m \in {x, y} : \A z \in {x, y} : m >= z
  OBVIOUS
<1>2. Max({x, y}) \in {x, y}
  BY <1>1 DEF Max
<1> QED  BY <1>2

LEMMA MinOfTwo == ASSUME NEW x \in Int, NEW y \in Int PROVE Min({x, y}) \in Int
<1>1. \E m \in {x, y} : \A z \in {x, y} : m <= z
  OBVIOUS
<1>2. Min({x, y}) \in {x, y}
  BY <1>1 DEF Min
<1> QED  BY <1>2

LEMMA CreditLinesType ==
  ASSUME BooksInv, NEW i \in Kinds, Subtotal(i) > 0, NEW n \in Nat, NEW d
  PROVE  CreditLines(i, n, d) \in [Accounts -> Int]
<1> DEFINE m == Total(i)
           x == n * Tax(i)
           tax == RoundHalfUp(x, m)
           liability == -BalanceOn("LIABILITY", d)
           deferred == Max({0, Min({liability, n - tax})})
<1>1. m \in Nat /\ m > 0 /\ x \in Nat
  BY Taxes
<1>2. tax \in Int
  <2> HIDE DEF m, x
  <2>1. 2 * m > 0 /\ 2 * m \in Nat /\ 2 * x + m \in Nat
    BY <1>1
  <2> QED  BY <2>1 DEF RoundHalfUp
<1>3. liability \in Int
  BY BalanceType DEF Accounts
<1> HIDE DEF m, x, tax, liability
<1>4. deferred \in Int
  <2>1. n - tax \in Int
    BY <1>2
  <2>2. Min({liability, n - tax}) \in Int
    BY <1>3, <2>1, MinOfTwo
  <2> QED  BY <2>2, MaxOfTwo
<1> HIDE DEF deferred
<1>5. n - tax - deferred \in Int /\ -n \in Int
  BY <1>2, <1>4
<1>6. Plus(Plus(Line("LIABILITY", deferred), Line("REVENUE", n - tax - deferred)),
           Plus(Line("VAT", tax), Line("AR", -n))) \in [Accounts -> Int]
  BY <1>2, <1>4, <1>5 DEF Plus, Line, Nothing
<1> QED  BY <1>6 DEF CreditLines, deferred, liability, tax, x, m

(* What issuing an invoice does, besides the rest of its command.           *)
LEMMA InvoiceIssued ==
  ASSUME BillingInv, NEW i \in Kinds, NEW actor \in Actors, IssueInvoice(i, actor), Subtotal(i) > 0,
         UNCHANGED <<today, periods, expenses, lifecycle, payments, allocations, returns, policies>>
  PROVE  BooksInv' /\ DocsInv' /\ Papered'
<1> DEFINE key == <<"invoice", i>>
           row == [status |-> "ISSUED", date |-> today]
<1>1. Book(key, today, actor, InvoiceLines(i), NoKey) /\ invoices' = [invoices EXCEPT ![i] = row]
  BY DEF IssueInvoice
<1>2. today \in Days /\ expenses' \in [Entries -> ExpenseRows]
  BY DEF BillingInv, BooksInv
<1>3. BooksInv' /\ OthersStay(key) /\ Booked(key)'
  <2>1. InvoiceLines(i) \in [Accounts -> Int]
    BY InvoiceLinesType
  <2> HIDE DEF key
  <2> QED  BY <1>1, <1>2, <2>1, EventBooked DEF BillingInv
<1>4. row \in Invoices /\ row.status = "ISSUED"
  BY <1>2, LedgerAssumption DEF Invoices, Days
<1>5. /\ invoices' \in [Kinds -> Invoices]
      /\ invoices'[i].status = "ISSUED" /\ \A k \in Kinds \ {i} : invoices'[k] = invoices[k]
  <2> HIDE DEF row
  <2> QED  BY <1>1, <1>4 DEF BillingInv, DocsInv
<1>6. DocsInv'
  <2>1. \A k \in Kinds : invoices'[k].status # "ABSENT" => Subtotal(k) > 0
    BY <1>5 DEF BillingInv, DocsInv
  <2>2. \A p \in Payments, k \in Kinds : Until(returns'[p][k], LastDay) <= Alloc(p, k)'
    BY DEF BillingInv, DocsInv, Alloc
  <2> QED  BY <1>5, <2>1, <2>2 DEF BillingInv, DocsInv, Subtotal, AdvanceFee
<1>7. \A k \in Kinds : Issued(k)' <=> Booked(<<"invoice", k>>)'
  <2> SUFFICES ASSUME NEW k \in Kinds PROVE Issued(k)' <=> Booked(<<"invoice", k>>)'
    OBVIOUS
  <2>1. CASE k = i
    BY <1>3, <1>5, <2>1 DEF Issued
  <2>2. CASE k # i
    <3>1. Booked(<<"invoice", k>>)' <=> Booked(<<"invoice", k>>)
      BY <1>3, <2>2 DEF OthersStay
    <3> QED  BY <1>5, <2>2, <3>1 DEF BillingInv, Papered, Issued
  <2> QED  BY <2>1, <2>2
<1>8. \A p \in Payments : Original(p)' <=> Booked(<<"payment", p>>)'
  <2>1. \A p \in Payments : Booked(<<"payment", p>>)' <=> Booked(<<"payment", p>>)
    BY <1>3, PaperBooked DEF Papers
  <2> QED  BY <2>1 DEF BillingInv, Papered, Original
<1>9. \A p \in Payments : IsReversed(p)' <=> Booked(<<"reversal", p>>)'
  <2>1. \A p \in Payments : Booked(<<"reversal", p>>)' <=> Booked(<<"reversal", p>>)
    BY <1>3, PaperBooked DEF Papers
  <2> QED  BY <2>1 DEF BillingInv, Papered, IsReversed
<1> QED  BY <1>3, <1>6, <1>7, <1>8, <1>9 DEF Papered

(* What a command does that books an event under a name of its own.         *)
LEMMA OtherBooked ==
  ASSUME BillingInv, UNCHANGED <<today, periods, expenses, lifecycle, invoices, payments, policies>>,
         NEW key, key[1] \notin Papers, NEW d \in Days, NEW by \in Actors, NEW net \in [Accounts -> Int],
         NEW reverses \in PostedKeys \cup {NoKey}, Book(key, d, by, net, reverses)
  PROVE  BooksInv' /\ Papered'
<1>1. expenses' \in [Entries -> ExpenseRows]
  BY DEF BillingInv, BooksInv
<1>2. BooksInv' /\ OthersStay(key)
  BY <1>1, EventBooked DEF BillingInv
<1>3. PapersStay
  BY <1>2, OtherPapers
<1> QED  BY <1>2, <1>3, PapersKept DEF BillingInv

(* What it does that leaves the documents alone.                            *)
LEMMA DocsRest ==
  ASSUME BillingInv, UNCHANGED <<lifecycle, invoices, allocations, returns, policies>>
  PROVE  DocsInv'
<1>1. \A p \in Payments, i \in Kinds : Until(returns[p][i], LastDay) <= Alloc(p, i)'
  BY DEF BillingInv, DocsInv, Alloc
<1>2. lifecycle' \in LifeCycles
  BY DEF BillingInv, DocsInv
<1> QED  BY <1>1, <1>2, DocsKept DEF BillingInv

LEMMA ReturnedType ==
  ASSUME DocsInv, NEW p \in Payments, NEW i \in Kinds
  PROVE  Until(returns[p][i], LastDay) \in Nat
<1>1. returns[p][i] \in [Days -> Nat]
  BY DEF DocsInv
<1> QED  BY <1>1, UntilType, LedgerAssumption

LEMMA PaymentRecorded ==
  ASSUME BillingInv, NEW actor \in Cashiers, NEW p \in Payments, NEW n \in Amounts, NEW d \in Days,
         NEW shares \in [Kinds -> 0..Fee], PaymentRecord(actor, p, n, d, shares)
  PROVE  BooksInv' /\ DocsInv' /\ Papered'
<1> DEFINE key == <<"payment", p>>
           row == [payments[p] EXCEPT !.status = "VERIFIED", !.amount = n, !.date = d, !.voucher = "PENDING"]
           share(i) == IF shares[i] > 0 THEN [amount |-> shares[i], date |-> d] ELSE allocations[p][i]
<1>1. /\ Book(key, d, actor, PaymentLines(n, shares), NoKey)
      /\ payments[p].status = "ABSENT"
      /\ UNCHANGED <<today, periods, expenses, lifecycle, invoices, returns, policies>>
  BY DEF PaymentRecord
<1>2. payments' = [payments EXCEPT ![p] = row] /\ allocations' = [allocations EXCEPT ![p] = [i \in Kinds |-> share(i)]]
  BY DEF PaymentRecord, BillingInv, MoneyInv, Recorded
<1>3. /\ payments[p] \in Charges /\ ~IsReversed(p)
      /\ \A i \in Kinds : Alloc(p, i) = 0
      /\ \A i \in Kinds : shares[i] \in Nat
  BY <1>1, BillingAssumption DEF BillingInv, MoneyInv, Recorded
<1>4. row.status = "VERIFIED" /\ row.reversedOn = payments[p].reversedOn
  BY <1>3 DEF Charges
<1>5. /\ \A q \in Payments \ {p} : payments'[q] = payments[q] /\ allocations'[q] = allocations[q]
      /\ payments'[p] = row /\ \A i \in Kinds : allocations'[p][i] = share(i)
  BY <1>2 DEF BillingInv, MoneyInv, Recorded
<1>6. BooksInv' /\ OthersStay(key) /\ Booked(key)'
  <2>1. PaymentLines(n, shares) \in [Accounts -> Int] /\ actor \in Actors
    BY PaymentLinesType, LedgerAssumption, BillingAssumption
  <2>2. expenses' \in [Entries -> ExpenseRows]
    BY <1>1 DEF BillingInv, BooksInv
  <2> HIDE DEF key
  <2> QED  BY <1>1, <2>1, <2>2, EventBooked DEF BillingInv
<1>7. \A i \in Kinds : share(i).amount \in Nat
  BY <1>3 DEF Alloc
<1> HIDE DEF row, share
<1>8. DocsInv'
  <2> SUFFICES ASSUME NEW q \in Payments, NEW i \in Kinds
               PROVE  Until(returns[q][i], LastDay) <= Alloc(q, i)'
    BY <1>1, DocsKept DEF BillingInv, DocsInv
  <2>1. Until(returns[q][i], LastDay) \in Nat /\ Until(returns[q][i], LastDay) <= Alloc(q, i)
    BY ReturnedType DEF BillingInv, DocsInv
  <2>2. CASE q = p
    BY <1>3, <1>5, <1>7, <2>1, <2>2 DEF Alloc
  <2>3. CASE q # p
    BY <1>5, <2>1, <2>3 DEF Alloc
  <2> QED  BY <2>2, <2>3
<1>9. \A i \in Kinds : Issued(i)' <=> Booked(<<"invoice", i>>)'
  <2>1. \A i \in Kinds : Booked(<<"invoice", i>>)' <=> Booked(<<"invoice", i>>)
    BY <1>6, PaperBooked DEF Papers
  <2> QED  BY <1>1, <2>1 DEF BillingInv, Papered, Issued
<1>10. \A q \in Payments : Original(q)' <=> Booked(<<"payment", q>>)'
  <2> SUFFICES ASSUME NEW q \in Payments PROVE Original(q)' <=> Booked(<<"payment", q>>)'
    OBVIOUS
  <2>1. CASE q = p
    BY <1>4, <1>5, <1>6, <2>1 DEF Original
  <2>2. CASE q # p
    <3>1. Booked(<<"payment", q>>)' <=> Booked(<<"payment", q>>)
      BY <1>6, <2>2 DEF OthersStay
    <3> QED  BY <1>5, <2>2, <3>1 DEF BillingInv, Papered, Original
  <2> QED  BY <2>1, <2>2
<1>11. \A q \in Payments : IsReversed(q)' <=> Booked(<<"reversal", q>>)'
  <2>1. \A q \in Payments : Booked(<<"reversal", q>>)' <=> Booked(<<"reversal", q>>)
    BY <1>6, PaperBooked DEF Papers
  <2>2. \A q \in Payments : payments'[q].reversedOn = payments[q].reversedOn
    BY <1>4, <1>5
  <2> QED  BY <2>1, <2>2 DEF BillingInv, Papered, IsReversed
<1> QED  BY <1>6, <1>8, <1>9, <1>10, <1>11 DEF Papered

LEMMA PaymentReversed ==
  ASSUME BillingInv, NEW actor \in Cashiers, NEW p \in Payments, PaymentReverse(actor, p)
  PROVE  BooksInv' /\ DocsInv' /\ Papered'
<1> DEFINE key == <<"reversal", p>>
           paid == <<"payment", p>>
           net == Minus(journals[paid].net)
           row == [payments[p] EXCEPT !.reversedOn = today, !.reversalVoucher = "PENDING"]
<1>1. /\ Book(key, today, actor, net, paid) /\ Booked(paid)
      /\ UNCHANGED <<today, periods, expenses, lifecycle, invoices, allocations, returns, policies>>
  BY DEF PaymentReverse
<1>2. payments' = [payments EXCEPT ![p] = row]
  BY DEF PaymentReverse, BillingInv, MoneyInv, Recorded
<1>3. payments[p] \in Charges /\ today \in Days /\ today # 0
  BY DEF BillingInv, MoneyInv, Recorded, Days
<1>4. row.status = payments[p].status /\ row.reversedOn = today
  BY <1>3 DEF Charges
<1>5. payments'[p] = row /\ \A q \in Payments \ {p} : payments'[q] = payments[q]
  BY <1>2 DEF BillingInv, MoneyInv, Recorded
<1>6. paid \in PostedKeys
  BY <1>1 DEF Booked, PostedKeys, Drafts
<1>7. net \in [Accounts -> Int]
  <2>1. JournalTypes(paid)
    BY <1>6 DEF BillingInv, BooksInv, PostedKeys
  <2> QED  BY <2>1, MinusType DEF JournalTypes
<1>8. BooksInv' /\ OthersStay(key) /\ Booked(key)'
  <2>1. actor \in Actors
    BY BillingAssumption
  <2>2. expenses' \in [Entries -> ExpenseRows]
    BY <1>1 DEF BillingInv, BooksInv
  <2> HIDE DEF key, paid, net
  <2> QED  BY <1>1, <1>3, <1>6, <1>7, <2>1, <2>2, EventBooked DEF BillingInv
<1> HIDE DEF row
<1>9. DocsInv'
  BY <1>1, DocsRest
<1>10. \A i \in Kinds : Issued(i)' <=> Booked(<<"invoice", i>>)'
  <2>1. \A i \in Kinds : Booked(<<"invoice", i>>)' <=> Booked(<<"invoice", i>>)
    BY <1>8, PaperBooked DEF Papers
  <2> QED  BY <1>1, <2>1 DEF BillingInv, Papered, Issued
<1>11. \A q \in Payments : Original(q)' <=> Booked(<<"payment", q>>)'
  <2>1. \A q \in Payments : Booked(<<"payment", q>>)' <=> Booked(<<"payment", q>>)
    BY <1>8, PaperBooked DEF Papers
  <2>2. \A q \in Payments : payments'[q].status = payments[q].status
    BY <1>4, <1>5
  <2> QED  BY <2>1, <2>2 DEF BillingInv, Papered, Original
<1>12. \A q \in Payments : IsReversed(q)' <=> Booked(<<"reversal", q>>)'
  <2> SUFFICES ASSUME NEW q \in Payments PROVE IsReversed(q)' <=> Booked(<<"reversal", q>>)'
    OBVIOUS
  <2>1. CASE q = p
    BY <1>3, <1>4, <1>5, <1>8, <2>1 DEF IsReversed
  <2>2. CASE q # p
    <3>1. Booked(<<"reversal", q>>)' <=> Booked(<<"reversal", q>>)
      BY <1>8, <2>2 DEF OthersStay
    <3> QED  BY <1>5, <2>2, <3>1 DEF BillingInv, Papered, IsReversed
  <2> QED  BY <2>1, <2>2
<1> QED  BY <1>8, <1>9, <1>10, <1>11, <1>12 DEF Papered

LEMMA PaymentAllocated ==
  ASSUME BillingInv, NEW actor \in Cashiers, NEW p \in Payments, NEW i \in Kinds, NEW n \in Amounts,
         NEW d \in Days, PaymentAllocate(actor, p, i, n, d)
  PROVE  BooksInv' /\ DocsInv' /\ Papered'
<1> DEFINE key == <<"allocation", p, i, d, n>>
           net == Transfer("UNALLOCATED", "AR", n)
           row == [amount |-> n, date |-> d]
<1>1. /\ Book(key, d, actor, net, NoKey) /\ Alloc(p, i) = 0
      /\ allocations' = [allocations EXCEPT ![p][i] = row]
      /\ UNCHANGED <<today, periods, expenses, lifecycle, invoices, payments, returns, policies>>
  BY DEF PaymentAllocate
<1>2. n \in Nat /\ actor \in Actors /\ net \in [Accounts -> Int] /\ key[1] = "allocation" /\ row.amount = n
  BY LedgerAssumption, BillingAssumption, TransferType
<1>3. /\ \A q \in Payments, k \in Kinds : q # p \/ k # i => allocations'[q][k] = allocations[q][k]
      /\ allocations'[p][i] = row
  BY <1>1 DEF BillingInv, MoneyInv, Recorded
<1> HIDE DEF key, net, row
<1>4. BooksInv' /\ Papered'
  BY <1>1, <1>2, OtherBooked DEF Papers
<1>5. DocsInv'
  <2> SUFFICES ASSUME NEW q \in Payments, NEW k \in Kinds
               PROVE  Until(returns[q][k], LastDay) <= Alloc(q, k)'
    BY <1>1, DocsKept DEF BillingInv, DocsInv
  <2>1. Until(returns[q][k], LastDay) \in Nat /\ Until(returns[q][k], LastDay) <= Alloc(q, k)
    BY ReturnedType DEF BillingInv, DocsInv
  <2>2. CASE q = p /\ k = i
    BY <1>1, <1>2, <1>3, <2>1, <2>2 DEF Alloc
  <2>3. CASE q # p \/ k # i
    BY <1>3, <2>1, <2>3 DEF Alloc
  <2> QED  BY <2>2, <2>3
<1> QED  BY <1>4, <1>5

LEMMA AllocationReversed ==
  ASSUME BillingInv, NEW actor \in Cashiers, NEW p \in Payments, NEW i \in Kinds, NEW n \in Amounts,
         NEW d \in Days, AllocationReverse(actor, p, i, n, d)
  PROVE  BooksInv' /\ DocsInv' /\ Papered'
<1> DEFINE key == <<"return", p, i, Cardinality(Corrections)>>
           net == Transfer("AR", "UNALLOCATED", n)
           now == [returns[p][i] EXCEPT ![d] = @ + n]
<1>1. /\ Book(key, d, actor, net, NoKey)
      /\ Until(returns[p][i], LastDay) + n <= Alloc(p, i)
      /\ returns' = [returns EXCEPT ![p][i][d] = @ + n]
      /\ UNCHANGED <<today, periods, expenses, lifecycle, invoices, payments, allocations, policies>>
  BY DEF AllocationReverse
<1>2. n \in Nat /\ actor \in Actors /\ net \in [Accounts -> Int] /\ key[1] = "return"
  BY LedgerAssumption, BillingAssumption, TransferType
<1>3. returns \in [Payments -> [Kinds -> [Days -> Nat]]] /\ returns[p][i] \in [Days -> Nat]
  BY DEF BillingInv, DocsInv
<1>4. Until(now, LastDay) = Until(returns[p][i], LastDay) + n
  BY <1>2, <1>3, UntilGrows
<1>5. now \in [Days -> Nat]
  BY <1>2, <1>3
<1>6. returns' = [returns EXCEPT ![p] = [returns[p] EXCEPT ![i] = now]]
  BY <1>1, <1>3
<1> HIDE DEF key, net, now
<1>7. BooksInv' /\ Papered'
  BY <1>1, <1>2, OtherBooked DEF Papers
<1>8. /\ returns' \in [Payments -> [Kinds -> [Days -> Nat]]]
      /\ returns'[p][i] = now
      /\ \A q \in Payments, k \in Kinds : q # p \/ k # i => returns'[q][k] = returns[q][k]
  BY <1>3, <1>5, <1>6
<1>9. \A q \in Payments, k \in Kinds : Until(returns'[q][k], LastDay) <= Alloc(q, k)'
  <2> SUFFICES ASSUME NEW q \in Payments, NEW k \in Kinds
               PROVE  Until(returns'[q][k], LastDay) <= Alloc(q, k)'
    OBVIOUS
  <2>1. Alloc(q, k)' = Alloc(q, k) /\ Until(returns[q][k], LastDay) <= Alloc(q, k)
    BY <1>1 DEF Alloc, BillingInv, DocsInv
  <2>2. CASE q = p /\ k = i
    BY <1>1, <1>4, <1>8, <2>1, <2>2
  <2>3. CASE q # p \/ k # i
    <3>1. returns'[q][k] = returns[q][k]
      BY <1>8, <2>3
    <3> QED  BY <2>1, <3>1
  <2> QED  BY <2>2, <2>3
<1>10. DocsInv'
  BY <1>1, <1>8, <1>9 DEF BillingInv, DocsInv, Subtotal, AdvanceFee
<1> QED  BY <1>7, <1>10

LEMMA CreditNoted ==
  ASSUME BillingInv, NEW actor \in Cashiers, NEW i \in Kinds, NEW n \in Amounts, NEW d \in Days,
         CreditNote(actor, i, n, d)
  PROVE  BooksInv' /\ DocsInv' /\ Papered'
<1> DEFINE key == <<"credit", i, Cardinality(Corrections)>>
           net == CreditLines(i, n, d)
<1>1. /\ Book(key, d, actor, net, NoKey) /\ Issued(i)
      /\ UNCHANGED <<today, periods, expenses, lifecycle, invoices, payments, allocations, returns, policies>>
  BY DEF CreditNote, IssuedBy
<1>2. Subtotal(i) > 0
  BY <1>1 DEF Issued, BillingInv, DocsInv
<1>3. n \in Nat /\ actor \in Actors /\ key[1] = "credit"
  BY LedgerAssumption, BillingAssumption
<1>4. net \in [Accounts -> Int]
  BY <1>2, <1>3, CreditLinesType DEF BillingInv
<1> HIDE DEF key, net
<1>5. BooksInv' /\ Papered'
  BY <1>1, <1>3, <1>4, OtherBooked DEF Papers
<1> QED  BY <1>1, <1>5, DocsRest

LEMMA Recognised ==
  ASSUME BillingInv, NEW actor \in Cashiers, NEW policy, NEW n \in Amounts, NEW d \in Days,
         RevenueRecognize(actor, policy, n, d)
  PROVE  BooksInv' /\ DocsInv' /\ Papered'
<1> DEFINE key == <<"revenue", d, n>>
           net == Transfer("LIABILITY", "REVENUE", n)
<1>1. /\ Book(key, d, actor, net, NoKey)
      /\ UNCHANGED <<today, periods, expenses, lifecycle, invoices, payments, allocations, returns, policies>>
  BY DEF RevenueRecognize
<1>2. net \in [Accounts -> Int] /\ actor \in Actors /\ key[1] = "revenue"
  BY LedgerAssumption, BillingAssumption, TransferType
<1> HIDE DEF key, net
<1>3. BooksInv' /\ Papered'
  BY <1>1, <1>2, OtherBooked DEF Papers
<1> QED  BY <1>1, <1>3, DocsRest

LEMMA Documented ==
  ASSUME BillingInv, NEW p \in Payments, NEW which \in {"voucher", "reversalVoucher"}, ReceiptDocument(p, which)
  PROVE  BooksInv' /\ DocsInv' /\ Papered'
<1>1. /\ UNCHANGED <<today, ledger, invoices, allocations, returns, policies>>
      /\ lifecycle' \in LifeCycles
  BY DEF ReceiptDocument, BillingInv, DocsInv, LifeCycles
<1>2. today' \in Days /\ expenses' \in [Entries -> ExpenseRows]
  BY <1>1 DEF BillingInv, BooksInv, ledger
<1>3. BooksInv' /\ PapersStay
  BY <1>1, <1>2, BooksStay DEF ledger, BillingInv, PapersStay
<1>4. DocsInv'
  <2>1. \A q \in Payments, i \in Kinds : Until(returns[q][i], LastDay) <= Alloc(q, i)'
    BY <1>1 DEF BillingInv, DocsInv, Alloc
  <2> QED  BY <1>1, <2>1, DocsKept DEF BillingInv
<1>5. \A q \in Payments : /\ payments'[q].status = payments[q].status
                          /\ payments'[q].reversedOn = payments[q].reversedOn
  <2>1. payments \in [Payments -> Charges] /\ payments[p] \in Charges
    BY DEF BillingInv, MoneyInv, Recorded
  <2>2. CASE which = "voucher"
    <3> DEFINE row == [payments[p] EXCEPT !.voucher = "ISSUED"]
    <3>1. row.status = payments[p].status /\ row.reversedOn = payments[p].reversedOn
      BY <2>1 DEF Charges
    <3>2. payments' = [payments EXCEPT ![p] = row]
      BY <2>1, <2>2 DEF ReceiptDocument
    <3> HIDE DEF row
    <3> QED  BY <2>1, <3>1, <3>2
  <2>3. CASE which = "reversalVoucher"
    <3> DEFINE row == [payments[p] EXCEPT !.reversalVoucher = "ISSUED"]
    <3>1. row.status = payments[p].status /\ row.reversedOn = payments[p].reversedOn
      BY <2>1 DEF Charges
    <3>2. payments' = [payments EXCEPT ![p] = row]
      BY <2>1, <2>3 DEF ReceiptDocument
    <3> HIDE DEF row
    <3> QED  BY <2>1, <3>1, <3>2
  <2> QED  BY <2>2, <2>3
<1>6. Papered'
  BY <1>1, <1>3, <1>5, PapersKept DEF BillingInv
<1> QED  BY <1>3, <1>4, <1>6

(* The rest of what changes nothing that is booked or paid.                 *)
LEMMA BillingRests ==
  ASSUME BillingInv, UNCHANGED <<ledger, lifecycle, invoices, payments, allocations, returns>>,
         today' \in Days, policies' \in Seq(PolicyRows)
  PROVE  BooksInv' /\ DocsInv' /\ Papered'
<1>1. expenses' \in [Entries -> ExpenseRows]
  BY DEF BillingInv, BooksInv, ledger
<1>2. BooksInv' /\ PapersStay
  BY <1>1, BooksStay DEF ledger, BillingInv, PapersStay
<1>3. DocsInv'
  BY DEF BillingInv, DocsInv, Subtotal, AdvanceFee, Alloc
<1>4. Papered'
  BY <1>2, PapersKept DEF BillingInv
<1> QED  BY <1>2, <1>3, <1>4

LEMMA BillingKept ==
  ASSUME BillingInv, BillingNext
  PROVE  BillingInv'
<1>0. SUFFICES BooksInv' /\ DocsInv' /\ Papered'
  BY <1>0, MoneyStep DEF BillingInv
<1>6. ASSUME BooksInv' /\ PapersStay, UNCHANGED billing
      PROVE  BooksInv' /\ DocsInv' /\ Papered'
  <2>1. Papered'
    BY <1>6, PapersKept DEF BillingInv, billing
  <2>2. DocsInv'
    BY <1>6, DocsRest DEF billing
  <2> QED  BY <1>6, <2>1, <2>2
<1>1. ASSUME NEW actor \in Actors, NEW key, JournalReverse(actor, key, LastDay), UNCHANGED billing
      PROVE  BooksInv' /\ DocsInv' /\ Papered'
  <2>1. LastDay \in Days
    BY LedgerAssumption DEF Days
  <2>2. BooksInv' /\ PapersStay
    BY <1>1, <2>1, BooksReverse DEF BillingInv
  <2> QED  BY <1>1, <1>6, <2>2
<1>2. ASSUME NextDay PROVE BooksInv' /\ DocsInv' /\ Papered'
  <2>1. today' \in Days /\ policies' \in Seq(PolicyRows)
    BY <1>2, LedgerAssumption DEF NextDay, billing, Days, BillingInv, BooksInv, DocsInv
  <2> QED  BY <1>2, <2>1, BillingRests DEF NextDay, billing
<1>3. ASSUME NEW actor \in Cashiers, AdvanceDocument(actor) \/ FinalInvoice(actor)
      PROVE  BooksInv' /\ DocsInv' /\ Papered'
  <2>1. actor \in Actors
    BY BillingAssumption
  <2>2. CASE AdvanceDocument(actor)
    <3>1. "ADVANCE" \in Kinds /\ invoices["ADVANCE"].status # "ABSENT"
      BY <2>2 DEF AdvanceDocument, Kinds
    <3>2. Subtotal("ADVANCE") > 0
      BY <3>1 DEF BillingInv, DocsInv
    <3> QED  BY <2>1, <2>2, <3>1, <3>2, InvoiceIssued DEF AdvanceDocument
  <2>3. CASE FinalInvoice(actor)
    BY <2>1, <2>3, InvoiceIssued DEF FinalInvoice, Kinds
  <2> QED  BY <1>3, <2>2, <2>3
<1>4. ASSUME NEW actor \in Cashiers, NEW k \in DOMAIN policies, NEW n \in Amounts, NEW d \in Days,
             RevenueRecognize(actor, policies[k], n, d)
      PROVE  BooksInv' /\ DocsInv' /\ Papered'
  BY <1>4, Recognised
<1>5. ASSUME NEW method \in Methods, NEW from \in Days, RevenuePolicySave(method, from)
      PROVE  BooksInv' /\ DocsInv' /\ Papered'
  <2> DEFINE row == [method |-> method, from |-> from]
  <2>1. row \in PolicyRows
    BY LedgerAssumption DEF PolicyRows, Days
  <2>2. policies' = Append(policies, row)
    BY <1>5 DEF RevenuePolicySave
  <2> HIDE DEF row
  <2>3. policies' \in Seq(PolicyRows) /\ today' \in Days
    BY <1>5, <2>1, <2>2, AppendProperties DEF RevenuePolicySave, BillingInv, BooksInv, DocsInv
  <2> QED  BY <1>5, <2>3, BillingRests DEF RevenuePolicySave
<1>7. ASSUME NEW first \in Days, NEW last \in Days, PeriodOpen(first, last), UNCHANGED billing
      PROVE  BooksInv' /\ DocsInv' /\ Papered'
  BY <1>6, <1>7, BooksOpen DEF BillingInv
<1>8. ASSUME NEW p \in periods, PeriodClose(p), UNCHANGED billing
      PROVE  BooksInv' /\ DocsInv' /\ Papered'
  BY <1>6, <1>8, BooksClose DEF BillingInv
<1> QED
  BY <1>1, <1>2, <1>3, <1>4, <1>5, <1>7, <1>8, PaymentRecorded, PaymentReversed, PaymentAllocated,
     AllocationReversed, CreditNoted, Documented DEF BillingNext

LEMMA BillingBegins ==
  ASSUME BillingInit
  PROVE  BillingInv
<1>1. BooksInv /\ \A k : ~Booked(k)
  BY BooksBegin DEF BillingInit
<1>2. MoneyInv
  BY MoneyBegins
<1>3. invoices \in [Kinds -> Invoices] /\ \A i \in Kinds : ~Issued(i) /\ (invoices[i].status # "ABSENT" => i = "ADVANCE")
  BY LedgerAssumption DEF BillingInit, Invoices, Issued
<1>4. Subtotal("ADVANCE") > 0
  BY BillingAssumption DEF Subtotal, AdvanceFee
<1>5. returns \in [Payments -> [Kinds -> [Days -> Nat]]]
  BY DEF BillingInit
<1>6. \A p \in Payments, i \in Kinds : Until(returns[p][i], LastDay) <= Alloc(p, i)
  <2> SUFFICES ASSUME NEW p \in Payments, NEW i \in Kinds
               PROVE  Until(returns[p][i], LastDay) <= Alloc(p, i)
    OBVIOUS
  <2> DEFINE f == [e \in 1..LastDay |-> returns[p][i][e]]
  <2>1. \A e \in 1..LastDay : f[e] = 0
    BY DEF BillingInit, Days
  <2>2. IsFiniteSet(1..LastDay) /\ DOMAIN f = 1..LastDay
    BY FS_Interval, LedgerAssumption
  <2> HIDE DEF f
  <2>3. SumFunctionOnSet(f, 1..LastDay) = 0
    BY <2>1, <2>2, SumOfZeros
  <2>4. Until(returns[p][i], LastDay) = 0
    BY <2>2, <2>3 DEF Until, SumFunction, f
  <2>5. Alloc(p, i) = 0
    BY DEF BillingInit, Alloc
  <2> QED  BY <2>4, <2>5
<1>7. policies \in Seq(PolicyRows)
  <2> DEFINE row == [method |-> "DEFER_UNTIL_EARNED", from |-> 0]
  <2>1. row \in PolicyRows /\ policies = <<row>>
    BY LedgerAssumption DEF BillingInit, PolicyRows, Methods
  <2> HIDE DEF row
  <2> QED  BY <2>1
<1>8. DocsInv
  BY <1>3, <1>4, <1>5, <1>6, <1>7 DEF DocsInv, LifeCycles, BillingInit
<1>9. \A p \in Payments : ~Original(p) /\ ~IsReversed(p)
  BY DEF BillingInit, NoPayment, Original, IsReversed
<1>10. Papered
  BY <1>1, <1>3, <1>9 DEF Papered
<1> QED  BY <1>1, <1>2, <1>8, <1>10 DEF BillingInv

LEMMA BillingImplies == BillingInv => BillingTypeOK
<1> SUFFICES ASSUME BillingInv PROVE BillingTypeOK
  OBVIOUS
<1>1. LedgerTypeOK
  BY BooksImply DEF BillingInv
<1>2. \A i \in Kinds : invoices[i].status \in {"ABSENT", "PENDING_DOCUMENT", "ISSUED"}
  BY DEF BillingInv, DocsInv, Invoices
<1> QED  BY <1>1, <1>2 DEF BillingInv, DocsInv, Papered, BillingTypeOK, LifeCycles, PolicyRows

(* A document and its journal come together: an invoice is issued, a        *)
(* payment recorded, and a payment reversed, exactly when the journal that  *)
(* is named after it is posted, whatever is credited, returned, recognised  *)
(* or reversed by hand in between; every journal balances, a credit note's  *)
(* after the rounding of its tax too; and no more of an allocation is       *)
(* returned than was allocated (postInvoice, payment.record and             *)
(* payment.reverse of businessDelivery.ts and businessOutbox.ts).           *)
THEOREM DocumentsAreBooked == BillingSpec => []BillingTypeOK
<1>1. BillingInit => BillingInv
  BY BillingBegins
<1>2. BillingInv /\ [BillingNext]_<<today, ledger, billing>> => BillingInv'
  <2>1. CASE BillingNext
    BY <2>1, BillingKept
  <2>2. CASE UNCHANGED <<today, ledger, billing>>
    <3>1. BillingInv /\ UNCHANGED <<today, ledger, billing>> => BooksInv' /\ DocsInv' /\ Papered'
      <4>1. BillingInv /\ UNCHANGED <<today, ledger, billing>> => today' \in Days /\ policies' \in Seq(PolicyRows)
        BY DEF billing, BillingInv, BooksInv, DocsInv
      <4> QED  BY <4>1, BillingRests DEF billing
    <3>2. BillingInv /\ UNCHANGED <<today, ledger, billing>> => MoneyInv'
      <4>1. BillingInv /\ UNCHANGED <<today, ledger, billing>> => Recorded' /\ today' \in Days
        BY DEF billing, BillingInv, MoneyInv, Recorded
      <4> QED  BY <4>1, MoneyKept DEF billing, BillingInv
    <3> QED  BY <2>2, <3>1, <3>2 DEF BillingInv
  <2> QED  BY <2>1, <2>2
<1> QED  BY <1>1, <1>2, BillingImplies, PTL DEF BillingSpec

----
(* What is billed and collected by a day whose periods are closed.          *)

(* A credit note is numbered by the corrections before it, so that none is  *)
(* booked already when it is noted.                                         *)
Numbered == \A k \in DOMAIN journals : k[1] = "credit" => k[3] \in 0..(Cardinality(Corrections) - 1)
CreditsInv == credits \in [Kinds -> [Days -> Nat]] /\ Numbered

JournalsGrow ==
  /\ DOMAIN journals \subseteq DOMAIN journals'
  /\ \A k \in DOMAIN journals' : k \notin DOMAIN journals => k[1] # "credit"

SettledBy(c) == \A d \in 1..c : Closed(d)
KeepsSettled == \A c \in Days : SettledBy(c) => Billed(c)' = Billed(c) /\ Collected(c)' = Collected(c)

LEMMA CorrectionsCounted ==
  ASSUME IsFiniteSet(DOMAIN journals)
  PROVE  IsFiniteSet(Corrections) /\ Cardinality(Corrections) \in Nat
BY FS_Subset, FS_CardinalityType DEF Corrections

LEMMA StillNumbered ==
  ASSUME Numbered, IsFiniteSet(DOMAIN journals'), JournalsGrow
  PROVE  Numbered'
<1>1. Corrections \subseteq Corrections'
  BY DEF Corrections, JournalsGrow
<1>2. IsFiniteSet(Corrections') /\ Cardinality(Corrections') \in Nat
  BY FS_Subset, FS_CardinalityType DEF Corrections
<1>3. Cardinality(Corrections) \in Nat /\ Cardinality(Corrections) <= Cardinality(Corrections')
  BY <1>1, <1>2, FS_Subset, FS_CardinalityType
<1> QED  BY <1>2, <1>3 DEF Numbered, JournalsGrow

LEMMA BookGrows ==
  ASSUME NEW key, key[1] # "credit", NEW d, NEW by, NEW net, NEW reverses, Book(key, d, by, net, reverses)
  PROVE  JournalsGrow
BY DEF Book, WithJournal, JournalsGrow

LEMMA LedgerGrows ==
  ASSUME LedgerNext
  PROVE  JournalsGrow
<1>0. ASSUME UNCHANGED journals PROVE JournalsGrow
  BY <1>0 DEF JournalsGrow
<1>1. ASSUME NEW first, NEW last, PeriodOpen(first, last) PROVE JournalsGrow
  BY <1>0, <1>1 DEF PeriodOpen
<1>2. ASSUME NEW p, PeriodClose(p) PROVE JournalsGrow
  BY <1>0, <1>2 DEF PeriodClose
<1>3. ASSUME NEW actor, NEW e, NEW d, NEW debit, NEW credit, NEW n, JournalCreate(actor, e, d, debit, credit, n)
      PROVE  JournalsGrow
  BY <1>3 DEF JournalCreate, WithJournal, Manual, JournalsGrow
<1>4. ASSUME NEW actor, NEW e, NEW d, NEW settled, NEW n, ExpenseCreate(actor, e, d, settled, n)
      PROVE  JournalsGrow
  BY <1>0, <1>4 DEF ExpenseCreate
<1>5. ASSUME NEW actor, NEW partner, NEW e, NEW d, NEW n, Withdrawal(actor, partner, e, d, n)
      PROVE  JournalsGrow
  BY <1>5, BookGrows DEF Withdrawal
<1>6. ASSUME NEW actor, NEW e, NEW d, NEW n, PettyCashReplenish(actor, e, d, n) PROVE JournalsGrow
  BY <1>6, BookGrows DEF PettyCashReplenish
<1>7. ASSUME NEW actor, NEW key, JournalPost(actor, key) PROVE JournalsGrow
  BY <1>7 DEF JournalPost, JournalsGrow
<1>8. ASSUME NEW actor, NEW key, NEW d, JournalReverse(actor, key, d) PROVE JournalsGrow
  BY <1>8, BookGrows DEF JournalReverse
<1>9. ASSUME NEW actor, NEW e, ExpensePost(actor, e) PROVE JournalsGrow
  BY <1>9, BookGrows DEF ExpensePost
<1> QED  BY <1>1, <1>2, <1>3, <1>4, <1>5, <1>6, <1>7, <1>8, <1>9 DEF LedgerNext

(* The figures stay when what they count stays. *)
LEMMA BilledSame ==
  ASSUME NEW c, \A k \in Kinds : IssuedBy(k, c)' <=> IssuedBy(k, c),
         \A k \in Kinds : Until(credits'[k], c) = Until(credits[k], c)
  PROVE  Billed(c)' = Billed(c)
<1>1. {k \in Kinds : IssuedBy(k, c)'} = {k \in Kinds : IssuedBy(k, c)}
  OBVIOUS
<1>2. [k \in Kinds |-> Until(credits'[k], c)] = [k \in Kinds |-> Until(credits[k], c)]
  OBVIOUS
<1> QED  BY <1>1, <1>2 DEF Billed, Total, Subtotal, Tax, AdvanceFee, Until

CountsPaid(p, c) == Original(p) /\ payments[p].date <= c
CountsReversed(p, c) == IsReversed(p) /\ payments[p].reversedOn <= c

LEMMA CollectedSame ==
  ASSUME NEW c,
         \A p \in Payments : CountsPaid(p, c)' <=> CountsPaid(p, c),
         \A p \in Payments : CountsReversed(p, c)' <=> CountsReversed(p, c),
         \A p \in Payments : CountsPaid(p, c) \/ CountsReversed(p, c) => payments'[p].amount = payments[p].amount
  PROVE  Collected(c)' = Collected(c)
<1> DEFINE paid == {p \in Payments : CountsPaid(p, c)}
           gone == {p \in Payments : CountsReversed(p, c)}
<1>1. {p \in Payments : CountsPaid(p, c)'} = paid /\ {p \in Payments : CountsReversed(p, c)'} = gone
  OBVIOUS
<1>2. /\ [p \in paid |-> payments'[p].amount] = [p \in paid |-> payments[p].amount]
      /\ [p \in gone |-> payments'[p].amount] = [p \in gone |-> payments[p].amount]
  OBVIOUS
<1>3. Collected(c) = SumFunction([p \in paid |-> payments[p].amount]) - SumFunction([p \in gone |-> payments[p].amount])
  BY DEF Collected, CountsPaid, CountsReversed
<1>4. Collected(c)' = SumFunction([p \in {q \in Payments : CountsPaid(q, c)'} |-> payments'[p].amount])
                        - SumFunction([p \in {q \in Payments : CountsReversed(q, c)'} |-> payments'[p].amount])
  BY DEF Collected, CountsPaid, CountsReversed
<1> HIDE DEF paid, gone
<1> QED  BY <1>1, <1>2, <1>3, <1>4

LEMMA BilledRests ==
  ASSUME UNCHANGED <<invoices, credits>>, NEW c
  PROVE  Billed(c)' = Billed(c)
BY BilledSame DEF IssuedBy, Issued

LEMMA CollectedRests ==
  ASSUME UNCHANGED payments, NEW c
  PROVE  Collected(c)' = Collected(c)
BY CollectedSame DEF CountsPaid, CountsReversed, Original, IsReversed

LEMMA SettledRests ==
  ASSUME UNCHANGED <<invoices, credits, payments>>
  PROVE  KeepsSettled
BY BilledRests, CollectedRests DEF KeepsSettled

(* Nothing new is dated where the periods are closed. *)
LEMMA OpenIsLater ==
  ASSUME BooksInv, NEW c \in Days, SettledBy(c), NEW d \in Days, OpenOn(d)
  PROVE  c < d
<1>1. ~Closed(d)
  BY OpenIsNotClosed DEF BooksInv, LedgerInv
<1>2. d \notin 1..c
  BY <1>1 DEF SettledBy
<1> QED  BY <1>2, LedgerAssumption DEF Days

LEMMA InvoiceSettled ==
  ASSUME BillingInv, NEW i \in Kinds, NEW actor, IssueInvoice(i, actor), ~Issued(i), UNCHANGED <<payments, credits>>
  PROVE  KeepsSettled
<1> SUFFICES ASSUME NEW c \in Days, SettledBy(c) PROVE Billed(c)' = Billed(c) /\ Collected(c)' = Collected(c)
  BY DEF KeepsSettled
<1> DEFINE row == [status |-> "ISSUED", date |-> today]
<1>1. Book(<<"invoice", i>>, today, actor, InvoiceLines(i), NoKey) /\ invoices' = [invoices EXCEPT ![i] = row]
  BY DEF IssueInvoice
<1>2. today \in Days /\ OpenOn(today)
  BY <1>1 DEF BillingInv, Papered, Book, BooksInv
<1>3. c < today
  BY <1>2, OpenIsLater DEF BillingInv
<1>4. row.date = today
  OBVIOUS
<1> HIDE DEF row
<1>5. invoices'[i].date = today /\ \A k \in Kinds \ {i} : invoices'[k] = invoices[k]
  BY <1>1, <1>4 DEF BillingInv, DocsInv
<1>6. ASSUME NEW k \in Kinds PROVE IssuedBy(k, c)' <=> IssuedBy(k, c)
  <2>1. CASE k = i
    <3>1. ~(today <= c)
      BY <1>2, <1>3, LedgerAssumption DEF Days
    <3> QED  BY <1>5, <2>1, <3>1 DEF IssuedBy
  <2>2. CASE k # i
    BY <1>5, <2>2 DEF IssuedBy, Issued
  <2> QED  BY <2>1, <2>2
<1> QED  BY <1>6, BilledSame, CollectedRests

LEMMA RecordedSettled ==
  ASSUME BillingInv, NEW actor, NEW p \in Payments, NEW n, NEW d \in Days, NEW shares,
         PaymentRecord(actor, p, n, d, shares)
  PROVE  KeepsSettled
<1> SUFFICES ASSUME NEW c \in Days, SettledBy(c) PROVE Billed(c)' = Billed(c) /\ Collected(c)' = Collected(c)
  BY DEF KeepsSettled
<1> DEFINE row == [payments[p] EXCEPT !.status = "VERIFIED", !.amount = n, !.date = d, !.voucher = "PENDING"]
<1>1. /\ Book(<<"payment", p>>, d, actor, PaymentLines(n, shares), NoKey)
      /\ payments[p].status = "ABSENT" /\ payments' = [payments EXCEPT ![p] = row]
      /\ UNCHANGED <<invoices, credits>>
  BY DEF PaymentRecord, BillingInv, MoneyInv, Recorded
<1>2. payments[p] \in Charges /\ ~Original(p) /\ ~IsReversed(p)
  BY <1>1 DEF BillingInv, MoneyInv, Recorded, Original
<1>3. OpenOn(d)
  BY <1>1, <1>2 DEF BillingInv, Papered, Book
<1>4. c < d
  BY <1>3, OpenIsLater DEF BillingInv
<1>5. row.date = d /\ row.reversedOn = payments[p].reversedOn
  BY <1>2 DEF Charges
<1> HIDE DEF row
<1>6. payments'[p] = row /\ \A q \in Payments \ {p} : payments'[q] = payments[q]
  BY <1>1 DEF BillingInv, MoneyInv, Recorded
<1>7. ~(d <= c)
  BY <1>4, LedgerAssumption DEF Days
<1>8. ASSUME NEW q \in Payments
      PROVE  /\ CountsPaid(q, c)' <=> CountsPaid(q, c)
             /\ CountsReversed(q, c)' <=> CountsReversed(q, c)
             /\ CountsPaid(q, c) \/ CountsReversed(q, c) => payments'[q].amount = payments[q].amount
  <2>1. CASE q = p
    BY <1>2, <1>5, <1>6, <1>7, <2>1 DEF CountsPaid, CountsReversed, IsReversed
  <2>2. CASE q # p
    <3>1. payments'[q] = payments[q]
      BY <1>6, <2>2
    <3> QED  BY <3>1 DEF CountsPaid, CountsReversed, Original, IsReversed
  <2> QED  BY <2>1, <2>2
<1> QED  BY <1>1, <1>8, BilledRests, CollectedSame

LEMMA ReversedSettled ==
  ASSUME BillingInv, NEW actor, NEW p \in Payments, PaymentReverse(actor, p)
  PROVE  KeepsSettled
<1> SUFFICES ASSUME NEW c \in Days, SettledBy(c) PROVE Billed(c)' = Billed(c) /\ Collected(c)' = Collected(c)
  BY DEF KeepsSettled
<1> DEFINE row == [payments[p] EXCEPT !.reversedOn = today, !.reversalVoucher = "PENDING"]
<1>1. /\ Book(<<"reversal", p>>, today, actor, Minus(journals[<<"payment", p>>].net), <<"payment", p>>)
      /\ ~IsReversed(p) /\ payments' = [payments EXCEPT ![p] = row]
      /\ UNCHANGED <<invoices, credits>>
  BY DEF PaymentReverse, BillingInv, MoneyInv, Recorded
<1>2. payments[p] \in Charges /\ today \in Days
  BY DEF BillingInv, MoneyInv, Recorded
<1>3. OpenOn(today)
  BY <1>1 DEF BillingInv, Papered, Book
<1>4. c < today
  BY <1>2, <1>3, OpenIsLater DEF BillingInv
<1>5. /\ row.reversedOn = today /\ row.date = payments[p].date
      /\ row.status = payments[p].status /\ row.amount = payments[p].amount
  BY <1>2 DEF Charges
<1> HIDE DEF row
<1>6. payments'[p] = row /\ \A q \in Payments \ {p} : payments'[q] = payments[q]
  BY <1>1 DEF BillingInv, MoneyInv, Recorded
<1>7. ~(today <= c)
  BY <1>2, <1>4, LedgerAssumption DEF Days
<1>8. ASSUME NEW q \in Payments
      PROVE  /\ CountsPaid(q, c)' <=> CountsPaid(q, c)
             /\ CountsReversed(q, c)' <=> CountsReversed(q, c)
             /\ CountsPaid(q, c) \/ CountsReversed(q, c) => payments'[q].amount = payments[q].amount
  <2>1. CASE q = p
    BY <1>1, <1>5, <1>6, <1>7, <2>1 DEF CountsPaid, CountsReversed, Original
  <2>2. CASE q # p
    <3>1. payments'[q] = payments[q]
      BY <1>6, <2>2
    <3> QED  BY <3>1 DEF CountsPaid, CountsReversed, Original, IsReversed
  <2> QED  BY <2>1, <2>2
<1> QED  BY <1>1, <1>8, BilledRests, CollectedSame

LEMMA DocumentSettled ==
  ASSUME BillingInv, NEW p \in Payments, NEW which \in {"voucher", "reversalVoucher"}, ReceiptDocument(p, which)
  PROVE  KeepsSettled
<1>1. UNCHANGED <<invoices, credits>>
  BY DEF ReceiptDocument
<1>2. payments \in [Payments -> Charges] /\ payments[p] \in Charges
  BY DEF BillingInv, MoneyInv, Recorded
<1>3. PICK row : /\ payments' = [payments EXCEPT ![p] = row]
                 /\ row.status = payments[p].status /\ row.date = payments[p].date
                 /\ row.amount = payments[p].amount /\ row.reversedOn = payments[p].reversedOn
  <2>1. CASE which = "voucher"
    <3> DEFINE row == [payments[p] EXCEPT !.voucher = "ISSUED"]
    <3>1. /\ row.status = payments[p].status /\ row.date = payments[p].date
          /\ row.amount = payments[p].amount /\ row.reversedOn = payments[p].reversedOn
      BY <1>2 DEF Charges
    <3>2. payments' = [payments EXCEPT ![p] = row]
      BY <1>2, <2>1 DEF ReceiptDocument
    <3> HIDE DEF row
    <3> QED  BY <3>1, <3>2
  <2>2. CASE which = "reversalVoucher"
    <3> DEFINE row == [payments[p] EXCEPT !.reversalVoucher = "ISSUED"]
    <3>1. /\ row.status = payments[p].status /\ row.date = payments[p].date
          /\ row.amount = payments[p].amount /\ row.reversedOn = payments[p].reversedOn
      BY <1>2 DEF Charges
    <3>2. payments' = [payments EXCEPT ![p] = row]
      BY <1>2, <2>2 DEF ReceiptDocument
    <3> HIDE DEF row
    <3> QED  BY <3>1, <3>2
  <2> QED  BY <2>1, <2>2
<1>4. \A q \in Payments : /\ payments'[q].status = payments[q].status /\ payments'[q].date = payments[q].date
                          /\ payments'[q].amount = payments[q].amount
                          /\ payments'[q].reversedOn = payments[q].reversedOn
  BY <1>2, <1>3
<1>5. ASSUME NEW c PROVE Collected(c)' = Collected(c)
  BY <1>4, CollectedSame DEF CountsPaid, CountsReversed, Original, IsReversed
<1> QED  BY <1>1, <1>5, BilledRests DEF KeepsSettled

LEMMA CreditSettled ==
  ASSUME BillingInv, CreditsInv, NEW actor, NEW i \in Kinds, NEW n \in Amounts, NEW d \in Days, CreditNote(actor, i, n, d)
  PROVE  CreditsInv' /\ KeepsSettled
<1> DEFINE number == Cardinality(Corrections)
           key == <<"credit", i, number>>
           now == [credits[i] EXCEPT ![d] = @ + n]
<1>1. /\ Book(key, d, actor, CreditLines(i, n, d), NoKey) /\ UNCHANGED <<invoices, payments>>
      /\ credits' = [credits EXCEPT ![i] = now]
  BY DEF CreditNote, CreditsInv
<1>2. IsFiniteSet(Corrections) /\ number \in Nat
  BY CorrectionsCounted DEF BillingInv, BooksInv
<1>3. key[1] = "credit" /\ key[3] = number
  OBVIOUS
<1>4. key \notin DOMAIN journals
  <2> HIDE DEF key, number
  <2>1. ASSUME key \in DOMAIN journals PROVE FALSE
    <3>1. key[3] \in 0..(number - 1)
      BY <1>3, <2>1 DEF CreditsInv, Numbered, number
    <3> QED  BY <1>2, <1>3, <3>1
  <2> QED  BY <2>1
<1>5. OpenOn(d) /\ DOMAIN journals' = DOMAIN journals \cup {key}
  BY <1>1, <1>4 DEF Book, Booked, WithJournal
<1>6. credits[i] \in [Days -> Nat] /\ n \in Nat
  BY LedgerAssumption DEF CreditsInv
<1>7. now \in [Days -> Nat] /\ \A e \in Days \ {d} : now[e] = credits[i][e]
  BY <1>6
<1> HIDE DEF now
<1>8. credits' \in [Kinds -> [Days -> Nat]] /\ credits'[i] = now /\ \A k \in Kinds \ {i} : credits'[k] = credits[k]
  BY <1>1, <1>7 DEF CreditsInv
<1> HIDE DEF key
<1>9. Numbered'
  <2>1. Corrections' = Corrections \cup {key} /\ key \notin Corrections
    BY <1>3, <1>4, <1>5 DEF Corrections
  <2>2. Cardinality(Corrections') = number + 1
    BY <1>2, <2>1, FS_AddElement
  <2> HIDE DEF number
  <2> SUFFICES ASSUME NEW k \in DOMAIN journals', k[1] = "credit" PROVE k[3] \in 0..(Cardinality(Corrections') - 1)
    BY DEF Numbered
  <2>3. CASE k = key
    BY <1>2, <1>3, <2>2, <2>3
  <2>4. CASE k # key
    <3>1. k[3] \in 0..(number - 1)
      BY <1>5, <2>4 DEF CreditsInv, Numbered, number
    <3> QED  BY <1>2, <2>2, <3>1
  <2> QED  BY <2>3, <2>4
<1>10. KeepsSettled
  <2> SUFFICES ASSUME NEW c \in Days, SettledBy(c) PROVE Billed(c)' = Billed(c) /\ Collected(c)' = Collected(c)
    BY DEF KeepsSettled
  <2>1. c < d
    BY <1>5, OpenIsLater DEF BillingInv
  <2>2. \A e \in 1..c : e \in Days /\ e # d
    BY <2>1, LedgerAssumption DEF Days
  <2>3. Until(credits'[i], c) = Until(credits[i], c)
    <3>1. [e \in 1..c |-> now[e]] = [e \in 1..c |-> credits[i][e]]
      BY <1>7, <2>2
    <3> QED  BY <1>8, <3>1 DEF Until
  <2>4. \A k \in Kinds : Until(credits'[k], c) = Until(credits[k], c)
    BY <1>8, <2>3
  <2>5. \A k \in Kinds : IssuedBy(k, c)' <=> IssuedBy(k, c)
    BY <1>1 DEF IssuedBy, Issued
  <2> QED  BY <1>1, <2>4, <2>5, BilledSame, CollectedRests
<1> QED  BY <1>8, <1>9, <1>10 DEF CreditsInv

LEMMA CreditsRest ==
  ASSUME CreditsInv, UNCHANGED credits, JournalsGrow, IsFiniteSet(DOMAIN journals')
  PROVE  CreditsInv'
BY StillNumbered DEF CreditsInv

LEMMA SettledStep ==
  ASSUME BillingInv, BillingInv', CreditsInv, BillingNext
  PROVE  CreditsInv' /\ KeepsSettled
<1>0. ASSUME JournalsGrow, UNCHANGED credits, KeepsSettled
      PROVE  CreditsInv' /\ KeepsSettled
  BY <1>0, CreditsRest DEF BillingInv, BooksInv
<1>1. ASSUME JournalsGrow, UNCHANGED <<invoices, payments, credits>>
      PROVE  CreditsInv' /\ KeepsSettled
  BY <1>0, <1>1, SettledRests
<1>2. ASSUME LedgerNext, UNCHANGED billing
      PROVE  CreditsInv' /\ KeepsSettled
  BY <1>1, <1>2, LedgerGrows DEF billing
<1>3. ASSUME NEW first \in Days, NEW last \in Days, PeriodOpen(first, last), UNCHANGED billing
      PROVE  CreditsInv' /\ KeepsSettled
  BY <1>2, <1>3 DEF LedgerNext
<1>4. ASSUME NEW p \in periods, PeriodClose(p), UNCHANGED billing
      PROVE  CreditsInv' /\ KeepsSettled
  BY <1>2, <1>4 DEF LedgerNext
<1>5. ASSUME NEW actor \in Actors, NEW key \in DOMAIN journals, JournalReverse(actor, key, LastDay), UNCHANGED billing
      PROVE  CreditsInv' /\ KeepsSettled
  <2>1. LastDay \in Days
    BY LedgerAssumption DEF Days
  <2> QED  BY <1>2, <1>5, <2>1 DEF LedgerNext
<1>6. ASSUME NextDay PROVE CreditsInv' /\ KeepsSettled
  <2>1. JournalsGrow
    BY <1>6 DEF NextDay, ledger, JournalsGrow
  <2> QED  BY <1>1, <1>6, <2>1 DEF NextDay, billing
<1>7. ASSUME NEW actor \in Cashiers, AdvanceDocument(actor) \/ FinalInvoice(actor)
      PROVE  CreditsInv' /\ KeepsSettled
  <2>1. PICK i \in Kinds : IssueInvoice(i, actor) /\ ~Issued(i) /\ UNCHANGED <<payments, credits>>
    BY <1>7 DEF AdvanceDocument, FinalInvoice, Kinds, Issued
  <2>2. JournalsGrow
    BY <2>1, BookGrows DEF IssueInvoice
  <2> QED  BY <1>0, <2>1, <2>2, InvoiceSettled
<1>8. ASSUME NEW actor, NEW p \in Payments, NEW n, NEW d \in Days, NEW shares, PaymentRecord(actor, p, n, d, shares)
      PROVE  CreditsInv' /\ KeepsSettled
  <2>1. JournalsGrow /\ UNCHANGED credits
    BY <1>8, BookGrows DEF PaymentRecord
  <2> QED  BY <1>0, <1>8, <2>1, RecordedSettled
<1>9. ASSUME NEW actor, NEW p \in Payments, PaymentReverse(actor, p)
      PROVE  CreditsInv' /\ KeepsSettled
  <2>1. JournalsGrow /\ UNCHANGED credits
    BY <1>9, BookGrows DEF PaymentReverse
  <2> QED  BY <1>0, <1>9, <2>1, ReversedSettled
<1>10. ASSUME NEW actor, NEW p, NEW i, NEW n, NEW d, PaymentAllocate(actor, p, i, n, d) \/ AllocationReverse(actor, p, i, n, d)
      PROVE  CreditsInv' /\ KeepsSettled
  <2>1. JournalsGrow /\ UNCHANGED <<invoices, payments, credits>>
    BY <1>10, BookGrows DEF PaymentAllocate, AllocationReverse
  <2> QED  BY <1>1, <2>1
<1>11. ASSUME NEW actor, NEW policy, NEW n, NEW d, RevenueRecognize(actor, policy, n, d)
      PROVE  CreditsInv' /\ KeepsSettled
  <2>1. JournalsGrow /\ UNCHANGED <<invoices, payments, credits>>
    BY <1>11, BookGrows DEF RevenueRecognize
  <2> QED  BY <1>1, <2>1
<1>12. ASSUME NEW p \in Payments, NEW which \in {"voucher", "reversalVoucher"}, ReceiptDocument(p, which)
      PROVE  CreditsInv' /\ KeepsSettled
  <2>1. JournalsGrow /\ UNCHANGED credits
    BY <1>12 DEF ReceiptDocument, ledger, JournalsGrow
  <2> QED  BY <1>0, <1>12, <2>1, DocumentSettled
<1>13. ASSUME NEW method, NEW from, RevenuePolicySave(method, from)
      PROVE  CreditsInv' /\ KeepsSettled
  <2>1. JournalsGrow /\ UNCHANGED <<invoices, payments, credits>>
    BY <1>13 DEF RevenuePolicySave, ledger, JournalsGrow
  <2> QED  BY <1>1, <2>1
<1> QED
  BY <1>3, <1>4, <1>5, <1>6, <1>7, <1>8, <1>9, <1>10, <1>11, <1>12, <1>13, CreditSettled DEF BillingNext

----
(* The parts of the firm together.                                          *)
LEMMA PracticeImplies == PracticeInv => PracticeTypeOK /\ SnapshotsReproduce
<1> SUFFICES ASSUME PracticeInv PROVE PracticeTypeOK /\ SnapshotsReproduce
  OBVIOUS
<1>1. ASSUME NEW t \in TimeEntries
      PROVE  /\ entries[t].status \in {"ABSENT", "DRAFT", "SUBMITTED", "RETURNED", "APPROVED"}
             /\ entries[t].status = "SUBMITTED" => entries[t].rate # NoRate
             /\ Corrected(t) => entries[t].status = "APPROVED" /\ entries[t].approvedOn <= entries[t].correctedOn
  BY DEF PracticeInv, EntryForm, Times, Corrected
<1>2. \A k \in DOMAIN activations : activations[k].action \in {"ACTIVATE", "RETIRE"} /\ activations[k].from \in Days
  <2>1. \A k \in DOMAIN activations : activations[k] \in Events
    BY ElementOfSeq, LenProperties DEF PracticeInv
  <2> QED  BY <2>1 DEF Events
<1> QED  BY <1>1, <1>2 DEF PracticeInv, PracticeTypeOK, SnapshotsReproduce

(* The firm as a whole: the commands of all its parts, the form and the     *)
(* days in any order.  What Spec explores, one part at a time, are          *)
(* behaviours of it.                                                        *)
firmVars == <<today, ledger, billing, practice, intakeVars>>
FirmInit == PracticeInit /\ IntakeInit
FirmNext ==
  \/ LedgerNext /\ UNCHANGED <<billing, practice, intakeVars>>
  \/ BillingNext /\ UNCHANGED <<practice, intakeVars>>
  \/ PracticeNext /\ UNCHANGED intakeVars
  \/ IntakeNext /\ UNCHANGED <<today, ledger, billing, practice>>
FirmSpec == FirmInit /\ [][FirmNext]_firmVars

FirmInv == BillingInv /\ PracticeInv /\ IntakeInv

LEMMA FirmBegins == FirmInit => FirmInv
BY BillingBegins, PracticeBegins, IntakeStarts DEF PracticeInit, FirmInit, FirmInv

(* The manual commands of the ledger, to which billing and practice are     *)
(* blind.                                                                   *)
LEMMA LedgerRests == LedgerNext => today' = today
<1>1. ASSUME NEW first, NEW last, PeriodOpen(first, last) PROVE today' = today
  BY <1>1 DEF PeriodOpen
<1>2. ASSUME NEW p, PeriodClose(p) PROVE today' = today
  BY <1>2 DEF PeriodClose
<1>3. ASSUME NEW actor, NEW e, NEW d, NEW debit, NEW credit, NEW n, JournalCreate(actor, e, d, debit, credit, n)
      PROVE  today' = today
  BY <1>3 DEF JournalCreate
<1>4. ASSUME NEW actor, NEW e, NEW d, NEW settled, NEW n, ExpenseCreate(actor, e, d, settled, n)
      PROVE  today' = today
  BY <1>4 DEF ExpenseCreate
<1>5. ASSUME NEW actor, NEW partner, NEW e, NEW d, NEW n, Withdrawal(actor, partner, e, d, n)
      PROVE  today' = today
  BY <1>5 DEF Withdrawal
<1>6. ASSUME NEW actor, NEW e, NEW d, NEW n, PettyCashReplenish(actor, e, d, n) PROVE today' = today
  BY <1>6 DEF PettyCashReplenish
<1>7. ASSUME NEW actor, NEW key, JournalPost(actor, key) PROVE today' = today
  BY <1>7 DEF JournalPost
<1>8. ASSUME NEW actor, NEW key, NEW d, JournalReverse(actor, key, d) PROVE today' = today
  BY <1>8 DEF JournalReverse
<1>9. ASSUME NEW actor, NEW e, ExpensePost(actor, e) PROVE today' = today
  BY <1>9 DEF ExpensePost
<1> QED  BY <1>1, <1>2, <1>3, <1>4, <1>5, <1>6, <1>7, <1>8, <1>9 DEF LedgerNext

(* A day only ends by itself.                                               *)
LEMMA BillingDay == BillingNext => NextDay \/ today' = today
<1>1. ASSUME NEW actor, NEW key, JournalReverse(actor, key, LastDay) PROVE today' = today
  BY <1>1 DEF JournalReverse
<1>2. ASSUME NEW actor, AdvanceDocument(actor) \/ FinalInvoice(actor) PROVE today' = today
  BY <1>2 DEF AdvanceDocument, FinalInvoice
<1>3. ASSUME NEW actor, NEW p, NEW n, NEW d, NEW shares, PaymentRecord(actor, p, n, d, shares) PROVE today' = today
  BY <1>3 DEF PaymentRecord
<1>4. ASSUME NEW actor, NEW p, PaymentReverse(actor, p) PROVE today' = today
  BY <1>4 DEF PaymentReverse
<1>5. ASSUME NEW actor, NEW p, NEW i, NEW n, NEW d, PaymentAllocate(actor, p, i, n, d) PROVE today' = today
  BY <1>5 DEF PaymentAllocate
<1>6. ASSUME NEW actor, NEW p, NEW i, NEW n, NEW d, AllocationReverse(actor, p, i, n, d) PROVE today' = today
  BY <1>6 DEF AllocationReverse
<1>7. ASSUME NEW actor, NEW i, NEW n, NEW d, CreditNote(actor, i, n, d) PROVE today' = today
  BY <1>7 DEF CreditNote
<1>8. ASSUME NEW actor, NEW policy, NEW n, NEW d, RevenueRecognize(actor, policy, n, d) PROVE today' = today
  BY <1>8 DEF RevenueRecognize
<1>9. ASSUME NEW p, NEW which, ReceiptDocument(p, which) PROVE today' = today
  BY <1>9 DEF ReceiptDocument
<1>10. ASSUME NEW method, NEW from, RevenuePolicySave(method, from) PROVE today' = today
  BY <1>10 DEF RevenuePolicySave
<1>11. ASSUME NEW first, NEW last, PeriodOpen(first, last) PROVE today' = today
  BY <1>11 DEF PeriodOpen
<1>12. ASSUME NEW p, PeriodClose(p) PROVE today' = today
  BY <1>12 DEF PeriodClose
<1> QED  BY <1>1, <1>2, <1>3, <1>4, <1>5, <1>6, <1>7, <1>8, <1>9, <1>10, <1>11, <1>12 DEF BillingNext

LEMMA PracticeLeaves == PracticeNext => UNCHANGED books
<1>1. ASSUME NEW x, NEW t, TimeSubmit(x, t) \/ TimeStrike(x, t) PROVE UNCHANGED books
  BY <1>1 DEF TimeSubmit, TimeStrike
<1>2. ASSUME NEW x, NEW t, NEW status, TimeDecide(x, t, status) PROVE UNCHANGED books
  BY <1>2 DEF TimeDecide
<1>3. ASSUME NEW x, NEW t, NEW d, NEW m, NEW s, TimeCreate(x, t, d, m, s) PROVE UNCHANGED books
  BY <1>3 DEF TimeCreate
<1>4. ASSUME NEW x, NEW t, NEW r, NEW d, NEW m, NEW s, TimeReplace(x, t, r, d, m, s) PROVE UNCHANGED books
  BY <1>4 DEF TimeReplace
<1>5. ASSUME NEW d, RateSet(d) \/ BudgetApprove(d) \/ CaptureProfitability(d) PROVE UNCHANGED books
  BY <1>5 DEF RateSet, BudgetApprove, CaptureProfitability
<1>6. ASSUME NEW rate, NEW d, RateRetire(rate, d) PROVE UNCHANGED books
  BY <1>6 DEF RateRetire
<1>7. ASSUME PracticeNextDay PROVE UNCHANGED books
  BY <1>7 DEF PracticeNextDay
<1>8. ASSUME NEW g, Regrade(g) PROVE UNCHANGED books
  BY <1>8 DEF Regrade
<1> QED  BY <1>1, <1>2, <1>3, <1>4, <1>5, <1>6, <1>7, <1>8 DEF PracticeNext

LEMMA MoneyRests ==
  ASSUME MoneyInv, UNCHANGED <<payments, allocations>>, today' \in Days
  PROVE  MoneyInv'
<1>1. Recorded'
  BY DEF MoneyInv, Recorded
<1> QED  BY <1>1, MoneyKept

LEMMA LedgerPart ==
  ASSUME FirmInv, LedgerNext, UNCHANGED <<billing, practice, intakeVars>>
  PROVE  FirmInv'
<1>1. BillingInv /\ BooksInv /\ MoneyInv /\ PracticeInv /\ IntakeInv
  BY DEF FirmInv, BillingInv
<1>2. BooksInv' /\ PapersStay
  BY <1>1, BooksStep
<1>3. today' = today /\ today' \in Days
  BY <1>1, LedgerRests DEF BooksInv
<1>4. MoneyInv'
  BY <1>1, <1>3, MoneyRests DEF billing
<1>5. DocsInv'
  BY <1>1, DocsRest DEF billing
<1>6. Papered'
  BY <1>1, <1>2, PapersKept DEF billing, BillingInv
<1>7. PracticeInv'
  BY <1>1, <1>3, PracticeRests DEF practice
<1>8. IntakeInv'
  BY <1>1, IntakeStep
<1> QED  BY <1>2, <1>4, <1>5, <1>6, <1>7, <1>8 DEF FirmInv, BillingInv

LEMMA BillingPart ==
  ASSUME FirmInv, BillingNext, UNCHANGED <<practice, intakeVars>>
  PROVE  FirmInv'
<1>1. BillingInv /\ PracticeInv /\ IntakeInv
  BY DEF FirmInv
<1>2. BillingInv'
  BY <1>1, BillingKept
<1>3. today \in Nat /\ today' \in Days
  BY <1>1, <1>2, LedgerAssumption DEF BillingInv, BooksInv, Days
<1>4. today <= today'
  <2>1. CASE NextDay
    BY <1>3, <2>1 DEF NextDay
  <2>2. CASE ~NextDay
    <3>1. today' = today
      BY <2>2, BillingDay
    <3> QED  BY <1>3, <3>1
  <2> QED  BY <2>1, <2>2
<1>5. PracticeInv'
  BY <1>1, <1>3, <1>4, PracticeAges DEF practice
<1>6. IntakeInv'
  BY <1>1, IntakeStep
<1> QED  BY <1>2, <1>5, <1>6 DEF FirmInv

LEMMA PracticePart ==
  ASSUME FirmInv, PracticeNext, UNCHANGED intakeVars
  PROVE  FirmInv'
<1>1. BillingInv /\ MoneyInv /\ PracticeInv /\ IntakeInv
  BY DEF FirmInv, BillingInv
<1>2. PracticeInv' /\ today' \in Days
  BY <1>1, PracticeStep DEF PracticeInv
<1>3. UNCHANGED <<ledger, billing>>
  BY PracticeLeaves DEF books
<1>4. BooksInv' /\ DocsInv' /\ Papered'
  <2>1. policies' \in Seq(PolicyRows)
    BY <1>1, <1>3 DEF billing, BillingInv, DocsInv
  <2> QED  BY <1>1, <1>2, <1>3, <2>1, BillingRests DEF billing
<1>5. MoneyInv'
  BY <1>1, <1>2, <1>3, MoneyRests DEF billing
<1>6. IntakeInv'
  BY <1>1, IntakeStep
<1> QED  BY <1>2, <1>4, <1>5, <1>6 DEF FirmInv, BillingInv

(* Whatever part of the directory is looked at, its steps are the           *)
(* directory's.                                                             *)
LEMMA DirectoryPartSteps ==
  ASSUME IntakeInv, DirectoryPart
  PROVE  IntakeNext
<1>1. \A k \in DOMAIN contacts : contacts[k].email \in Emails \cup {NoEmail} /\ contacts[k].role \in Roles
  BY IntakeImplies DEF IntakeTypeOK, ClientsTypeOK
<1>2. Leave => ContactNext \/ ClientNext
  BY <1>1 DEF Leave, ContactNext, ClientNext
<1>3. Join => ContactNext
  BY RowsAssumption DEF Join, ContactNext
<1> QED  BY <1>2, <1>3 DEF DirectoryPart, Calm, IntakeNext

LEMMA FirmStep ==
  ASSUME FirmInv, [FirmNext]_firmVars
  PROVE  FirmInv'
<1>1. CASE LedgerNext /\ UNCHANGED <<billing, practice, intakeVars>>
  BY <1>1, LedgerPart
<1>2. CASE BillingNext /\ UNCHANGED <<practice, intakeVars>>
  BY <1>2, BillingPart
<1>3. CASE PracticeNext /\ UNCHANGED intakeVars
  BY <1>3, PracticePart
<1>4. ASSUME [IntakeNext]_intakeVars, UNCHANGED <<today, ledger, billing, practice>>
      PROVE  FirmInv'
  <2>1. BillingInv /\ MoneyInv /\ PracticeInv /\ IntakeInv
    BY DEF FirmInv, BillingInv
  <2>2. IntakeInv'
    BY <1>4, <2>1, IntakeStep
  <2>3. PracticeInv'
    BY <1>4, <2>1, PracticeRests DEF practice
  <2>4. today' \in Days /\ policies' \in Seq(PolicyRows)
    BY <1>4, <2>1 DEF billing, BillingInv, BooksInv, DocsInv
  <2>5. BooksInv' /\ DocsInv' /\ Papered'
    BY <1>4, <2>1, <2>4, BillingRests DEF billing
  <2>6. MoneyInv'
    BY <1>4, <2>1, <2>4, MoneyRests DEF billing
  <2> QED  BY <2>2, <2>3, <2>5, <2>6 DEF FirmInv, BillingInv
<1>5. CASE UNCHANGED firmVars
  BY <1>4, <1>5 DEF firmVars
<1> QED  BY <1>1, <1>2, <1>3, <1>4, <1>5 DEF FirmNext

(* A document and its journal, a reference and its row, an expense and its  *)
(* date stay together while all parts of the firm are at work: each part's  *)
(* commands leave the others' rows as these need them, though the ledger    *)
(* and the day are shared by three of them and the tables of the directory  *)
(* by all that write to it (businessPractice.ts, businessDelivery.ts,       *)
(* business.ts, publicLeadIntake.ts).                                       *)
THEOREM FirmTypes == FirmSpec => []TypeOK
<1>1. FirmInv /\ [FirmNext]_firmVars => FirmInv'
  BY FirmStep
<1>2. FirmInv => TypeOK
  <2> SUFFICES ASSUME FirmInv PROVE TypeOK
    OBVIOUS
  <2>1. LedgerTypeOK /\ BillingTypeOK
    BY BooksImply, BillingImplies DEF FirmInv, BillingInv
  <2>2. PracticeTypeOK /\ IntakeTypeOK
    BY PracticeImplies, IntakeImplies DEF FirmInv
  <2> QED  BY <2>1, <2>2 DEF TypeOK
<1> QED  BY <1>1, <1>2, FirmBegins, PTL DEF FirmSpec

(* In the firm as a whole the directory holds together, money is applied    *)
(* once and a report drawn up again counts the work its snapshot counted.   *)
THEOREM FirmHolds == FirmSpec => [](DirectoryHolds /\ NeverOverAllocated /\ SnapshotsReproduce)
<1>1. FirmInv /\ [FirmNext]_firmVars => FirmInv'
  BY FirmStep
<1>2. FirmInv => DirectoryHolds /\ NeverOverAllocated /\ SnapshotsReproduce
  BY IntakeImplies, PracticeImplies DEF FirmInv, BillingInv, MoneyInv
<1> QED  BY <1>1, <1>2, FirmBegins, PTL DEF FirmSpec

(* And its closed periods stay as they are, and the rates of days that are  *)
(* over, whether the ledger is written by hand, by billing or by both.      *)
THEOREM FirmKeepsItsPast == FirmSpec => ClosedPeriodsAreFinal /\ PastRatesAreFixed
<1>1. FirmInv /\ [FirmNext]_firmVars => FirmInv'
  BY FirmStep
<1>2. FirmInv /\ [FirmNext]_firmVars => [KeepsClosed]_<<periods, journals>>
  <2> SUFFICES ASSUME FirmInv, [FirmNext]_firmVars PROVE [KeepsClosed]_<<periods, journals>>
    OBVIOUS
  <2>1. LedgerInv /\ today \in Days /\ BooksInv
    BY DEF FirmInv, BillingInv, BooksInv
  <2>2. CASE LedgerNext
    <3>1. ExpensesForm
      BY <2>1 DEF BooksInv, ExpenseRows, ExpensesForm, ExpenseForm
    <3> QED  BY <2>1, <2>2, <3>1, LedgerStep
  <2>3. CASE BillingNext
    BY <2>1, <2>3, BillingStep
  <2>4. CASE UNCHANGED <<periods, journals>>
    BY <2>4
  <2>5. PracticeNext => UNCHANGED <<periods, journals>>
    BY PracticeLeaves DEF books, ledger
  <2>6. LedgerNext \/ BillingNext \/ UNCHANGED <<periods, journals>>
    BY <2>5 DEF FirmNext, firmVars, ledger
  <2> QED  BY <2>2, <2>3, <2>4, <2>6
<1>3. FirmInv /\ [FirmNext]_firmVars => [KeepsPast]_<<today, activations>>
  <2> SUFFICES ASSUME FirmInv, [FirmNext]_firmVars PROVE [KeepsPast]_<<today, activations>>
    OBVIOUS
  <2>1. CASE PracticeNext
    BY <2>1, PracticeStep DEF FirmInv
  <2>2. CASE UNCHANGED activations
    BY <2>2 DEF KeepsPast, RateOn, Takes
  <2>3. PracticeNext \/ UNCHANGED activations
    BY DEF FirmNext, firmVars, practice
  <2> QED  BY <2>1, <2>2, <2>3
<1>4. FirmSpec => [][KeepsClosed]_<<periods, journals>>
  BY <1>1, <1>2, FirmBegins, PTL DEF FirmSpec
<1>5. FirmSpec => [][KeepsPast]_<<today, activations>>
  BY <1>1, <1>3, FirmBegins, PTL DEF FirmSpec
<1> QED  BY <1>4, <1>5 DEF ClosedPeriodsAreFinal, PastRatesAreFixed, KeepsClosed, KeepsPast

(* What a report says is billed and collected by a day is final once the    *)
(* periods up to it are closed, in the firm as a whole: whatever is issued, *)
(* received, reversed or credited later is booked, hence dated, in a period *)
(* that is open (payment.record, payment.reverse, credit-note.issue,        *)
(* assertOpenPeriod).                                                       *)
THEOREM SettledFiguresStay == FirmSpec => SettledFiguresAreFinal
<1> DEFINE SettledInv == FirmInv /\ CreditsInv
<1>1. FirmInit => SettledInv
  <2>1. FirmInit => CreditsInv
    BY DEF FirmInit, PracticeInit, BillingInit, LedgerInit, CreditsInv, Numbered
  <2> QED  BY <2>1, FirmBegins
<1>2. SettledInv /\ [FirmNext]_firmVars => SettledInv' /\ KeepsSettled
  <2> SUFFICES ASSUME FirmInv, CreditsInv, [FirmNext]_firmVars PROVE SettledInv' /\ KeepsSettled
    OBVIOUS
  <2>1. FirmInv' /\ BillingInv /\ BillingInv'
    BY FirmStep DEF FirmInv
  <2>2. IsFiniteSet(DOMAIN journals')
    BY <2>1 DEF BillingInv, BooksInv
  <2>3. CASE BillingNext
    BY <2>1, <2>3, SettledStep
  <2>4. CASE LedgerNext /\ UNCHANGED billing
    BY <2>1, <2>2, <2>4, LedgerGrows, CreditsRest, SettledRests DEF billing
  <2>5. CASE UNCHANGED <<ledger, billing>>
    BY <2>1, <2>2, <2>5, CreditsRest, SettledRests DEF billing, ledger, JournalsGrow
  <2>6. PracticeNext => UNCHANGED <<ledger, billing>>
    BY PracticeLeaves DEF books
  <2> QED  BY <2>3, <2>4, <2>5, <2>6 DEF FirmNext, firmVars
<1>3. FirmSpec => [][KeepsSettled]_<<periods, billing>>
  BY <1>1, <1>2, PTL DEF FirmSpec
<1> QED  BY <1>3 DEF SettledFiguresAreFinal, KeepsSettled, SettledBy

(* The parts of the firm that are explored one at a time are parts of it:   *)
(* what the firm never does as a whole, none of them does.                  *)
THEOREM PartsAreOfTheFirm == Spec => FirmSpec
<1>1. Init => FirmInit
  BY DEF Init, FirmInit
<1>2. FirmInv /\ [Next]_vars => [FirmNext]_firmVars
  <2>1. FirmInv /\ DirectoryPart => IntakeNext
    BY DirectoryPartSteps DEF FirmInv
  <2> QED  BY <2>1 DEF Next, vars, FirmNext, firmVars
<1>3. FirmInv /\ [Next]_vars => FirmInv'
  BY <1>2, FirmStep
<1> QED  BY <1>1, <1>2, <1>3, FirmBegins, PTL DEF Spec, FirmSpec
================================================================================
