-------------------------------- MODULE Billing --------------------------------
(***************************************************************************)
(* The invoices, receipts and revenue of one engagement                    *)
(* (worker/businessDelivery.ts, worker/businessPractice.ts and the commits *)
(* of worker/businessOutbox.ts) over the firm's ledger.                    *)
(*                                                                         *)
(* The engagement is at ADVANCE_BILLING: its letter is issued and its      *)
(* advance invoice waits for its document.  The other commands of the      *)
(* engagement do not touch what is modelled here; "PLANNING" stands for    *)
(* PORTAL_ACTIVE_PLANNING and every later state.                           *)
(***************************************************************************)
EXTENDS Ledger, Sequences

CONSTANTS
  Cashiers,       (* the actors that bill and receive                      *)
  Payments,       (* verified receipts                                     *)
  Fee,            (* the fee of the accepted proposal                      *)
  TaxBasisPoints  (* of the pinned tax policy                              *)

ASSUME BillingAssumption ==
  /\ Cashiers \subseteq Actors
  /\ Fee \in Nat \ {0} /\ TaxBasisPoints \in Nat
  /\ IsFiniteSet(Payments)

VARIABLES
  lifecycle,      (* of the engagement                                     *)
  invoices,       (* status and issue date, by kind                        *)
  payments,       (* payments, the reversal of each, and their vouchers    *)
  allocations,    (* payment_allocations of original payments              *)
  returns,        (* payment_allocation_reversals: amount by day           *)
  credits,        (* firm_credit_notes: amount by day                      *)
  policies        (* firm_revenue_policies, oldest first                   *)

billing == <<lifecycle, invoices, payments, allocations, returns, credits, policies>>

----
Kinds == {"ADVANCE", "FINAL"}
Methods == {"DEFER_UNTIL_EARNED", "APPROVED_MILESTONE"}

AdvanceFee == (Fee + 1) \div 2
Subtotal(i) == IF i = "ADVANCE" THEN AdvanceFee ELSE Fee - AdvanceFee
Tax(i) == (Subtotal(i) * TaxBasisPoints + 5000) \div 10000
Total(i) == Subtotal(i) + Tax(i)

Issued(i) == invoices[i].status = "ISSUED"
Original(p) == payments[p].status = "VERIFIED"
IsReversed(p) == payments[p].reversedOn # 0
Alloc(p, i) == allocations[p][i].amount

(* The net allocations of an invoice as the database and payment.record     *)
(* count them: neither returned allocations nor credit notes.               *)
Allocated(i) == SumFunction([p \in Payments |-> IF IsReversed(p) THEN 0 ELSE Alloc(p, i)])
AllocatedOf(p) == SumFunction([i \in Kinds |-> Alloc(p, i)])

Until(byDay, d) == SumFunction([e \in 1..d |-> byDay[e]])
ReturnedOf(p) == SumFunction([i \in Kinds |-> Until(returns[p][i], LastDay)])

(* What the aging report of a day counts as paid, and as outstanding.       *)
PaidOn(i, d) ==
  LET counted == {p \in Payments :
        Alloc(p, i) > 0 /\ allocations[p][i].date <= d /\ payments[p].date <= d}
  IN SumFunction([p \in counted |-> Alloc(p, i) - Until(returns[p][i], d)
       - (IF IsReversed(p) /\ payments[p].reversedOn <= d THEN Alloc(p, i) ELSE 0)])
Outstanding(i, d) == Total(i) - PaidOn(i, d) - Until(credits[i], d)
IssuedBy(i, d) == Issued(i) /\ invoices[i].date <= d

(* The report fails as a whole when any invoice is overpaid.                *)
Ages(d) == \A i \in Kinds : IssuedBy(i, d) => Outstanding(i, d) >= 0

----
(* Mutant: the guard looks at the payment alone. *)
PaymentScopeGuard(p, i, n, amount, ofPayment) == Issued(i) /\ ofPayment + n <= amount

(* payment_allocations_scope_guard: of one invoice and of one payment.      *)
ScopeGuard(p, i, n, amount, ofPayment) ==
  /\ Issued(i)
  /\ ofPayment + n <= amount
  /\ Allocated(i) + n <= Total(i)

InvoiceLines(i) ==
  Plus(Line("AR", Total(i)), Plus(Line("LIABILITY", -Subtotal(i)), Line("VAT", -Tax(i))))

IssueInvoice(i, actor) ==
  /\ Book(<<"invoice", i>>, today, actor, InvoiceLines(i), NoKey)
  /\ invoices' = [invoices EXCEPT ![i] = [status |-> "ISSUED", date |-> today]]

(* The commit of the advance invoice's document, by the outbox.             *)
AdvanceDocument(actor) ==
  /\ invoices["ADVANCE"].status = "PENDING_DOCUMENT"
  /\ IssueInvoice("ADVANCE", actor)
  /\ UNCHANGED <<today, periods, expenses, lifecycle, payments, allocations, returns, credits, policies>>

(* The final invoice is issued by the release of the report.                *)
FinalInvoice(actor) ==
  /\ lifecycle = "PLANNING"
  /\ invoices["FINAL"].status = "ABSENT"
  /\ Subtotal("FINAL") > 0
  /\ IssueInvoice("FINAL", actor)
  /\ UNCHANGED <<today, periods, expenses, lifecycle, payments, allocations, returns, credits, policies>>

PaymentLines(n, shares) ==
  LET allocated == SumFunction(shares)
  IN Plus(Line("BANK", n), Plus(Line("AR", -allocated), Line("UNALLOCATED", allocated - n)))

(* Mutant: the receipt is booked on the day it is recorded. *)
PaymentBookedToday(actor, p, n, d, shares) ==
  /\ payments[p].status = "ABSENT"
  /\ d <= today
  /\ \E i \in Kinds : Issued(i)
  /\ SumFunction(shares) <= n
  /\ \A i \in Kinds : shares[i] > 0 => ScopeGuard(p, i, shares[i], n, 0)
  /\ Book(<<"payment", p>>, today, actor, PaymentLines(n, shares), NoKey)
  /\ payments' = [payments EXCEPT ![p] =
       [@ EXCEPT !.status = "VERIFIED", !.amount = n, !.date = d, !.voucher = "PENDING"]]
  /\ allocations' = [allocations EXCEPT ![p] =
       [i \in Kinds |-> IF shares[i] > 0 THEN [amount |-> shares[i], date |-> d] ELSE @[i]]]
  /\ UNCHANGED <<today, periods, expenses, lifecycle, invoices, returns, credits, policies>>

PaymentRecord(actor, p, n, d, shares) ==
  /\ payments[p].status = "ABSENT"
  /\ d <= today
  /\ \E i \in Kinds : Issued(i)
  /\ SumFunction(shares) <= n
  /\ \A i \in Kinds : shares[i] > 0 => ScopeGuard(p, i, shares[i], n, 0)
  /\ Book(<<"payment", p>>, d, actor, PaymentLines(n, shares), NoKey)
  /\ payments' = [payments EXCEPT ![p] =
       [@ EXCEPT !.status = "VERIFIED", !.amount = n, !.date = d, !.voucher = "PENDING"]]
  /\ allocations' = [allocations EXCEPT ![p] =
       [i \in Kinds |-> IF shares[i] > 0 THEN [amount |-> shares[i], date |-> d] ELSE @[i]]]
  /\ UNCHANGED <<today, periods, expenses, lifecycle, invoices, returns, credits, policies>>

(* A reversal repeats every allocation of the payment, and the journal of   *)
(* the payment alone with its sides exchanged; unlike ledger.reverse it     *)
(* does not ask whether that journal has been reversed.                     *)
PaymentReverse(actor, p) ==
  /\ Original(p)
  /\ payments[p].voucher = "ISSUED"
  /\ ~IsReversed(p)
  /\ Booked(<<"payment", p>>)
  /\ \A i \in Kinds : Alloc(p, i) <= Allocated(i)
  /\ Book(<<"reversal", p>>, today, actor, Minus(journals[<<"payment", p>>].net), <<"payment", p>>)
  /\ payments' = [payments EXCEPT ![p].reversedOn = today, ![p].reversalVoucher = "PENDING"]
  /\ UNCHANGED <<today, periods, expenses, lifecycle, invoices, allocations, returns, credits, policies>>

----
(* The vouchers of the allocations of an invoice, of a payment and of its   *)
(* reversal, other than the one being committed.                            *)
VouchersReady(i, p, which) ==
  \A q \in Payments : Alloc(q, i) > 0 =>
    /\ payments[q].voucher = "ISSUED" \/ (q = p /\ which = "voucher")
    /\ IsReversed(q) => payments[q].reversalVoucher = "ISSUED" \/ (q = p /\ which = "reversalVoucher")

Settled == Issued("ADVANCE") /\ Allocated("ADVANCE") = Total("ADVANCE")

(* The commit of a receipt's document; it opens the portal once the advance *)
(* is settled.                                                              *)
ReceiptDocument(p, which) ==
  /\ payments[p][which] = "PENDING"
  /\ payments' = [payments EXCEPT ![p][which] = "ISSUED"]
  /\ lifecycle' = IF Settled /\ VouchersReady("ADVANCE", p, which) THEN "PLANNING" ELSE lifecycle
  /\ UNCHANGED <<today, ledger, invoices, allocations, returns, credits, policies>>

PaymentAllocate(actor, p, i, n, d) ==
  /\ Original(p) /\ ~IsReversed(p)
  /\ payments[p].date <= d
  /\ AllocatedOf(p) - ReturnedOf(p) + n <= payments[p].amount
  /\ IssuedBy(i, d)
  /\ Ages(d) /\ n <= Outstanding(i, d)
  /\ Alloc(p, i) = 0
  /\ ScopeGuard(p, i, n, payments[p].amount, AllocatedOf(p))
  /\ Book(<<"allocation", p, i, d, n>>, d, actor, Transfer("UNALLOCATED", "AR", n), NoKey)
  /\ allocations' = [allocations EXCEPT ![p][i] = [amount |-> n, date |-> d]]
  /\ UNCHANGED <<today, periods, expenses, lifecycle, invoices, payments, returns, credits, policies>>

(* An allocation may be returned whether or not its payment was reversed.   *)
AllocationReverse(actor, p, i, n, d) ==
  /\ Cardinality(Corrections) < MaxCorrections
  /\ Alloc(p, i) > 0
  /\ allocations[p][i].date <= d
  /\ Until(returns[p][i], LastDay) + n <= Alloc(p, i)
  /\ Book(<<"return", p, i, Cardinality(Corrections)>>, d, actor, Transfer("AR", "UNALLOCATED", n), NoKey)
  /\ returns' = [returns EXCEPT ![p][i][d] = @ + n]
  /\ UNCHANGED <<today, periods, expenses, lifecycle, invoices, payments, allocations, credits, policies>>

RoundHalfUp(n, m) == (2 * n + m) \div (2 * m)
CreditLines(i, n, d) ==
  LET tax == RoundHalfUp(n * Tax(i), Total(i))
      liability == -BalanceOn("LIABILITY", d)
      deferred == Max({0, Min({liability, n - tax})})
  IN Plus(Plus(Line("LIABILITY", deferred), Line("REVENUE", n - tax - deferred)),
          Plus(Line("VAT", tax), Line("AR", -n)))

CreditNote(actor, i, n, d) ==
  /\ Cardinality(Corrections) < MaxCorrections
  /\ IssuedBy(i, d)
  /\ Ages(d) /\ n <= Outstanding(i, d)
  /\ Book(<<"credit", i, Cardinality(Corrections)>>, d, actor, CreditLines(i, n, d), NoKey)
  /\ credits' = [credits EXCEPT ![i][d] = @ + n]
  /\ UNCHANGED <<today, periods, expenses, lifecycle, invoices, payments, allocations, returns, policies>>

----
RevenuePolicySave(method, from) ==
  /\ Cardinality(Corrections) + Len(policies) <= MaxCorrections
  /\ policies[Len(policies)].from < from
  /\ policies' = Append(policies, [method |-> method, from |-> from])
  /\ UNCHANGED <<today, ledger, lifecycle, invoices, payments, allocations, returns, credits>>

(* Recognitions are named by their journals, one to each (the database      *)
(* refuses a second recognition of a journal that exists).                  *)
Recognized == SumFunction([k \in {key \in PostedKeys : key[1] = "revenue"} |-> k[3]])

RevenueRecognize(actor, policy, n, d) ==
  /\ policy.from <= d
  /\ Recognized + n <= Fee
  /\ policy.method = "DEFER_UNTIL_EARNED" => n <= -BalanceOn("LIABILITY", d)
  /\ ~Booked(<<"revenue", d, n>>)
  /\ Book(<<"revenue", d, n>>, d, actor, Transfer("LIABILITY", "REVENUE", n), NoKey)
  /\ UNCHANGED <<today, periods, expenses, lifecycle, invoices, payments, allocations, returns, credits, policies>>

NextDay == today < LastDay /\ today' = today + 1 /\ UNCHANGED <<ledger, billing>>

----
NoPayment == [status |-> "ABSENT", amount |-> 0, date |-> 0, reversedOn |-> 0,
              voucher |-> "NONE", reversalVoucher |-> "NONE"]

BillingInit ==
  /\ LedgerInit
  /\ lifecycle = "ADVANCE_BILLING"
  /\ invoices = [i \in Kinds |-> [status |-> IF i = "ADVANCE" THEN "PENDING_DOCUMENT" ELSE "ABSENT", date |-> 0]]
  /\ payments = [p \in Payments |-> NoPayment]
  /\ allocations = [p \in Payments |-> [i \in Kinds |-> [amount |-> 0, date |-> 0]]]
  /\ returns = [p \in Payments |-> [i \in Kinds |-> [d \in Days |-> 0]]]
  /\ credits = [i \in Kinds |-> [d \in Days |-> 0]]
  /\ policies = <<[method |-> "DEFER_UNTIL_EARNED", from |-> 0]>>

(* Meanwhile periods are opened and closed, and journals reversed.          *)
BillingNext ==
  \/ \E first, last \in Days : PeriodOpen(first, last) /\ UNCHANGED billing
  \/ \E p \in periods : PeriodClose(p) /\ UNCHANGED billing
  \/ \E actor \in Actors, key \in DOMAIN journals : JournalReverse(actor, key, LastDay) /\ UNCHANGED billing
  \/ NextDay
  \/ \E actor \in Cashiers :
       \/ AdvanceDocument(actor)
       \/ FinalInvoice(actor)
       \/ \E p \in Payments, n \in Amounts, d \in Days, shares \in [Kinds -> 0..Fee] :
            PaymentRecord(actor, p, n, d, shares)
       \/ \E p \in Payments : PaymentReverse(actor, p)
       \/ \E p \in Payments, i \in Kinds, n \in Amounts, d \in Days :
            PaymentAllocate(actor, p, i, n, d) \/ AllocationReverse(actor, p, i, n, d)
       \/ \E i \in Kinds, n \in Amounts, d \in Days : CreditNote(actor, i, n, d)
       \/ \E k \in DOMAIN policies, n \in Amounts, d \in Days : RevenueRecognize(actor, policies[k], n, d)
  \/ \E p \in Payments, which \in {"voucher", "reversalVoucher"} : ReceiptDocument(p, which)
  \/ \E method \in Methods, from \in Days : RevenuePolicySave(method, from)

BillingSpec == BillingInit /\ [][BillingNext]_<<today, ledger, billing>>

----
BillingTypeOK ==
  /\ LedgerTypeOK
  /\ lifecycle \in {"ADVANCE_BILLING", "PLANNING"}
  /\ \A i \in Kinds : invoices[i].status \in {"ABSENT", "PENDING_DOCUMENT", "ISSUED"} /\ (Issued(i) <=> Booked(<<"invoice", i>>))
  /\ \A p \in Payments : (Original(p) <=> Booked(<<"payment", p>>)) /\ (IsReversed(p) <=> Booked(<<"reversal", p>>))
  /\ \A p \in Payments, i \in Kinds : Until(returns[p][i], LastDay) <= Alloc(p, i)
  /\ policies \in Seq([method : Methods, from : 0..LastDay])

(* Property: money is applied once.  No payment is allocated beyond its amount and no  *)
(* invoice beyond its total, though the commands compare with balances of   *)
(* the day they are dated, which allocations dated later do not reduce.     *)
NeverOverAllocated ==
  /\ \A i \in Kinds : Allocated(i) \in 0..Total(i)
  /\ \A p \in Payments : AllocatedOf(p) <= payments[p].amount
================================================================================
