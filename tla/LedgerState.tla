----------------------------- MODULE LedgerState -----------------------------
(***************************************************************************)
(* The rows of the invoicing tables that Postgres holds (invoices,         *)
(* payments, refunds), the webhook events Stripe has emitted, and the      *)
(* arithmetic every handler shares: what was paid, what is owed, what is   *)
(* reserved by refunds, and when an invoice settles.                       *)
(*                                                                         *)
(* Amounts are integers counted in the smallest step Numeric(14,3) can     *)
(* hold; one minor unit of the currency (a cent) is MinorUnit such steps.  *)
(* Totals are whole minor units, recompute_amount_total quantizes every    *)
(* line; an amount an admin enters is stored as it came.                   *)
(* A payment row is named by the column whose unique index protects it:    *)
(* the Stripe intent, the PayPal order, or (manual) its own id.            *)
(***************************************************************************)
EXTENDS Integers, FiniteSets, Functions

CONSTANTS
    Invoices,        \* invoice ids
    ManualPayments,  \* ids of payments an admin records by hand
    Intents,         \* Stripe PaymentIntent ids
    Orders,          \* PayPal order ids
    RefundIds,       \* client_request_id of a logical refund action
    Amounts,         \* amounts an admin may enter
    Totals,          \* totals the line items of an invoice may add up to
    MinorUnit,       \* steps of Numeric(14,3) in one minor unit
    None             \* SQL NULL

PaymentIds == ManualPayments \cup Intents \cup Orders

ASSUME LedgerConstants ==
    /\ IsFiniteSet(Invoices) /\ IsFiniteSet(PaymentIds) /\ IsFiniteSet(RefundIds)
    /\ Amounts \subseteq Nat \ {0}
    /\ MinorUnit \in Nat \ {0}
    /\ \A t \in Totals : t \in Nat /\ t % MinorUnit = 0
    /\ None \notin Invoices \cup PaymentIds \cup RefundIds
    /\ ManualPayments \cap Intents = {}
    /\ ManualPayments \cap Orders = {}
    /\ Intents \cap Orders = {}

VARIABLES
    invoice,   \* [Invoices -> InvoiceRow]
    payment,   \* [PaymentIds -> PaymentRow]
    refund,    \* [RefundIds -> RefundRow]
    inbox      \* webhook events Stripe has emitted and may still deliver

ledgerVars == <<invoice, payment, refund, inbox>>

(***************************************************************************)
(* Rows.  "absent" is the row that has not been inserted yet.  paidAt only *)
(* tells whether paid_at holds the first settlement or a later one.        *)
(***************************************************************************)
InvoiceStatus == {"absent", "draft", "sent", "overdue", "paid", "void", "refunded"}
PaymentStatus == {"absent", "pending", "succeeded", "failed",
                  "partially_refunded", "refunded"}
RefundStatus == {"absent", "pending", "succeeded", "failed"}

InvoiceRow == [status: InvoiceStatus, total: Nat, intent: Intents \cup {None},
               paidAt: {"unset", "first", "later"}, review: BOOLEAN]
PaymentRow == [status: PaymentStatus, invoice: Invoices \cup {None}, amount: Nat]
RefundRow == [status: RefundStatus, payment: PaymentIds \cup {None}, amount: Nat]

NoInvoice == [status |-> "absent", total |-> 0, intent |-> None,
              paidAt |-> "unset", review |-> FALSE]
NoPayment == [status |-> "absent", invoice |-> None, amount |-> 0]
NoRefund == [status |-> "absent", payment |-> None, amount |-> 0]

Events == ({"payment_intent.succeeded", "payment_intent.payment_failed"} \X Intents)
            \cup ({"charge.refund.updated"} \X RefundIds)

LedgerTypeOK ==
    /\ invoice \in [Invoices -> InvoiceRow]
    /\ payment \in [PaymentIds -> PaymentRow]
    /\ refund \in [RefundIds -> RefundRow]
    /\ inbox \subseteq Events
    /\ \A p \in PaymentIds : payment[p].status # "absent" =>
           payment[p].amount > 0 /\ payment[p].invoice \in Invoices
    /\ \A r \in RefundIds : refund[r].status # "absent" =>
           refund[r].amount > 0 /\ refund[r].payment \in PaymentIds

LedgerInit ==
    /\ invoice = [i \in Invoices |-> NoInvoice]
    /\ payment = [p \in PaymentIds |-> NoPayment]
    /\ refund = [r \in RefundIds |-> NoRefund]
    /\ inbox = {}

\* A handler answers 200: Stripe stops retrying the event, or has already
\* queued another delivery of it.
Acked(e) == inbox' = inbox \/ inbox' = inbox \ {e}

-----------------------------------------------------------------------------
(***************************************************************************)
(* Arithmetic over rows.  P and R are the payments and the refunds as the  *)
(* transaction that asks sees them.                                        *)
(***************************************************************************)

\* Round half up to a whole number of minor units.
Charge(a) == MinorUnit * ((2 * a + MinorUnit) \div (2 * MinorUnit))

RefundTotal(p, R, statuses) ==
    SumFunctionOnSet([r \in RefundIds |-> R[r].amount],
        {r \in RefundIds : R[r].payment = p /\ R[r].status \in statuses})

RefundedSoFar(p, R) == RefundTotal(p, R, {"succeeded"})

ReservedSoFar(p, R) == RefundTotal(p, R, {"succeeded", "pending"})

\* What a payment still brings, once what was refunded of it is taken off.
NotRefunded(P, R) == [p \in PaymentIds |-> P[p].amount - RefundedSoFar(p, R)]

PaidSoFar(i, P, R) ==
    SumFunctionOnSet(NotRefunded(P, R),
        {p \in PaymentIds : /\ P[p].invoice = i
                            /\ P[p].status \in {"succeeded", "partially_refunded"}})

RefundedOnInvoice(i, P, R) ==
    SumFunctionOnSet([r \in RefundIds |-> R[r].amount],
        {r \in RefundIds : /\ R[r].status = "succeeded"
                           /\ R[r].payment \in PaymentIds
                           /\ P[R[r].payment].invoice = i})

\* The amount never goes below zero: an overpaid invoice owes nothing.
AmountDue(i) ==
    LET due == invoice[i].total - PaidSoFar(i, payment, refund)
    IN  IF due > 0 THEN due ELSE 0

HasPendingPayment(i) ==
    \E p \in PaymentIds : payment[p].invoice = i /\ payment[p].status = "pending"

Payable(i) == invoice[i].status \in {"sent", "overdue"}

\* settle_invoice_if_paid on the row the handler holds locked.
Settled(row, paid) ==
    IF row.status # "paid" /\ paid >= row.total
    THEN [row EXCEPT !.status = "paid",
                     !.paidAt = IF @ = "unset" THEN "first" ELSE "later"]
    ELSE row

\* flag_invoice_needs_review, for a reason that may hold or not.
FlaggedIf(row, reason) == [row EXCEPT !.review = @ \/ reason]

\* Mutant: pending refunds are summed as well.
SumsPendingRefunds(p, P, R) ==
    IF ReservedSoFar(p, R) >= P[p].amount THEN "refunded" ELSE "partially_refunded"

\* The payment's status once its refunds have been summed.
RefundedStatus(p, P, R) ==
    IF RefundedSoFar(p, R) >= P[p].amount THEN "refunded" ELSE "partially_refunded"

=============================================================================
