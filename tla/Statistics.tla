------------------------------ MODULE Statistics ------------------------------
(***************************************************************************)
(* The figures of the admin's statistics page, computed from the ledger's  *)
(* rows at every call.  Soft-deleted invoices are left out of all of them; *)
(* nothing in the ledger deletes one.  A dispute lives in columns of its   *)
(* own that the ledger never reads, so `disputed`, the payments whose      *)
(* dispute was lost, may be any set of card payments.                      *)
(***************************************************************************)
EXTENDS InvoiceLedger

\* Mutant: a refunded payment is taken not to have been collected.
StillCredited == {p \in PaymentIds : payment[p].status \in Collected \ {"refunded"}}

\* The population of total_collected and by_payment_method: gross money.
CollectedPayments == {p \in PaymentIds : payment[p].status \in Collected}

Gross == [p \in PaymentIds |-> payment[p].amount]

TotalCollected == SumFunctionOnSet(Gross, CollectedPayments)

TotalRefunded ==
    SumFunctionOnSet([r \in RefundIds |-> refund[r].amount],
                     {r \in RefundIds : refund[r].status = "succeeded"})

Crediting == {"succeeded", "partially_refunded"}

\* What Stripe took back and no refund has given back already.
LostToDisputes(disputed) ==
    SumFunctionOnSet(NotRefunded(payment, refund), CollectedPayments \cap disputed)

NetCollected(disputed) == TotalCollected - TotalRefunded - LostToDisputes(disputed)

\* Payments entered by hand are one group here, whatever method was named.
ByPaymentMethod ==
    LET total(ids) == SumFunctionOnSet(Gross, CollectedPayments \cap ids)
    IN  [stripe |-> total(Intents), paypal |-> total(Orders), manual |-> total(ManualPayments)]

\* Bulk form of get_amount_due: the payments are summed per invoice first.
Outstanding ==
    LET paidBy(i) == SumFunctionOnSet(NotRefunded(payment, refund),
                        {p \in PaymentIds : /\ payment[p].invoice = i
                                            /\ payment[p].status \in Crediting})
        owed == [i \in Invoices |->
                    IF paidBy(i) > invoice[i].total THEN 0 ELSE invoice[i].total - paidBy(i)]
    IN  SumFunctionOnSet(owed, {i \in Invoices : invoice[i].status \in {"sent", "overdue"}})

-----------------------------------------------------------------------------
(* Refunds reached money that was received, and did not exceed it.  Two    *)
(* things break this: a late payment_failed that strikes out a payment     *)
(* refunded in part, and refunds booked with fractions of a minor unit.    *)
RefundsMatchReceipts ==
    \A p \in PaymentIds :
        RefundedSoFar(p, refund) <= IF payment[p].status \in Collected
                                    THEN payment[p].amount ELSE 0

(* net_collected is "what the business actually kept": however payments,   *)
(* refunds and disputes overlap, it is what get_paid_so_far still credits, *)
(* invoice by invoice, without the payments lost to a dispute, as long as  *)
(* refunds match receipts.  total_collected matches by_payment_method, and *)
(* outstanding is what get_amount_due asks for over all open invoices.     *)
NetIsWhatWasKept ==
    /\ LET by == ByPaymentMethod
       IN  by["stripe"] + by["paypal"] + by["manual"] = TotalCollected
    /\ Outstanding = SumFunctionOnSet([i \in Invoices |-> AmountDue(i)],
                                      {i \in Invoices : Payable(i)})
    /\ RefundsMatchReceipts =>
       /\ NetCollected({}) = SumFunctionOnSet(
              [i \in Invoices |-> PaidSoFar(i, payment, refund)], Invoices)
       /\ \A disputed \in SUBSET Intents :
              NetCollected(disputed) = SumFunctionOnSet(NotRefunded(payment, refund),
                  {p \in PaymentIds \ disputed : payment[p].status \in Crediting})

=============================================================================
