----------------------------- MODULE InvoiceLedger -----------------------------
(***************************************************************************)
(* The invoice ledger: collection and refunds over the same rows.          *)
(***************************************************************************)
EXTENDS Collection, Refunding

vars == <<ledgerVars, collectionVars, refundingVars>>

Init == LedgerInit /\ CollectionInit /\ RefundingInit

Next ==
    \/ CollectionNext /\ UNCHANGED <<refund, refundingVars>>
    \/ RefundingNext /\ UNCHANGED collectionVars

Spec == Init /\ [][Next]_vars

(***************************************************************************)
(* Fairness.  Stripe delivers an event until it is answered; the scheduler *)
(* polls PayPal every day; PayPal ends its reviews and resolves its        *)
(* refunds; a transaction that has started ends.  Nobody is obliged to     *)
(* pay, to send, to refund or to retry.                                    *)
(***************************************************************************)
Fairness ==
    /\ \A n \in Intents :
          WF_vars(PaymentIntentSucceeded(n) /\ UNCHANGED <<refund, refundingVars>>)
    /\ \A o \in Orders :
          /\ WF_vars(ReviewEnds(o) /\ UNCHANGED <<refund, refundingVars>>)
          /\ WF_vars(ReconcilePaypalCapture(o) /\ UNCHANGED <<refund, refundingVars>>)
    /\ \A r \in RefundIds :
          /\ WF_vars(RefundResolves(r) /\ UNCHANGED collectionVars)
          /\ WF_vars(SettleFailed(r) /\ UNCHANGED collectionVars)
          /\ WF_vars(SettlementSums(r) /\ UNCHANGED collectionVars)
          /\ SF_vars(SettlementCommits(r) /\ UNCHANGED collectionVars)

FairSpec == Spec /\ Fairness

-----------------------------------------------------------------------------
(* Type correctness of every row and of every request in flight. *)
TypeOK == LedgerTypeOK /\ CollectionTypeOK /\ RefundingTypeOK

(***************************************************************************)
(* Safety.                                                                 *)
(***************************************************************************)

Collected == {"succeeded", "partially_refunded", "refunded"}

(* As long as no commit failed after Stripe acted, an intent the customer  *)
(* can still confirm, or has confirmed, is the one its invoice holds: no   *)
(* invoice can be charged through two intents, and no success webhook is   *)
(* dropped for want of a matching invoice (pay_invoice cancels before it   *)
(* replaces, and refuses to replace what has collected).                   *)
ChargeableIntentIsHeld ==
    lost = 0 =>
        \A n \in Intents : intent[n].status \in {"live", "succeeded"} =>
            invoice[intent[n].invoice].intent = n

(* A payment row that counts as received is backed by money the provider   *)
(* collected for that very invoice and amount, whatever the order in which *)
(* webhooks, captures, polls, refunds and retries arrived.                 *)
RecordedPaymentsAreBacked ==
    /\ \A n \in Intents : payment[n].status \in Collected =>
          /\ intent[n].status = "succeeded"
          /\ payment[n].invoice = intent[n].invoice
          /\ payment[n].amount = intent[n].amount
    /\ \A o \in Orders : payment[o].status \in Collected =>
          /\ order[o].status = "completed"
          /\ payment[o].invoice = order[o].invoice
          /\ payment[o].amount = order[o].amount

(* Money PayPal has captured, or holds under review, has a row once one    *)
(* capture through the route of its own invoice was answered and           *)
(* committed: whatever had become of the amount due by then, that call is  *)
(* not the one that drops it.  (Until then it may have none: PayPal's      *)
(* answer may be lost or come too late, the commit may fail, or the order  *)
(* may have been captured through the route of another invoice.)           *)
CapturedMoneyIsRecorded ==
    \A o \in Orders :
        order[o].status \in {"held", "completed"} /\ order[o].heard
        => payment[o].status # "absent"

(* At most one payment of an invoice is under PayPal's review: otherwise   *)
(* has_pending_payment's scalar_one_or_none would raise and no route of    *)
(* that invoice would answer again until both are resolved.                *)
AtMostOnePending ==
    \A i \in Invoices : Cardinality({p \in PaymentIds :
        payment[p].invoice = i /\ payment[p].status = "pending"}) <= 1

(* Before any refund, a paid invoice is covered by what was received: no   *)
(* late or repeated event, poll or sweep takes the cover away again.       *)
PaidIsCovered ==
    (\A r \in RefundIds : refund[r].status = "absent") =>
        \A i \in Invoices : invoice[i].status = "paid" =>
            PaidSoFar(i, payment, refund) >= invoice[i].total

\* What the refunds of p gave back: a provider moves whole minor units.
GivenBack(p) ==
    SumFunctionOnSet(
        [r \in RefundIds |-> IF IsProviderPayment(p) THEN Charge(refund[r].amount)
                                                     ELSE refund[r].amount],
        {r \in RefundIds : refund[r].payment = p /\ refund[r].status = "succeeded"})

(* The refunds of a payment that went through never give back more than    *)
(* it brought: neither two admins, nor a retry, nor a late settlement      *)
(* does.  (With the pending ones counted as well the bound can be passed   *)
(* for a while: one the provider has given up may still be on the books.)  *)
NoOverRefund ==
    \A p \in PaymentIds : GivenBack(p) <= payment[p].amount

(* "A provider-backed over-refund can only happen if the provider itself   *)
(* allowed it" (the comment in _record_refund): a payment's refunds add up *)
(* to more than it brought only when the provider gave back more.          *)
OverRefundIsTheProviders ==
    \A p \in PaymentIds :
        IsProviderPayment(p) /\ RefundedSoFar(p, refund) > payment[p].amount =>
            ProviderRefunded(p) > payment[p].amount

(* A refund recorded as succeeded at a provider is one the provider made,  *)
(* for the recorded amount.                                                *)
RecordedRefundsAreBacked ==
    \A r \in RefundIds :
        refund[r].status = "succeeded" /\ IsProviderPayment(refund[r].payment) =>
            /\ moved[r].status = "succeeded"
            /\ moved[r].amount = Charge(refund[r].amount)

(* "partially_refunded" and "refunded" are driven by the refund rows of    *)
(* the payment: less than its amount, or at least its amount               *)
(* (db/models/invoices.py's comment on payments.status).                   *)
RefundStatusAgrees ==
    \A p \in PaymentIds :
        /\ payment[p].status = "refunded" =>
               RefundedSoFar(p, refund) >= payment[p].amount
        /\ payment[p].status = "partially_refunded" =>
               RefundedSoFar(p, refund) \in 1..(payment[p].amount - 1)
        /\ payment[p].status = "succeeded" => RefundedSoFar(p, refund) = 0

(* An invoice is shown as refunded only when at least its total was given  *)
(* back over its payments.                                                 *)
RefundedInvoiceGaveBackTotal ==
    \A i \in Invoices : invoice[i].status = "refunded" =>
        RefundedOnInvoice(i, payment, refund) >= invoice[i].total

-----------------------------------------------------------------------------
(***************************************************************************)
(* Action properties.                                                      *)
(***************************************************************************)

\* The step credits the invoice i with a payment a provider collected.
ProviderCredits(i) ==
    \E p \in PaymentIds :
        /\ IsProviderPayment(p) /\ payment'[p].invoice = i
        /\ payment[p].status # "succeeded" /\ payment'[p].status = "succeeded"

(* Money a provider collected that takes the invoice beyond its total      *)
(* raises the durable needs_review flag in the same transaction, whichever *)
(* path records it.                                                        *)
OverCollectionIsFlagged ==
    [][\A i \in Invoices :
          ProviderCredits(i) /\ PaidSoFar(i, payment', refund') > invoice[i].total
          => invoice'[i].review]_vars

(* Once received money is credited, no event about its collection takes    *)
(* the credit away: only refunds do.  A payment leaves "succeeded" towards *)
(* a refunded status only.                                                 *)
CreditOnlyLostByRefund ==
    [][\A p \in PaymentIds :
          payment[p].status = "succeeded" =>
              payment'[p].status \in Collected]_vars

-----------------------------------------------------------------------------
(***************************************************************************)
(* Refinement.  Money counts as taken from the moment its row is credited, *)
(* and stays taken whatever a late event writes over a refunded row.       *)
(***************************************************************************)

Received(p) == payment[p].status \in Collected \/ RefundedSoFar(p, refund) > 0

AtProvider(p) ==
    IF p \in Intents /\ intent[p].status = "succeeded" THEN intent[p].amount
    ELSE IF p \in Orders /\ order[p].status = "completed" THEN order[p].amount
    ELSE 0

Billed == [i \in Invoices |-> invoice[i].total]
Charged == [p \in PaymentIds |-> AtProvider(p)]
Credit == [p \in PaymentIds |-> IF Received(p) THEN payment[p].amount ELSE 0]
CreditedTo == [p \in PaymentIds |-> IF Received(p) THEN {payment[p].invoice} ELSE {}]
Repaid == [p \in PaymentIds |-> RefundedSoFar(p, refund)]
EverPaid == {i \in Invoices : invoice[i].paidAt # "unset"}
Moneys == UNION {0..t : t \in Totals \cup Amounts}

AbstractTill == INSTANCE Till WITH
    Bills <- Invoices,
    Payments <- PaymentIds,
    ByHand <- ManualPayments,
    Sums <- Moneys,
    total <- Billed,
    collected <- Charged,
    taken <- Credit,
    toward <- CreditedTo,
    returned <- Repaid,
    settled <- EverPaid

(* Every webhook, capture, poll, refund and retry is one step of the till, *)
(* or none: nothing is taken twice, taken without being collected, given   *)
(* back beyond what was taken, or settled without being covered.           *)
ImplementsTill == AbstractTill!TillSpec

-----------------------------------------------------------------------------
(***************************************************************************)
(* Liveness.                                                               *)
(***************************************************************************)

(* A card success is eventually on the ledger, if no commit was lost.      *)
CardMoneyIsRecorded ==
    \A n \in Intents :
        (intent[n].status = "succeeded" /\ lost = 0) ~>
            (Received(n) \/ lost > 0)

(* A capture under review ends: the invoice does not stay blocked.         *)
ReviewedCaptureSettles ==
    \A o \in Orders : (payment[o].status = "pending") ~> (payment[o].status # "pending")

(* A refund recorded as pending eventually settles.                        *)
PendingRefundSettles ==
    \A r \in RefundIds : (refund[r].status = "pending") ~> (refund[r].status # "pending")

=============================================================================
