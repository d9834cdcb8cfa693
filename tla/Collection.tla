------------------------------ MODULE Collection ------------------------------
(***************************************************************************)
(* How an invoice collects money: its life from draft to paid or void, the *)
(* card flow (a Stripe PaymentIntent, confirmed by the customer on         *)
(* Stripe's side, reported by webhook), the PayPal flow (an order,         *)
(* captured by the customer's return, sometimes held for review and polled *)
(* daily), payments an admin records by hand, and the daily sweep that     *)
(* marks invoices overdue.                                                 *)
(*                                                                         *)
(* Every handler below that reads an invoice before changing it runs       *)
(* under SELECT ... FOR UPDATE on that row from its first read to its      *)
(* commit, so it is one action.  The sweep takes no lock: it is two.       *)
(***************************************************************************)
EXTENDS LedgerState

CONSTANTS
    TaxOutcomes,        \* \subseteq BOOLEAN: may automatic tax ask for review?
    MaxCommitFailures   \* bound on commits lost after a provider call

ASSUME CollectionConstants ==
    TaxOutcomes \subseteq BOOLEAN /\ MaxCommitFailures \in Nat

VARIABLES
    intent,     \* external: Stripe's PaymentIntents
    order,      \* external: PayPal's orders
    sweep,      \* invoices mark_overdue_invoices has read as "sent"
    lost        \* commits that failed after the provider had acted

collectionVars == <<intent, order, sweep, lost>>

IntentRow == [status: {"absent", "live", "canceled", "succeeded"},
              invoice: Invoices \cup {None}, amount: Nat]
OrderStatus == {"absent", "open", "held", "completed", "declined"}
\* reply is what PayPal answered the first capture of the order.  heard is
\* history: a capture through the route of the order's own invoice has been
\* answered, read and committed.
OrderRow == [status: OrderStatus, reply: OrderStatus, heard: BOOLEAN,
             invoice: Invoices \cup {None}, amount: Nat]
NoIntent == [status |-> "absent", invoice |-> None, amount |-> 0]
NoOrder == [status |-> "absent", reply |-> "absent", heard |-> FALSE,
            invoice |-> None, amount |-> 0]

CollectionTypeOK ==
    /\ intent \in [Intents -> IntentRow]
    /\ order \in [Orders -> OrderRow]
    /\ sweep \subseteq Invoices
    /\ lost \in 0..MaxCommitFailures

CollectionInit ==
    /\ intent = [n \in Intents |-> NoIntent]
    /\ order = [o \in Orders |-> NoOrder]
    /\ sweep = {}
    /\ lost = 0

Captured(o) == order[o].status \in {"held", "completed", "declined"}

-----------------------------------------------------------------------------
(***************************************************************************)
(* The invoice's own life (admin routes).                                  *)
(***************************************************************************)

CreateInvoice(i) ==
    /\ invoice[i].status = "absent"
    /\ \E t \in Totals, unresolved \in TaxOutcomes :
           invoice' = [invoice EXCEPT ![i] = [NoInvoice EXCEPT
                           !.status = "draft", !.total = t, !.review = unresolved]]
    /\ UNCHANGED <<payment, inbox, collectionVars>>

\* Sending freezes the lines, so unresolved tax must be acknowledged.
SendInvoice(i, acknowledged) ==
    /\ invoice[i].status = "draft"
    /\ invoice[i].review => acknowledged
    /\ invoice' = [invoice EXCEPT ![i].status = "sent"]
    /\ UNCHANGED <<payment, inbox, collectionVars>>

VoidInvoice(i) ==
    /\ Payable(i)
    /\ invoice' = [invoice EXCEPT ![i].status = "void"]
    /\ UNCHANGED <<payment, inbox, collectionVars>>

RecordManualPayment(i, m, a) ==
    /\ payment[m].status = "absent"
    /\ Payable(i)
    /\ ~HasPendingPayment(i)
    /\ payment' = [payment EXCEPT ![m] =
                       [status |-> "succeeded", invoice |-> i, amount |-> a]]
    /\ invoice' = [invoice EXCEPT ![i] =
                       Settled(@, PaidSoFar(i, payment', refund))]
    /\ UNCHANGED <<inbox, collectionVars>>

(***************************************************************************)
(* mark_overdue_invoices: a plain SELECT of the sent invoices that are     *)
(* past due, then, whatever has been committed meanwhile, an UPDATE of     *)
(* each of those rows by its id.                                           *)
(***************************************************************************)
SweepRead(due) ==
    /\ sweep = {}
    /\ due # {} /\ \A i \in due : invoice[i].status = "sent"
    /\ sweep' = due
    /\ UNCHANGED <<invoice, payment, inbox, intent, order, lost>>

SweepWrite ==
    /\ sweep # {}
    /\ invoice' = [i \in Invoices |-> IF i \in sweep
                                      THEN [invoice[i] EXCEPT !.status = "overdue"]
                                      ELSE invoice[i]]
    /\ sweep' = {}
    /\ UNCHANGED <<payment, inbox, intent, order, lost>>

-----------------------------------------------------------------------------
(***************************************************************************)
(* Card payments.                                                          *)
(***************************************************************************)

\* What both online routes require before they talk to a provider.
MayStartPayment(i) ==
    /\ Payable(i)
    /\ ~HasPendingPayment(i)
    /\ AmountDue(i) > 0

\* The status of the intent the invoice holds; "absent" when it holds none.
IntentStatus(i) ==
    IF invoice[i].intent = None THEN "absent" ELSE intent[invoice[i].intent].status

\* Mutant: the stale intent is replaced but never canceled.
LeavesStaleIntentLive(i) == intent

\* The intents once the stale one, if any, has been canceled.
StaleIntentCanceled(i) ==
    IF IntentStatus(i) = "live"
    THEN [intent EXCEPT ![invoice[i].intent].status = "canceled"]
    ELSE intent

\* A new intent is needed unless a live one for the same amount can be
\* resumed; one that already collected is refused.
NeedsNewIntent(i) ==
    \/ IntentStatus(i) \in {"absent", "canceled"}
    \/ /\ IntentStatus(i) = "live"
       /\ intent[invoice[i].intent].amount # Charge(AmountDue(i))

\* POST /{id}/pay.  Resuming a live intent changes nothing.  The response,
\* and with it the client secret, leaves before get_db commits: the commit
\* may still fail, and the customer then holds an intent no row mentions.
PayInvoice(i, n) ==
    /\ MayStartPayment(i)
    /\ NeedsNewIntent(i)
    /\ intent[n].status = "absent"
    /\ Charge(AmountDue(i)) \in Nat \ {0}
    /\ intent' = [StaleIntentCanceled(i) EXCEPT ![n] =
                     [status |-> "live", invoice |-> i, amount |-> Charge(AmountDue(i))]]
    /\ \/ /\ invoice' = [invoice EXCEPT ![i].intent = n]
          /\ UNCHANGED lost
       \/ /\ lost < MaxCommitFailures
          /\ lost' = lost + 1
          /\ UNCHANGED invoice
    /\ UNCHANGED <<payment, inbox, order, sweep>>

\* The stale intent was canceled, then creating its successor failed (503).
PayInvoiceCreateFails(i) ==
    /\ MayStartPayment(i)
    /\ NeedsNewIntent(i)
    /\ IntentStatus(i) = "live"
    /\ intent' = StaleIntentCanceled(i)
    /\ UNCHANGED <<ledgerVars, order, sweep, lost>>

\* External: the customer confirms the card on Stripe's side, at any time.
ConfirmIntent(n) ==
    /\ intent[n].status = "live"
    /\ intent' = [intent EXCEPT ![n].status = "succeeded"]
    /\ inbox' = inbox \cup {<<"payment_intent.succeeded", n>>}
    /\ UNCHANGED <<invoice, payment, order, sweep, lost>>

\* External: the card is declined; the intent may be tried again.
DeclineIntent(n) ==
    /\ intent[n].status = "live"
    /\ inbox' = inbox \cup {<<"payment_intent.payment_failed", n>>}
    /\ UNCHANGED <<invoice, payment, intent, order, sweep, lost>>

-----------------------------------------------------------------------------
(***************************************************************************)
(* The webhook for payment_intent.* events: at least once, in any order.   *)
(***************************************************************************)

\* Mutant: the event is matched with invoices that still wait for money.
OpenInvoiceOf(n) == {i \in Invoices : invoice[i].intent = n /\ Payable(i)}

InvoiceOf(n) == {i \in Invoices : invoice[i].intent = n}

UnmatchedIntentEvent(n, kind) ==
    /\ <<kind, n>> \in inbox
    /\ InvoiceOf(n) = {}
    /\ Acked(<<kind, n>>)
    /\ UNCHANGED <<invoice, payment, collectionVars>>

\* The invoice after a card success: flag a race with a held PayPal
\* capture, settle, flag money beyond the total.
AfterCardSuccess(i, P) ==
    LET paid == PaidSoFar(i, P, refund)
    IN  FlaggedIf(FlaggedIf(Settled(invoice[i], paid), HasPendingPayment(i)),
                  paid > invoice[i].total)

PaymentIntentSucceeded(n) ==
    /\ <<"payment_intent.succeeded", n>> \in inbox
    /\ \E i \in InvoiceOf(n) :
           /\ payment' = [payment EXCEPT ![n] =
                  IF @.status = "absent"
                  THEN [status |-> "succeeded", invoice |-> i, amount |-> intent[n].amount]
                  ELSE [@ EXCEPT !.status = "succeeded"]]
           /\ invoice' = [invoice EXCEPT ![i] = AfterCardSuccess(i, payment')]
    /\ Acked(<<"payment_intent.succeeded", n>>)
    /\ UNCHANGED collectionVars

\* Mutant: a late payment_failed overwrites whatever the row says.
AnyRowMayFail(row) == TRUE

\* A succeeded row ignores a late payment_failed; any other is overwritten.
MayFail(row) == row.status # "succeeded"

PaymentIntentFailed(n) ==
    /\ <<"payment_intent.payment_failed", n>> \in inbox
    /\ \E i \in InvoiceOf(n) :
           payment' = [payment EXCEPT ![n] =
                  IF @.status = "absent"
                  THEN [status |-> "failed", invoice |-> i, amount |-> intent[n].amount]
                  ELSE IF MayFail(@) THEN [@ EXCEPT !.status = "failed"] ELSE @]
    /\ Acked(<<"payment_intent.payment_failed", n>>)
    /\ UNCHANGED <<invoice, collectionVars>>

-----------------------------------------------------------------------------
(***************************************************************************)
(* PayPal payments.                                                        *)
(***************************************************************************)

\* POST /{id}/pay/paypal.  Nothing is stored: the order is PayPal's.
PayInvoiceViaPaypal(i, o) ==
    /\ MayStartPayment(i)
    /\ IntentStatus(i) \in {"absent", "canceled"}
    /\ order[o].status = "absent"
    /\ Charge(AmountDue(i)) \in Nat \ {0}
    /\ order' = [order EXCEPT ![o] =
                    [status |-> "open", reply |-> "absent", heard |-> FALSE,
                     invoice |-> i, amount |-> Charge(AmountDue(i))]]
    /\ UNCHANGED <<ledgerVars, intent, sweep, lost>>

\* Mutant: only the order being captured is looked up, not the invoice's
\* other payments.
CapturesBesidePending(i, o) ==
    payment[o].invoice = i => payment[o].status \in {"partially_refunded", "refunded"}

\* The route's early answers: a recorded order is answered from its row, a
\* new one waits until no other payment is under review.
MayCapture(i, o) ==
    \/ payment[o].invoice = i /\ payment[o].status \in {"partially_refunded", "refunded"}
    \/ payment[o].invoice # i /\ ~HasPendingPayment(i)

\* What PayPal answers: a first capture completes, is held for review or is
\* declined; a repeated one gets the first answer again (same idempotency
\* key) or the order's current state (ORDER_ALREADY_CAPTURED).
CaptureOutcome(o) ==
    IF Captured(o) THEN {order[o].reply, order[o].status}
                   ELSE {"completed", "held", "declined"}

\* Mutant: the captured amount is not compared with the amount due.
AcceptsAnyAmount(i, o) == FALSE

OrderMismatchesDue(i, o) == AmountDue(i) <= 0 \/ order[o].amount # AmountDue(i)

\* Mutant: a held capture is credited at once.
CreditsHeldCaptures(outcome) == "succeeded"

\* Mutant: PayPal's own word goes into the row.
RecordsRawStatus(outcome) == outcome

\* The status of the row a capture inserts.
CaptureStatus(outcome) == IF outcome = "held" THEN "pending" ELSE "succeeded"

\* Mutant: a capture that no longer matches what is due is discarded.
DiscardsMismatch(i, o, outcome) ==
    /\ outcome # "declined" /\ order[o].invoice = i /\ payment[o].status = "absent"
    /\ ~OrderMismatchesDue(i, o)

\* Mutant: the order id the client sent is not checked.
TrustsOrderId(i, o, outcome) == outcome # "declined" /\ payment[o].status = "absent"

\* A capture is recorded if the order is this invoice's, money moved and
\* the unique index on the order admits the row.
IsRecorded(i, o, outcome) ==
    outcome # "declined" /\ order[o].invoice = i /\ payment[o].status = "absent"

\* The row a capture inserts, and what it does to the invoice.
RecordCapture(i, o, outcome) ==
    /\ payment' = [payment EXCEPT ![o] =
           [status |-> CaptureStatus(outcome), invoice |-> i, amount |-> order[o].amount]]
    /\ invoice' = IF outcome = "held" THEN invoice
                  ELSE [invoice EXCEPT ![i] =
                          Settled(FlaggedIf(@, OrderMismatchesDue(i, o)),
                                  PaidSoFar(i, payment', refund))]
    /\ UNCHANGED lost

\* The order once PayPal has answered the capture, whether the answer is
\* heard or not: only a first capture moves it.
AfterCapture(o, outcome, heard) ==
    LET row == IF Captured(o) THEN order[o]
               ELSE [order[o] EXCEPT !.status = outcome, !.reply = outcome]
    IN  [order EXCEPT ![o] = [row EXCEPT !.heard = @ \/ heard]]

\* POST /{id}/pay/paypal/capture.  PayPal acts first.  Its answer is lost,
\* late, unreadable or in another currency, and the route fails; or it is
\* recorded, if it is to be, and the commit goes through or fails.
CaptureInvoicePaypalPayment(i, o) ==
    /\ MayCapture(i, o)
    /\ Payable(i)
    /\ order[o].status # "absent"
    /\ \E outcome \in CaptureOutcome(o) :
         \/ /\ order' = AfterCapture(o, outcome, order[o].invoice = i)
            /\ \/ IsRecorded(i, o, outcome) /\ RecordCapture(i, o, outcome)
               \/ ~IsRecorded(i, o, outcome) /\ UNCHANGED <<invoice, payment, lost>>
         \/ /\ order' = AfterCapture(o, outcome, FALSE)
            /\ \/ UNCHANGED lost
               \/ /\ IsRecorded(i, o, outcome)
                  /\ lost < MaxCommitFailures
                  /\ lost' = lost + 1
            /\ UNCHANGED <<invoice, payment>>
    /\ UNCHANGED <<inbox, intent, sweep>>

\* External: PayPal finishes its review of a held capture.
ReviewEnds(o) ==
    /\ order[o].status = "held"
    /\ \E outcome \in {"completed", "declined"} :
           order' = [order EXCEPT ![o].status = outcome]
    /\ UNCHANGED <<ledgerVars, intent, sweep, lost>>

\* The invoice after a held capture completed: flag an overpayment, settle.
AfterReconciledCapture(i, P) ==
    LET paid == PaidSoFar(i, P, refund)
    IN  Settled(FlaggedIf(invoice[i], paid > invoice[i].total), paid)

\* Mutant: a capture PayPal declined is polled again and again.
KeepsPolling(o) == FALSE

\* PayPal gave up the capture: the money never arrived.
NeverArrived(o) == order[o].status = "declined"

\* One payment of reconcile_pending_paypal_captures.
ReconcilePaypalCapture(o) ==
    /\ payment[o].status = "pending"
    /\ \/ /\ NeverArrived(o)
          /\ payment' = [payment EXCEPT ![o].status = "failed"]
          /\ UNCHANGED invoice
       \/ /\ order[o].status = "completed"
          /\ payment' = [payment EXCEPT ![o].status = "succeeded"]
          /\ \E i \in {payment[o].invoice} :
                 invoice' = [invoice EXCEPT ![i] = AfterReconciledCapture(i, payment')]
    /\ UNCHANGED <<inbox, collectionVars>>

-----------------------------------------------------------------------------
CollectionNext ==
    \/ \E i \in Invoices :
          \/ CreateInvoice(i) \/ VoidInvoice(i)
          \/ \E acknowledged \in BOOLEAN : SendInvoice(i, acknowledged)
          \/ \E m \in ManualPayments, a \in Amounts : RecordManualPayment(i, m, a)
          \/ \E n \in Intents : PayInvoice(i, n)
          \/ PayInvoiceCreateFails(i)
          \/ \E o \in Orders : PayInvoiceViaPaypal(i, o) \/ CaptureInvoicePaypalPayment(i, o)
    \/ \E due \in SUBSET Invoices : SweepRead(due)
    \/ SweepWrite
    \/ \E n \in Intents :
          \/ ConfirmIntent(n) \/ DeclineIntent(n)
          \/ PaymentIntentSucceeded(n) \/ PaymentIntentFailed(n)
          \/ \E kind \in {"payment_intent.succeeded", "payment_intent.payment_failed"} :
                UnmatchedIntentEvent(n, kind)
    \/ \E o \in Orders : ReviewEnds(o) \/ ReconcilePaypalCapture(o)

=============================================================================
