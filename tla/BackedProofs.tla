----------------------------- MODULE BackedProofs -----------------------------
(***************************************************************************)
(* Credits are backed: a payment row that counts as received stands for    *)
(* money the provider collected for that invoice and amount, and only a    *)
(* refund takes the credit away again.                                     *)
(*                                                                         *)
(* RecordedPaymentsAreBacked is not inductive.  A failed or pending row    *)
(* may become a success later, so every row must match its intent or       *)
(* order; a success is written because an event or PayPal's first answer   *)
(* says so, so these must be backed too; and a refund writes a collected   *)
(* status over the payment it was asked for, possibly long after it read   *)
(* the row, so what requests and refunds are about must have been          *)
(* collected for good.  Provided(p) is final at both providers: that makes *)
(* it all stable.                                                          *)
(***************************************************************************)
EXTENDS InvoiceLedgerProofs

\* The provider has collected the money of p; a manual payment has none.
Provided(p) ==
    /\ p \in Intents => intent[p].status = "succeeded"
    /\ p \in Orders => order[p].status = "completed"

\* The row of p carries the invoice and the amount of its intent or order.
Matches(p) ==
    /\ p \in Intents => /\ intent[p].status # "absent"
                        /\ payment[p].invoice = intent[p].invoice
                        /\ payment[p].amount = intent[p].amount
    /\ p \in Orders => /\ order[p].status # "absent"
                       /\ payment[p].invoice = order[p].invoice
                       /\ payment[p].amount = order[p].amount

Backed ==
    /\ \A p \in PaymentIds : payment[p].status # "absent" => Matches(p)
    /\ \A p \in PaymentIds : payment[p].status \in Collected => Provided(p)
    /\ \A n \in Intents : <<"payment_intent.succeeded", n>> \in inbox =>
           intent[n].status = "succeeded"
    /\ \A o \in Orders : Captured(o) => order[o].reply \in {"held", "completed", "declined"}
    /\ \A o \in Orders : order[o].reply = "completed" => order[o].status = "completed"
    /\ \A q \in Requests : req[q].step # "idle" => Provided(ask[req[q].id].payment)
    /\ \A r \in RefundIds : refund[r].status # "absent" => Provided(refund[r].payment)

-----------------------------------------------------------------------------
(***************************************************************************)
(* What a step may do.                                                     *)
(***************************************************************************)

\* Providers never take back what they did, nor change what it was for.
ProvidersGrow ==
    /\ \A n \in Intents : intent[n].status # "absent" =>
          /\ intent'[n].status # "absent"
          /\ intent'[n].invoice = intent[n].invoice
          /\ intent'[n].amount = intent[n].amount
          /\ intent[n].status = "succeeded" => intent'[n].status = "succeeded"
    /\ \A o \in Orders : order[o].status # "absent" =>
          /\ order'[o].status # "absent"
          /\ order'[o].invoice = order[o].invoice
          /\ order'[o].amount = order[o].amount
          /\ order[o].status = "completed" => order'[o].status = "completed"

AnswersMove ==
    /\ \A n \in Intents : <<"payment_intent.succeeded", n>> \in inbox' =>
           <<"payment_intent.succeeded", n>> \in inbox \/ intent'[n].status = "succeeded"
    /\ \A o \in Orders :
           \/ order'[o] = order[o]
           \/ /\ Captured(o)' => order'[o].reply \in {"held", "completed", "declined"}
              /\ order'[o].reply = "completed" => order'[o].status = "completed"

CreditsMove ==
    \A p \in PaymentIds :
        \/ payment'[p] = payment[p]
        \/ /\ Matches(p)'
           /\ payment'[p].status \in Collected => Provided(p)'
           /\ payment[p].status = "succeeded" => payment'[p].status \in Collected

RefundsProvided ==
    /\ \A q \in Requests : req'[q].step # "idle" => Provided(ask'[req'[q].id].payment)
    /\ \A r \in RefundIds : refund'[r].status # "absent" => Provided(refund'[r].payment)

\* Money a provider has collected stays collected.
LEMMA ProvidedIsFinal == ASSUME ProvidersGrow, NEW p, Provided(p) PROVE Provided(p)'
  BY DEF ProvidersGrow, Provided

\* A step in which providers only grow, answers only report what was
\* collected, credits are only written with the money behind them, and refunds
\* only concern collected payments keeps Backed.
LEMMA StepKeepsBacked ==
    ASSUME IInv, Backed, ProvidersGrow, AnswersMove, CreditsMove, RefundsProvided
    PROVE  Backed'
<1>1. ASSUME NEW p \in PaymentIds, payment'[p].status # "absent" PROVE Matches(p)'
  <2>1. CASE payment'[p] = payment[p]
    <3>1. Matches(p)
      BY <1>1, <2>1 DEF Backed
    <3> QED BY <2>1, <3>1 DEF Matches, ProvidersGrow
  <2> QED BY <2>1 DEF CreditsMove
<1>2. ASSUME NEW p \in PaymentIds, payment'[p].status \in Collected PROVE Provided(p)'
  <2>1. CASE payment'[p] = payment[p]
    BY <1>2, <2>1, ProvidedIsFinal DEF Backed
  <2> QED BY <1>2, <2>1 DEF CreditsMove
<1>3. ASSUME NEW n \in Intents, <<"payment_intent.succeeded", n>> \in inbox'
      PROVE  intent'[n].status = "succeeded"
  BY <1>3 DEF AnswersMove, Backed, ProvidersGrow
<1>4. ASSUME NEW o \in Orders
      PROVE  /\ Captured(o)' => order'[o].reply \in {"held", "completed", "declined"}
             /\ order'[o].reply = "completed" => order'[o].status = "completed"
  BY DEF AnswersMove, Backed, Captured
<1>5. ASSUME NEW q \in Requests, req'[q].step # "idle"
      PROVE  Provided(ask[req[q].id].payment)'
  <2> DEFINE p == ask'[req'[q].id].payment
  <2>1. Provided(p)
    BY <1>5 DEF RefundsProvided
  <2>2. /\ p \in Intents => intent'[p].status = "succeeded"
        /\ p \in Orders => order'[p].status = "completed"
    BY <2>1 DEF Provided, ProvidersGrow
  <2> QED BY <2>2 DEF Provided
<1>6. ASSUME NEW r \in RefundIds, refund'[r].status # "absent"
      PROVE  Provided(refund[r].payment)'
  <2> DEFINE p == refund'[r].payment
  <2>1. Provided(p)
    BY <1>6 DEF RefundsProvided
  <2>2. /\ p \in Intents => intent'[p].status = "succeeded"
        /\ p \in Orders => order'[p].status = "completed"
    BY <2>1 DEF Provided, ProvidersGrow
  <2> QED BY <2>2 DEF Provided
<1> QED BY <1>1, <1>2, <1>3, <1>4, <1>5, <1>6 DEF Backed

\* Tables that do not change satisfy these conditions.
LEMMA UnchangedIsBacked ==
    ASSUME Backed
    PROVE  /\ UNCHANGED <<intent, order>> => ProvidersGrow
           /\ UNCHANGED <<inbox, order>> => AnswersMove
           /\ UNCHANGED payment => CreditsMove
           /\ UNCHANGED <<ask, req, refund>> => RefundsProvided
<1>1. UNCHANGED <<intent, order>> => ProvidersGrow
  BY DEF ProvidersGrow
<1>2. UNCHANGED <<inbox, order>> => AnswersMove
  BY DEF AnswersMove
<1>3. UNCHANGED payment => CreditsMove
  BY DEF CreditsMove
<1>4. UNCHANGED <<ask, req, refund>> => RefundsProvided
  BY DEF RefundsProvided, Backed
<1> QED BY <1>1, <1>2, <1>3, <1>4

-----------------------------------------------------------------------------
\* The empty tables are backed.
THEOREM InitBacked == Init => Backed
  BY LedgerConstants
  DEF Init, LedgerInit, CollectionInit, RefundingInit, Backed, Matches, Provided, Collected,
      Captured, NoPayment, NoIntent, NoOrder, NoRefund, NoAsk, Idle, PaymentIds

(***************************************************************************)
(* The actions of Collection.                                              *)
(***************************************************************************)
\* Every action of Collection keeps Backed and moves credits only towards
\* refunded statuses.
LEMMA CollectionKeepsBacked ==
    ASSUME IInv, Backed, CollectionNext, UNCHANGED <<refund, refundingVars>>
    PROVE  Backed' /\ CreditsMove /\ ProvidersGrow
<1> USE LedgerConstants
<1>a. ASSUME ProvidersGrow, AnswersMove, CreditsMove PROVE Backed' /\ CreditsMove /\ ProvidersGrow
  BY <1>a, StepKeepsBacked, UnchangedIsBacked DEF refundingVars
<1>b. /\ intent \in [Intents -> IntentRow] /\ order \in [Orders -> OrderRow]
      /\ payment \in [PaymentIds -> PaymentRow] /\ invoice \in [Invoices -> InvoiceRow]
  BY DEF IInv, TypeOK, LedgerTypeOK, CollectionTypeOK
<1>c. ASSUME UNCHANGED <<payment, inbox, intent, order>> PROVE Backed' /\ CreditsMove /\ ProvidersGrow
  BY <1>a, <1>c, UnchangedIsBacked
<1>d. ASSUME NEW i \in Invoices,
             \/ CreateInvoice(i) \/ VoidInvoice(i)
             \/ \E acknowledged \in BOOLEAN : SendInvoice(i, acknowledged)
      PROVE  UNCHANGED <<payment, inbox, intent, order>>
  BY <1>d DEF CreateInvoice, VoidInvoice, SendInvoice, collectionVars
<1>1. ASSUME NEW i \in Invoices,
             \/ CreateInvoice(i) \/ VoidInvoice(i)
             \/ \E acknowledged \in BOOLEAN : SendInvoice(i, acknowledged)
      PROVE  Backed' /\ CreditsMove /\ ProvidersGrow
  BY <1>1, <1>c, <1>d
<1>2. ASSUME NEW i \in Invoices, NEW m \in ManualPayments, NEW a \in Amounts,
             RecordManualPayment(i, m, a)
      PROVE  Backed' /\ CreditsMove /\ ProvidersGrow
  <2>1. m \in PaymentIds /\ m \notin Intents /\ m \notin Orders
    BY DEF PaymentIds
  <2>2. CreditsMove
    BY <1>2, <1>b, <2>1 DEF RecordManualPayment, CreditsMove, Matches, Provided
  <2> QED
    BY <1>2, <1>a, <2>2, UnchangedIsBacked DEF RecordManualPayment, collectionVars
<1>3. ASSUME SweepWrite \/ \E due \in SUBSET Invoices : SweepRead(due)
      PROVE  Backed' /\ CreditsMove /\ ProvidersGrow
  BY <1>3, <1>c DEF SweepRead, SweepWrite
<1>4. ASSUME NEW i \in Invoices
      PROVE  \A n \in Intents :
                /\ StaleIntentCanceled(i)[n].status = "absent" <=> intent[n].status = "absent"
                /\ intent[n].status = "succeeded" => StaleIntentCanceled(i)[n].status = "succeeded"
                /\ StaleIntentCanceled(i)[n].invoice = intent[n].invoice
                /\ StaleIntentCanceled(i)[n].amount = intent[n].amount
  BY <1>b DEF StaleIntentCanceled, IntentStatus, IntentRow, InvoiceRow
<1>5. ASSUME NEW i \in Invoices, NEW n \in Intents, PayInvoice(i, n) PROVE Backed' /\ CreditsMove /\ ProvidersGrow
  <2>1. PICK row : intent' = [StaleIntentCanceled(i) EXCEPT ![n] = row]
    BY <1>5 DEF PayInvoice
  <2>2. intent[n].status = "absent" /\ StaleIntentCanceled(i) \in [Intents -> IntentRow]
    BY <1>5, <1>b DEF PayInvoice, StaleIntentCanceled, IntentStatus, IntentRow, InvoiceRow
  <2>3. ProvidersGrow
    BY <1>4, <1>5, <2>1, <2>2 DEF PayInvoice, ProvidersGrow
  <2> QED
    BY <1>5, <1>a, <2>3, UnchangedIsBacked DEF PayInvoice
<1>6. ASSUME NEW i \in Invoices, PayInvoiceCreateFails(i) PROVE Backed' /\ CreditsMove /\ ProvidersGrow
  <2>1. ProvidersGrow
    BY <1>4, <1>6 DEF PayInvoiceCreateFails, ProvidersGrow
  <2> QED
    BY <1>6, <1>a, <2>1, UnchangedIsBacked DEF PayInvoiceCreateFails, ledgerVars
<1>7. ASSUME NEW i \in Invoices, NEW o \in Orders, PayInvoiceViaPaypal(i, o)
      PROVE  Backed' /\ CreditsMove /\ ProvidersGrow
  <2>1. ProvidersGrow
    BY <1>7, <1>b DEF PayInvoiceViaPaypal, ProvidersGrow
  <2>2. AnswersMove
    BY <1>7, <1>b DEF PayInvoiceViaPaypal, AnswersMove, Captured, ledgerVars
  <2> QED
    BY <1>7, <1>a, <2>1, <2>2, UnchangedIsBacked DEF PayInvoiceViaPaypal, ledgerVars
<1>8. ASSUME NEW n \in Intents, ConfirmIntent(n) PROVE Backed' /\ CreditsMove /\ ProvidersGrow
  <2>1. ProvidersGrow
    BY <1>8, <1>b DEF ConfirmIntent, ProvidersGrow, IntentRow
  <2>2. AnswersMove
    BY <1>8, <1>b DEF ConfirmIntent, AnswersMove, IntentRow
  <2> QED
    BY <1>8, <1>a, <2>1, <2>2, UnchangedIsBacked DEF ConfirmIntent
<1>9. ASSUME NEW n \in Intents, DeclineIntent(n) PROVE Backed' /\ CreditsMove /\ ProvidersGrow
  <2>1. AnswersMove
    BY <1>9 DEF DeclineIntent, AnswersMove
  <2> QED
    BY <1>9, <1>a, <2>1, UnchangedIsBacked DEF DeclineIntent
<1>10. ASSUME NEW e, Acked(e), UNCHANGED order PROVE AnswersMove
  BY <1>10 DEF Acked, AnswersMove
<1>11. ASSUME NEW n \in Intents, NEW kind, UnmatchedIntentEvent(n, kind)
       PROVE  Backed' /\ CreditsMove /\ ProvidersGrow
  BY <1>11, <1>10, <1>a, UnchangedIsBacked DEF UnmatchedIntentEvent, collectionVars
<1>12. ASSUME NEW n \in Intents, NEW i \in InvoiceOf(n)
       PROVE  /\ n \in PaymentIds /\ n \notin Orders /\ i \in Invoices
              /\ intent[n].status # "absent" /\ intent[n].invoice = i
  <2>1. i \in Invoices /\ invoice[i].intent = n /\ n # None /\ n \in PaymentIds /\ n \notin Orders
    BY DEF InvoiceOf, PaymentIds
  <2> QED
    BY <2>1 DEF IInv, Linked
<1>13. ASSUME NEW n \in Intents, PaymentIntentSucceeded(n) PROVE Backed' /\ CreditsMove /\ ProvidersGrow
  <2>1. PICK i \in InvoiceOf(n) :
           payment' = [payment EXCEPT ![n] =
                IF @.status = "absent"
                THEN [status |-> "succeeded", invoice |-> i, amount |-> intent[n].amount]
                ELSE [@ EXCEPT !.status = "succeeded"]]
    BY <1>13 DEF PaymentIntentSucceeded
  <2>2. intent[n].status = "succeeded" /\ UNCHANGED <<intent, order>>
    BY <1>13 DEF PaymentIntentSucceeded, Backed, collectionVars
  <2>3. payment'[n].status = "succeeded" /\ Matches(n)'
    <3>1. CASE payment[n].status = "absent"
      BY <1>b, <1>12, <2>1, <2>2, <3>1 DEF Matches
    <3>2. CASE payment[n].status # "absent"
      <4>1. Matches(n) /\ n \in PaymentIds
        BY <1>12, <2>1, <3>2 DEF Backed
      <4>2. payment'[n] = [payment[n] EXCEPT !.status = "succeeded"]
        BY <1>b, <2>1, <3>2, <4>1
      <4>3. /\ payment'[n].status = "succeeded"
            /\ payment'[n].invoice = payment[n].invoice
            /\ payment'[n].amount = payment[n].amount
        BY <1>b, <4>1, <4>2 DEF PaymentRow
      <4> QED BY <1>12, <2>1, <2>2, <4>1, <4>3 DEF Matches
    <3> QED BY <3>1, <3>2
  <2>4. CreditsMove
    BY <1>b, <1>12, <2>1, <2>2, <2>3 DEF CreditsMove, Provided, Collected
  <2> QED
    BY <1>13, <1>10, <1>a, <2>2, <2>4, UnchangedIsBacked DEF PaymentIntentSucceeded
<1>14. ASSUME NEW n \in Intents, PaymentIntentFailed(n) PROVE Backed' /\ CreditsMove /\ ProvidersGrow
  <2>1. PICK i \in InvoiceOf(n) :
           payment' = [payment EXCEPT ![n] =
                IF @.status = "absent"
                THEN [status |-> "failed", invoice |-> i, amount |-> intent[n].amount]
                ELSE IF MayFail(@) THEN [@ EXCEPT !.status = "failed"] ELSE @]
    BY <1>14 DEF PaymentIntentFailed
  <2>2. UNCHANGED <<intent, order>>
    BY <1>14 DEF PaymentIntentFailed, collectionVars
  <2>3. CASE payment[n].status = "absent"
    <3>1. Matches(n)' /\ payment'[n].status = "failed"
      BY <1>b, <1>12, <2>1, <2>2, <2>3 DEF Matches
    <3> QED
      BY <1>14, <1>10, <1>a, <1>b, <1>12, <2>1, <2>2, <2>3, <3>1, UnchangedIsBacked
      DEF PaymentIntentFailed, CreditsMove, Collected
  <2>4. CASE payment[n].status \notin {"absent", "succeeded"}
    <3>1. Matches(n) /\ n \in PaymentIds
      BY <1>12, <2>1, <2>4 DEF Backed
    <3>2. payment'[n] = [payment[n] EXCEPT !.status = "failed"]
      BY <1>b, <2>1, <2>4, <3>1 DEF MayFail
    <3>3. /\ payment'[n].status = "failed"
          /\ payment'[n].invoice = payment[n].invoice
          /\ payment'[n].amount = payment[n].amount
      BY <1>b, <3>1, <3>2 DEF PaymentRow
    <3>4. Matches(n)'
      BY <1>12, <2>1, <2>2, <3>1, <3>3 DEF Matches
    <3>5. CreditsMove
      BY <1>b, <2>1, <2>4, <3>3, <3>4 DEF CreditsMove, Collected
    <3> QED
      BY <1>14, <1>10, <1>a, <2>2, <3>5, UnchangedIsBacked DEF PaymentIntentFailed
  <2>5. CASE payment[n].status = "succeeded"
    <3>1. UNCHANGED payment
      BY <1>b, <2>1, <2>5 DEF MayFail
    <3> QED
      BY <1>14, <1>10, <1>a, <2>2, <3>1, UnchangedIsBacked DEF PaymentIntentFailed
  <2> QED BY <2>3, <2>4, <2>5
<1>15. ASSUME NEW i \in Invoices, NEW o \in Orders, CaptureInvoicePaypalPayment(i, o)
       PROVE  Backed' /\ CreditsMove /\ ProvidersGrow
  <2>1. PICK outcome \in CaptureOutcome(o), heard \in BOOLEAN :
          /\ order' = AfterCapture(o, outcome, heard)
          /\ \/ IsRecorded(i, o, outcome) /\ RecordCapture(i, o, outcome)
             \/ UNCHANGED payment
    BY <1>15 DEF CaptureInvoicePaypalPayment
  <2>2. outcome \in {"held", "completed", "declined"}
    BY <2>1 DEF CaptureOutcome, Backed, Captured
  <2>0. /\ order'[o].status = IF Captured(o) THEN order[o].status ELSE outcome
        /\ order'[o].reply = IF Captured(o) THEN order[o].reply ELSE outcome
        /\ order'[o].invoice = order[o].invoice /\ order'[o].amount = order[o].amount
        /\ \A k \in Orders : k # o => order'[k] = order[k]
    BY <1>b, <2>1, <2>2, CaptureMovesOrder DEF OrderStatus
  <2>3. outcome = "completed" => order'[o].status = "completed"
    BY <2>0, <2>1 DEF CaptureOutcome, Backed
  <2>4. \A k \in Orders : order'[k].invoice = order[k].invoice /\ order'[k].amount = order[k].amount
    BY <2>0
  <2>5. ProvidersGrow
    BY <1>15, <2>0, <2>2 DEF CaptureInvoicePaypalPayment, ProvidersGrow, Captured
  <2>6. AnswersMove
    <3>1. Captured(o) => order[o].reply \in {"held", "completed", "declined"}
                         /\ (order[o].reply = "completed" => order[o].status = "completed")
      BY DEF Backed
    <3> QED BY <1>15, <2>0, <2>2, <3>1 DEF CaptureInvoicePaypalPayment, AnswersMove
  <2>7. ASSUME IsRecorded(i, o, outcome), RecordCapture(i, o, outcome) PROVE CreditsMove
    <3>1. payment' = [payment EXCEPT ![o] =
             [status |-> CaptureStatus(outcome), invoice |-> i, amount |-> order[o].amount]]
      BY <2>7 DEF RecordCapture
    <3>2. /\ o \in PaymentIds /\ o \notin Intents /\ payment[o].status = "absent"
          /\ order[o].invoice = i /\ order[o].status # "absent" /\ outcome # "declined"
      BY <1>15, <2>7 DEF IsRecorded, PaymentIds, CaptureInvoicePaypalPayment
    <3>3. /\ payment'[o].status = CaptureStatus(outcome)
          /\ payment'[o].invoice = i /\ payment'[o].amount = order[o].amount
      BY <1>b, <3>1, <3>2
    <3>4. Matches(o)'
      BY <2>4, <2>5, <3>2, <3>3 DEF Matches, ProvidersGrow
    <3>5. CaptureStatus(outcome) \in Collected => Provided(o)'
      BY <2>2, <2>3, <3>2 DEF CaptureStatus, Collected, Provided
    <3> QED
      BY <1>b, <3>1, <3>2, <3>3, <3>4, <3>5 DEF CreditsMove
  <2> QED
    BY <1>a, <2>1, <2>5, <2>6, <2>7, UnchangedIsBacked
<1>16. ASSUME NEW o \in Orders, ReviewEnds(o) PROVE Backed' /\ CreditsMove /\ ProvidersGrow
  <2>1. PICK outcome \in {"completed", "declined"} : order' = [order EXCEPT ![o].status = outcome]
    BY <1>16 DEF ReviewEnds
  <2>2. /\ order'[o].status = outcome /\ order'[o].reply = order[o].reply
        /\ order'[o].invoice = order[o].invoice /\ order'[o].amount = order[o].amount
        /\ \A k \in Orders \ {o} : order'[k] = order[k]
    BY <1>b, <2>1 DEF OrderRow
  <2>3. ProvidersGrow
    BY <1>16, <2>2 DEF ReviewEnds, ProvidersGrow
  <2>4. AnswersMove
    BY <1>16, <2>2 DEF ReviewEnds, AnswersMove, Backed, Captured, ledgerVars
  <2> QED
    BY <1>16, <1>a, <2>3, <2>4, UnchangedIsBacked DEF ReviewEnds, ledgerVars
<1>17. ASSUME NEW o \in Orders, ReconcilePaypalCapture(o) PROVE Backed' /\ CreditsMove /\ ProvidersGrow
  <2>1. /\ o \in PaymentIds /\ o \notin Intents /\ payment[o].status = "pending"
        /\ UNCHANGED <<intent, order, inbox>>
    BY <1>17 DEF ReconcilePaypalCapture, PaymentIds, collectionVars
  <2>2. PICK s \in {"failed", "succeeded"} :
          /\ payment' = [payment EXCEPT ![o].status = s]
          /\ s = "succeeded" => order[o].status = "completed"
    BY <1>17 DEF ReconcilePaypalCapture
  <2>3. /\ payment'[o].status = s
        /\ payment'[o].invoice = payment[o].invoice /\ payment'[o].amount = payment[o].amount
    BY <1>b, <2>1, <2>2 DEF PaymentRow
  <2>4. Matches(o)
    BY <2>1 DEF Backed
  <2>5. Matches(o)' /\ (s = "succeeded" => Provided(o)')
    BY <2>1, <2>2, <2>3, <2>4 DEF Matches, Provided
  <2>6. CreditsMove
    BY <1>b, <2>1, <2>2, <2>3, <2>5 DEF CreditsMove, Collected
  <2> QED
    BY <1>a, <2>1, <2>6, UnchangedIsBacked
<1> QED
  BY <1>1, <1>2, <1>3, <1>5, <1>6, <1>7, <1>8, <1>9, <1>11, <1>13, <1>14, <1>15, <1>16, <1>17
  DEF CollectionNext

(***************************************************************************)
(* The actions of Refunding.  None touches the providers' charges; a       *)
(* payment is only rewritten from one collected status to another.         *)
(***************************************************************************)

\* A payment the refund was made of gets a refunded status, or keeps its own.
LEMMA RefundWritesCredit ==
    ASSUME IInv, Backed, NEW p \in PaymentIds, payment[p].status # "absent", Provided(p),
           UNCHANGED <<intent, order>>,
           NEW seen, NEW new \in {"partially_refunded", "refunded"},
           payment' = [payment EXCEPT ![p] = Written(@, seen, new)]
    PROVE  CreditsMove
<1>1. payment \in [PaymentIds -> PaymentRow]
  BY DEF IInv, TypeOK, LedgerTypeOK
<1>2. CASE new = seen
  BY <1>1, <1>2 DEF Written, CreditsMove
<1>3. CASE new # seen
  <2>1. payment'[p] = [payment[p] EXCEPT !.status = new]
    BY <1>1, <1>3 DEF Written
  <2>2. /\ payment'[p].status = new
        /\ payment'[p].invoice = payment[p].invoice /\ payment'[p].amount = payment[p].amount
    BY <1>1, <2>1 DEF PaymentRow
  <2>3. Matches(p)
    BY DEF Backed
  <2>4. Matches(p)' /\ Provided(p)'
    BY <2>2, <2>3 DEF Matches, Provided
  <2>5. \A k \in PaymentIds \ {p} : payment'[k] = payment[k]
    BY <1>1
  <2> QED
    BY <2>2, <2>4, <2>5 DEF CreditsMove, Collected
<1> QED BY <1>2, <1>3

\* Requests that end, or only note an answer, ask about the same payments.
LEMMA RequestsKeepAsking ==
    ASSUME IInv, Backed, UNCHANGED <<ask, refund>>, NEW q \in Requests,
           \/ req' = [req EXCEPT ![q] = Idle]
           \/ req[q].step # "idle" /\ Answered(q)
    PROVE  RefundsProvided
<1>1. req \in [Requests -> RequestRow]
  BY DEF IInv, TypeOK, RefundingTypeOK
<1>2. \A k \in Requests : req'[k].step # "idle" => req[k].step # "idle" /\ req'[k].id = req[k].id
  BY <1>1 DEF Answered, Idle, RequestRow
<1> QED
  BY <1>2 DEF RefundsProvided, Backed

\* A refund row is written for a payment the provider has collected.
LEMMA RefundOfProvided ==
    ASSUME IInv, Backed, NEW r \in RefundIds, NEW row, refund' = [refund EXCEPT ![r] = row],
           Provided(row.payment), UNCHANGED ask, NEW q \in Requests,
           UNCHANGED req \/ req' = [req EXCEPT ![q] = Idle]
    PROVE  RefundsProvided
<1>1. req \in [Requests -> RequestRow] /\ refund \in [RefundIds -> RefundRow]
  BY DEF IInv, TypeOK, RefundingTypeOK, LedgerTypeOK
<1>2. \A k \in Requests : req'[k].step # "idle" => req[k].step # "idle" /\ req'[k].id = req[k].id
  BY <1>1 DEF Idle
<1>3. \A k \in RefundIds : refund'[k] = refund[k] \/ refund'[k].payment = row.payment
  BY <1>1
<1> QED
  BY <1>2, <1>3 DEF RefundsProvided, Backed

\* Every action of Refunding keeps Backed and moves credits only towards
\* refunded statuses.
LEMMA RefundingKeepsBacked ==
    ASSUME IInv, Backed, RefundingNext, UNCHANGED collectionVars
    PROVE  Backed' /\ CreditsMove /\ ProvidersGrow
<1> USE LedgerConstants
<1>a. UNCHANGED <<intent, order>> /\ ProvidersGrow
  BY UnchangedIsBacked DEF collectionVars
<1>b. ASSUME AnswersMove, CreditsMove, RefundsProvided PROVE Backed' /\ CreditsMove /\ ProvidersGrow
  BY <1>a, <1>b, StepKeepsBacked
<1>c. ASSUME inbox' \cap ({"payment_intent.succeeded"} \X Intents) \subseteq inbox
      PROVE  AnswersMove
  BY <1>a, <1>c DEF AnswersMove
<1>d. ASSUME NEW r \in RefundIds, Answer(r) PROVE AnswersMove
  BY <1>c, <1>d DEF Answer, Acked
<1>e. /\ ask \in [RefundIds -> AskRow] /\ req \in [Requests -> RequestRow]
      /\ payment \in [PaymentIds -> PaymentRow] /\ refund \in [RefundIds -> RefundRow]
  BY DEF IInv, TypeOK, LedgerTypeOK, RefundingTypeOK
<1>f. ASSUME NEW q \in Requests, req[q].step # "idle"
      PROVE  /\ req[q].id \in RefundIds
             /\ ask[req[q].id].payment \in PaymentIds
             /\ payment[ask[req[q].id].payment].status # "absent"
             /\ Provided(ask[req[q].id].payment)
  BY <1>f DEF IInv, Linked, TypeOK, RefundingTypeOK, Backed
<1>g. ASSUME NEW r \in RefundIds, refund[r].status # "absent"
      PROVE  /\ refund[r].payment \in PaymentIds
             /\ payment[refund[r].payment].status # "absent"
             /\ Provided(refund[r].payment)
  BY <1>g DEF IInv, Linked, TypeOK, LedgerTypeOK, Backed
<1>1. ASSUME NEW q \in Requests, NEW r \in RefundIds, RefundPayment(q, r)
      PROVE  Backed' /\ CreditsMove /\ ProvidersGrow
  <2>1. PICK p \in PaymentIds, a \in Amounts \cup {0}, amount \in Nat \ {0} :
           /\ ask[r] \in {NoAsk, [payment |-> p, amount |-> a]}
           /\ Refundable(p)
           /\ ask' = [ask EXCEPT ![r] = [payment |-> p, amount |-> a]]
           /\ req' = [req EXCEPT ![q] =
                 [step |-> "validated", id |-> r, amount |-> amount,
                  status |-> "absent", seenPayment |-> payment[p].status,
                  seenInvoice |-> invoice[payment[p].invoice].status]]
    BY <1>1 DEF RefundPayment
  <2>2. Provided(p)
    BY <2>1 DEF Refundable, Backed, Collected
  <2>3. \A k \in Requests : req[k].step # "idle" =>
           ask'[req[k].id].payment = ask[req[k].id].payment
    BY <1>e, <1>f, <2>1 DEF NoAsk, PaymentIds
  <2>4. UNCHANGED <<inbox, payment, refund>>
    BY <1>1 DEF RefundPayment, ledgerVars
  <2>5. ask'[r].payment = p
    BY <1>e, <2>1
  <2>6. \A k \in Requests : req'[k] = req[k] \/ req'[k].id = r
    BY <1>e, <2>1
  <2>7. RefundsProvided
    BY <1>f, <2>2, <2>3, <2>4, <2>5, <2>6 DEF RefundsProvided, Backed
  <2> QED
    BY <1>a, <1>b, <2>4, <2>7, UnchangedIsBacked
<1>2. ASSUME NEW q \in Requests, CallProvider(q) \/ DropRequest(q) PROVE Backed' /\ CreditsMove /\ ProvidersGrow
  <2>1. UNCHANGED <<ledgerVars, ask>>
    BY <1>2 DEF CallProvider, DropRequest
  <2>2. req' = [req EXCEPT ![q] = Idle] \/ (req[q].step # "idle" /\ Answered(q))
    BY <1>2 DEF CallProvider, DropRequest
  <2>3. RefundsProvided
    BY <2>1, <2>2, RequestsKeepAsking DEF ledgerVars
  <2> QED
    BY <1>a, <1>b, <2>1, <2>3, UnchangedIsBacked DEF ledgerVars
<1>3. ASSUME NEW q \in Requests, RecordRefund(q) PROVE Backed' /\ CreditsMove /\ ProvidersGrow
  <2> DEFINE r == req[q].id
             p == ask[r].payment
             s == Outcome(q)
             row == [status |-> s, payment |-> p, amount |-> req[q].amount]
  <2>1. req[q].step # "idle" /\ req' = [req EXCEPT ![q] = Idle] /\ UNCHANGED <<inbox, ask>>
    BY <1>3 DEF RecordRefund
  <2>2. AnswersMove
    BY <1>c, <2>1
  <2>3. CASE UNCHANGED <<refund, payment>>
    BY <1>b, <2>1, <2>2, <2>3, RequestsKeepAsking, UnchangedIsBacked
  <2>4. CASE /\ refund' = [refund EXCEPT ![r] = row]
             /\ \/ UNCHANGED payment
                \/ payment' = [payment EXCEPT ![p] =
                          Written(@, req[q].seenPayment, RefundedStatus(p, payment, refund'))]
    <3>1. row.payment = p
      OBVIOUS
    <3> HIDE DEF row
    <3>2. RefundsProvided
      BY <1>f, <2>1, <2>4, <3>1, RefundOfProvided
    <3>3. CreditsMove
      BY <1>a, <1>f, <2>1, <2>4, RefundedStatusIsRefunded, RefundWritesCredit, UnchangedIsBacked
    <3> QED
      BY <1>b, <2>2, <3>2, <3>3
  <2> QED
    BY <1>3, <2>3, <2>4 DEF RecordRefund
<1>4. ASSUME NEW r \in RefundIds, RefundResolves(r) PROVE Backed' /\ CreditsMove /\ ProvidersGrow
  <2>1. AnswersMove
    BY <1>4, <1>c DEF RefundResolves
  <2> QED
    BY <1>4, <1>b, <2>1, UnchangedIsBacked DEF RefundResolves
<1>5. ASSUME NEW r \in RefundIds, RefundEventIgnored(r) PROVE Backed' /\ CreditsMove /\ ProvidersGrow
  <2>1. AnswersMove
    BY <1>5, <1>c DEF RefundEventIgnored, RefundEvent, Acked
  <2> QED
    BY <1>5, <1>b, <2>1, UnchangedIsBacked DEF RefundEventIgnored, refundingVars
<1>6. ASSUME NEW r \in RefundIds, SettleFailed(r) PROVE Backed' /\ CreditsMove /\ ProvidersGrow
  <2> DEFINE row == [refund[r] EXCEPT !.status = "failed"]
  <2>1. refund[r].status # "absent" /\ Answer(r) /\ UNCHANGED <<payment, refundingVars>>
    BY <1>6 DEF SettleFailed
  <2>2. refund' = [refund EXCEPT ![r] = row]
    BY <1>6 DEF SettleFailed
  <2>3. row.payment = refund[r].payment
    BY <1>e DEF RefundRow
  <2> HIDE DEF row
  <2>4. RefundsProvided
    BY <1>e, <1>g, <2>1, <2>2, <2>3 DEF RefundsProvided, Backed, refundingVars
  <2> QED
    BY <1>b, <1>d, <2>1, <2>4, UnchangedIsBacked
<1>7. ASSUME NEW r \in RefundIds, SettlementSums(r) \/ SettlementAborts(r)
      PROVE  Backed' /\ CreditsMove /\ ProvidersGrow
  BY <1>7, <1>a, <1>b, UnchangedIsBacked DEF SettlementSums, SettlementAborts, ledgerVars
<1>8. ASSUME NEW r \in RefundIds, SettlementCommits(r) PROVE Backed' /\ CreditsMove /\ ProvidersGrow
  <2> DEFINE row == [refund[r] EXCEPT !.status = "succeeded"]
             p == refund[r].payment
  <2>1. /\ settling[r] # NotSettling /\ Answer(r) /\ UNCHANGED <<ask, req>>
        /\ payment' = [payment EXCEPT ![p] =
              Written(@, settling[r].seenPayment, settling[r].computed)]
    BY <1>8 DEF SettlementCommits
  <2>2. refund' = [refund EXCEPT ![r] = row]
    BY <1>8 DEF SettlementCommits
  <2>3. row.payment = p
    BY <1>e DEF RefundRow
  <2>4. refund[r].status # "absent" /\ settling[r].computed \in {"partially_refunded", "refunded"}
    BY <2>1 DEF IInv, Linked
  <2> HIDE DEF row
  <2>5. RefundsProvided
    BY <1>e, <1>g, <2>1, <2>2, <2>3, <2>4 DEF RefundsProvided, Backed
  <2>6. CreditsMove
    BY <1>a, <1>g, <2>1, <2>4, RefundWritesCredit
  <2> QED
    BY <1>b, <1>d, <2>1, <2>5, <2>6
<1> QED
  BY <1>1, <1>2, <1>3, <1>4, <1>5, <1>6, <1>7, <1>8 DEF RefundingNext

-----------------------------------------------------------------------------
(***************************************************************************)
(* Refunds and the provider.  A refund row written from a reply is true    *)
(* only if the reply still stands for what the provider holds, so the      *)
(* reply a request carries, the settlement in flight, and what each        *)
(* client_request_id asks for must be tied to it as well.                  *)
(***************************************************************************)

\* The provider holds the refund r, for the amount a.
Promised(r, a) == moved[r].status # "absent" /\ moved[r].amount = Charge(a)

Reconciled ==
    /\ \A r \in RefundIds : moved[r].reply = "succeeded" => moved[r].status = "succeeded"
    /\ \A q \in Requests : req[q].step = "answered" =>
           /\ Promised(req[q].id, req[q].amount)
           /\ req[q].status = moved[req[q].id].reply
    /\ \A r \in RefundIds : refund[r].status # "absent" => refund[r].payment = ask[r].payment
    /\ \A r \in RefundIds :
           refund[r].status # "absent" /\ IsProviderPayment(refund[r].payment) =>
               /\ Promised(r, refund[r].amount)
               /\ refund[r].status = "succeeded" => moved[r].status = "succeeded"
    /\ \A r \in RefundIds : refund[r].status \in {"pending", "failed"} =>
           IsProviderPayment(refund[r].payment)
    /\ \A r \in RefundIds : settling[r] # NotSettling =>
           refund[r].status = "pending" /\ moved[r].status = "succeeded"

\* The provider never forgets a refund, nor what it was for.
MovedGrows ==
    \A r \in RefundIds : moved[r].status # "absent" =>
        /\ moved'[r].status # "absent"
        /\ moved'[r].amount = moved[r].amount /\ moved'[r].reply = moved[r].reply
        /\ moved[r].status = "succeeded" => moved'[r].status = "succeeded"

\* With the provider's refunds growing, what is left to show is that its
\* replies are kept, that every request and settlement goes on with what it
\* had, and that every refund row goes on as it was, or is new and backed.
LEMMA StepKeepsReconciled ==
    ASSUME IInv, Reconciled, MovedGrows,
           \A r \in RefundIds : moved'[r].reply = "succeeded" => moved'[r].status = "succeeded",
           \A q \in Requests : req'[q].step = "answered" =>
               \/ req[q].step = "answered" /\ req'[q] = req[q]
               \/ Promised(req[q].id, req[q].amount)' /\ req'[q].status = moved'[req'[q].id].reply,
           \A r \in RefundIds : ask[r].payment # None => ask'[r] = ask[r],
           \A r \in RefundIds :
               \/ refund'[r] = refund[r]
               \/ /\ refund'[r].payment = ask'[r].payment
                  /\ IsProviderPayment(refund'[r].payment) =>
                        /\ Promised(r, refund[r].amount)'
                        /\ refund'[r].status = "succeeded" => moved'[r].status = "succeeded"
                  /\ refund'[r].status \in {"pending", "failed"} =>
                         IsProviderPayment(refund'[r].payment),
           \A r \in RefundIds : settling'[r] # NotSettling =>
               refund'[r].status = "pending" /\ moved'[r].status = "succeeded"
    PROVE  Reconciled'
<1>1. ASSUME NEW q \in Requests, req'[q].step = "answered"
      PROVE  /\ Promised(req[q].id, req[q].amount)'
             /\ req'[q].status = moved'[req'[q].id].reply
  <2>1. CASE req[q].step = "answered" /\ req'[q] = req[q]
    <3>1. req[q].id \in RefundIds
      BY <2>1 DEF IInv, TypeOK, RefundingTypeOK
    <3>2. Promised(req[q].id, req[q].amount) /\ req[q].status = moved[req[q].id].reply
      BY <2>1 DEF Reconciled
    <3> QED BY <2>1, <3>1, <3>2 DEF MovedGrows, Promised
  <2> QED BY <1>1, <2>1
<1>2. ASSUME NEW r \in RefundIds, refund'[r].status # "absent"
      PROVE  /\ refund'[r].payment = ask'[r].payment
             /\ IsProviderPayment(refund'[r].payment) =>
                   /\ Promised(r, refund[r].amount)'
                   /\ refund'[r].status = "succeeded" => moved'[r].status = "succeeded"
             /\ refund'[r].status \in {"pending", "failed"} =>
                    IsProviderPayment(refund'[r].payment)
  <2>1. CASE refund'[r] = refund[r]
    <3>1. refund[r].payment = ask[r].payment /\ refund[r].payment # None
      BY <1>2, <2>1, LedgerConstants DEF Reconciled, IInv, TypeOK, LedgerTypeOK
    <3>2. refund'[r].payment = ask'[r].payment
      BY <2>1, <3>1
    <3>3. IsProviderPayment(refund[r].payment) =>
             /\ Promised(r, refund[r].amount)
             /\ refund[r].status = "succeeded" => moved[r].status = "succeeded"
      BY <1>2, <2>1 DEF Reconciled
    <3>4. IsProviderPayment(refund'[r].payment) =>
             /\ Promised(r, refund[r].amount)'
             /\ refund'[r].status = "succeeded" => moved'[r].status = "succeeded"
      BY <2>1, <3>3 DEF MovedGrows, Promised
    <3>5. refund'[r].status \in {"pending", "failed"} => IsProviderPayment(refund'[r].payment)
      BY <2>1 DEF Reconciled
    <3> QED BY <3>2, <3>4, <3>5
  <2> QED BY <2>1
<1> QED BY <1>1, <1>2 DEF Reconciled

\* The empty tables are reconciled.
THEOREM InitReconciled == Init => Reconciled
  BY DEF Init, LedgerInit, RefundingInit, Reconciled, NoRefund, NotMoved, Idle

\* Every action of Refunding keeps refunds and provider reconciled.
LEMMA RefundingKeepsReconciled ==
    ASSUME IInv, Reconciled, RefundingNext, UNCHANGED collectionVars
    PROVE  Reconciled'
<1> USE LedgerConstants
<1>a. /\ ask \in [RefundIds -> AskRow] /\ req \in [Requests -> RequestRow]
      /\ moved \in [RefundIds -> MovedRow] /\ settling \in [RefundIds -> SettlingRow]
      /\ refund \in [RefundIds -> RefundRow]
  BY DEF IInv, TypeOK, LedgerTypeOK, RefundingTypeOK
<1>b. UNCHANGED moved => MovedGrows
  BY DEF MovedGrows
<1>c. \A r \in RefundIds : settling[r] # NotSettling =>
          refund[r].status = "pending" /\ moved[r].status = "succeeded"
  BY DEF Reconciled
<1>d. \A r \in RefundIds : moved[r].reply = "succeeded" => moved[r].status = "succeeded"
  BY DEF Reconciled
<1>e. ASSUME NEW q \in Requests, UNCHANGED req \/ req' = [req EXCEPT ![q] = Idle]
      PROVE  \A k \in Requests : req'[k].step = "answered" =>
                 req[k].step = "answered" /\ req'[k] = req[k]
  BY <1>a, <1>e DEF Idle
<1>1. ASSUME NEW q \in Requests, NEW r \in RefundIds, RefundPayment(q, r) PROVE Reconciled'
  <2>1. PICK p \in PaymentIds, a \in Amounts \cup {0}, amount \in Nat \ {0} :
           /\ ask[r] \in {NoAsk, [payment |-> p, amount |-> a]}
           /\ ask' = [ask EXCEPT ![r] = [payment |-> p, amount |-> a]]
           /\ req' = [req EXCEPT ![q] =
                 [step |-> "validated", id |-> r, amount |-> amount,
                  status |-> "absent", seenPayment |-> payment[p].status,
                  seenInvoice |-> invoice[payment[p].invoice].status]]
    BY <1>1 DEF RefundPayment
  <2>2. UNCHANGED <<refund, moved, settling>>
    BY <1>1 DEF RefundPayment, ledgerVars
  <2>3. \A k \in RefundIds : ask[k].payment # None => ask'[k] = ask[k]
    BY <1>a, <2>1 DEF NoAsk
  <2>4. \A k \in Requests : req'[k].step = "answered" =>
             req[k].step = "answered" /\ req'[k] = req[k]
    BY <1>a, <2>1
  <2> QED BY <1>b, <1>c, <1>d, <2>2, <2>3, <2>4, StepKeepsReconciled
<1>2. ASSUME NEW q \in Requests, CallProvider(q) PROVE Reconciled'
  <2> DEFINE r == req[q].id
             charge == Charge(req[q].amount)
  <2>1. /\ r \in RefundIds /\ req[q].step = "validated"
        /\ UNCHANGED <<refund, ask, settling>>
    BY <1>2 DEF CallProvider, IInv, TypeOK, RefundingTypeOK, ledgerVars
  <2>2. Answered(q) \/ req' = [req EXCEPT ![q] = Idle]
    BY <1>2 DEF CallProvider
  <2>3. \/ /\ moved[r].status = "absent"
           /\ \E s \in {"pending", "succeeded", "failed"} :
                 moved' = [moved EXCEPT ![r] = [status |-> s, reply |-> s, amount |-> charge]]
        \/ UNCHANGED moved /\ moved[r].status # "absent" /\ moved[r].amount = charge
    BY <1>2 DEF CallProvider
  <2>4. /\ MovedGrows
        /\ \A k \in RefundIds : moved'[k].reply = "succeeded" => moved'[k].status = "succeeded"
        /\ moved'[r].status # "absent" /\ moved'[r].amount = charge
    BY <1>a, <1>d, <2>1, <2>3 DEF MovedGrows
  <2>5. ASSUME NEW k \in Requests, req'[k].step = "answered"
        PROVE  \/ req[k].step = "answered" /\ req'[k] = req[k]
               \/ Promised(req[k].id, req[k].amount)' /\ req'[k].status = moved'[req'[k].id].reply
    <3>1. CASE k # q
      BY <1>a, <2>2, <2>5, <3>1 DEF Answered
    <3>2. CASE k = q
      <4>1. Answered(q)
        BY <1>a, <2>2, <2>5, <3>2 DEF Idle
      <4>2. /\ req'[q].id = r /\ req'[q].amount = req[q].amount
            /\ req'[q].status = moved'[r].reply
        BY <1>a, <4>1 DEF Answered, RequestRow
      <4> QED BY <2>4, <3>2, <4>2 DEF Promised, Charge
    <3> QED BY <3>1, <3>2
  <2>6. \A k \in RefundIds : settling'[k] # NotSettling =>
            refund'[k].status = "pending" /\ moved'[k].status = "succeeded"
    BY <1>c, <2>1, <2>4 DEF MovedGrows
  <2> QED BY <2>1, <2>4, <2>5, <2>6, StepKeepsReconciled
<1>3. ASSUME NEW q \in Requests, RecordRefund(q) PROVE Reconciled'
  <2> DEFINE r == req[q].id
             p == ask[r].payment
             s == Outcome(q)
             row == [status |-> s, payment |-> p, amount |-> req[q].amount]
  <2>1. /\ r \in RefundIds /\ req[q].step # "idle"
        /\ req' = [req EXCEPT ![q] = Idle] /\ UNCHANGED <<ask, moved, settling>>
        /\ req[q].step = IF IsProviderPayment(p) THEN "answered" ELSE "validated"
        /\ UNCHANGED refund
              \/ (refund[r].status = "absent" /\ refund' = [refund EXCEPT ![r] = row])
    BY <1>3 DEF RecordRefund, IInv, TypeOK, RefundingTypeOK
  <2>2. \A k \in Requests : req'[k].step = "answered" =>
             req[k].step = "answered" /\ req'[k] = req[k]
    BY <1>e, <2>1
  <2>3. row.payment = p /\ row.status = s /\ row.amount = req[q].amount
    OBVIOUS
  <2>4. IsProviderPayment(p) =>
             Promised(r, row.amount) /\ (s = "succeeded" => moved[r].status = "succeeded")
    BY <2>1, <2>3 DEF Reconciled, Outcome
  <2>5. ~IsProviderPayment(p) => s = "succeeded"
    BY <2>1 DEF Outcome
  <2> HIDE DEF row, s
  <2>6. refund'[r] = refund[r] \/ refund'[r] = row
    BY <1>a, <2>1
  <2>7. \A k \in RefundIds : k # r => refund'[k] = refund[k]
    BY <1>a, <2>1
  <2>8. ASSUME NEW k \in RefundIds
        PROVE  \/ refund'[k] = refund[k]
               \/ /\ refund'[k].payment = ask'[k].payment
                  /\ IsProviderPayment(refund'[k].payment) =>
                        /\ Promised(k, refund[k].amount)'
                        /\ refund'[k].status = "succeeded" => moved'[k].status = "succeeded"
                  /\ refund'[k].status \in {"pending", "failed"} =>
                         IsProviderPayment(refund'[k].payment)
    BY <2>1, <2>3, <2>4, <2>5, <2>6, <2>7 DEF Promised
  <2>9. \A k \in RefundIds : settling'[k] # NotSettling =>
            refund'[k].status = "pending" /\ moved'[k].status = "succeeded"
    BY <1>a, <1>c, <2>1
  <2> QED BY <1>b, <1>d, <2>1, <2>2, <2>8, <2>9, StepKeepsReconciled
<1>4. ASSUME NEW r \in RefundIds, RefundResolves(r) PROVE Reconciled'
  <2>1. /\ moved[r].status = "pending" /\ UNCHANGED <<refund, ask, req, settling>>
        /\ \E s \in {"succeeded", "failed"} : moved' = [moved EXCEPT ![r].status = s]
    BY <1>4 DEF RefundResolves
  <2>2. /\ MovedGrows
        /\ \A k \in RefundIds : moved'[k].reply = "succeeded" => moved'[k].status = "succeeded"
    BY <1>a, <1>d, <2>1 DEF MovedGrows, MovedRow
  <2>3. \A k \in RefundIds : settling'[k] # NotSettling =>
            refund'[k].status = "pending" /\ moved'[k].status = "succeeded"
    BY <1>c, <2>1, <2>2 DEF MovedGrows
  <2> QED BY <2>1, <2>2, <2>3, StepKeepsReconciled
<1>5. ASSUME NEW r \in RefundIds, SettleFailed(r) \/ SettlementCommits(r) PROVE Reconciled'
  <2>1. PICK s \in {"failed", "succeeded"} :
           /\ refund' = [refund EXCEPT ![r].status = s]
           /\ s = "succeeded" => settling[r] # NotSettling
           /\ refund[r].status = "pending" /\ UNCHANGED <<ask, req, moved>>
           /\ UNCHANGED settling \/ settling' = [settling EXCEPT ![r] = NotSettling]
           /\ settling'[r] = NotSettling
    BY <1>5, <1>a, <1>c DEF SettleFailed, SettlementCommits, refundingVars
  <2>2. /\ refund'[r].status = s /\ refund'[r].payment = refund[r].payment
        /\ refund'[r].amount = refund[r].amount
        /\ \A k \in RefundIds : k # r => refund'[k] = refund[k]
    BY <1>a, <2>1 DEF RefundRow
  <2>3. /\ refund[r].payment = ask[r].payment
        /\ IsProviderPayment(refund[r].payment) /\ Promised(r, refund[r].amount)
    BY <2>1 DEF Reconciled
  <2>4. s = "succeeded" => moved[r].status = "succeeded"
    BY <1>c, <2>1
  <2>5. ASSUME NEW k \in RefundIds
        PROVE  \/ refund'[k] = refund[k]
               \/ /\ refund'[k].payment = ask'[k].payment
                  /\ IsProviderPayment(refund'[k].payment) =>
                        /\ Promised(k, refund[k].amount)'
                        /\ refund'[k].status = "succeeded" => moved'[k].status = "succeeded"
                  /\ refund'[k].status \in {"pending", "failed"} =>
                         IsProviderPayment(refund'[k].payment)
    BY <2>1, <2>2, <2>3, <2>4 DEF Promised
  <2>6. \A k \in RefundIds : settling'[k] # NotSettling =>
            refund'[k].status = "pending" /\ moved'[k].status = "succeeded"
    BY <1>a, <1>c, <2>1, <2>2
  <2> QED BY <1>b, <1>d, <2>1, <2>5, <2>6, StepKeepsReconciled
<1>6. ASSUME NEW r \in RefundIds, SettlementSums(r) \/ SettlementAborts(r) PROVE Reconciled'
  <2>1. UNCHANGED <<refund, ask, req, moved>>
    BY <1>6 DEF SettlementSums, SettlementAborts, ledgerVars
  <2>2. \A k \in RefundIds : settling'[k] # NotSettling =>
            refund'[k].status = "pending" /\ moved'[k].status = "succeeded"
    BY <1>6, <1>a, <1>c, <2>1 DEF SettlementSums, SettlementAborts
  <2> QED BY <1>b, <1>d, <2>1, <2>2, StepKeepsReconciled
<1>7. ASSUME UNCHANGED <<refund, ask, req, moved, settling>> PROVE Reconciled'
  BY <1>b, <1>c, <1>d, <1>7, StepKeepsReconciled
<1>8. ASSUME NEW q \in Requests, DropRequest(q) PROVE Reconciled'
  <2>1. req' = [req EXCEPT ![q] = Idle] /\ UNCHANGED <<refund, ask, moved, settling>>
    BY <1>8 DEF DropRequest, ledgerVars
  <2> QED BY <1>b, <1>c, <1>d, <1>e, <2>1, StepKeepsReconciled
<1>9. ASSUME NEW r \in RefundIds, RefundEventIgnored(r) PROVE Reconciled'
  BY <1>7, <1>9 DEF RefundEventIgnored, refundingVars
<1> QED
  BY <1>1, <1>2, <1>3, <1>4, <1>5, <1>6, <1>8, <1>9 DEF RefundingNext

-----------------------------------------------------------------------------
\* Every step keeps the invariant, moves credits only towards refunds, and
\* takes nothing back at the providers.
LEMMA NextKeepsBacked ==
    ASSUME IInv, Backed, [Next]_vars
    PROVE  Backed' /\ CreditsMove /\ ProvidersGrow
<1>1. CASE Next
  BY <1>1, CollectionKeepsBacked, RefundingKeepsBacked DEF Next
<1>2. CASE UNCHANGED vars
  BY <1>2, StepKeepsBacked, UnchangedIsBacked
  DEF vars, ledgerVars, collectionVars, refundingVars
<1> QED BY <1>1, <1>2

(* In every reachable state each payment row matches its intent or order,  *)
(* and whatever will be recorded as collected has been collected.          *)
THEOREM BackedHolds == Spec => [](IInv /\ Backed)
<1>1. ASSUME IInv, Backed, [Next]_vars PROVE Backed'
  BY <1>1, NextKeepsBacked
<1> QED BY IInvHolds, InitBacked, <1>1, PTL DEF Spec

(* A payment that counts as received is backed by money the provider       *)
(* collected for that invoice and amount: for every number of invoices,    *)
(* payments and refunds in flight, in every order in which webhooks,       *)
(* captures, polls, refunds and retries arrive.                            *)
THEOREM PaymentsAreBacked == Spec => []RecordedPaymentsAreBacked
<1>1. IInv /\ Backed => RecordedPaymentsAreBacked
  BY DEF IInv, Backed, Matches, Provided, Collected, RecordedPaymentsAreBacked, PaymentIds
<1> QED BY BackedHolds, <1>1, PTL

(* Only a refund takes a received payment's credit away: no step leaves    *)
(* "succeeded" for anything but a refunded status.                         *)
THEOREM CreditOnlyLostByRefundHolds == Spec => CreditOnlyLostByRefund
<1>1. ASSUME IInv, Backed, [Next]_vars
      PROVE  [\A p \in PaymentIds :
                 payment[p].status = "succeeded" => payment'[p].status \in Collected]_vars
  BY <1>1, NextKeepsBacked DEF CreditsMove, Collected
<1> QED BY BackedHolds, <1>1, PTL DEF Spec, CreditOnlyLostByRefund

\* Every step keeps refunds and provider reconciled.
LEMMA NextKeepsReconciled ==
    ASSUME IInv, Reconciled, [Next]_vars
    PROVE  Reconciled'
<1>1. CASE CollectionNext /\ UNCHANGED <<refund, refundingVars>>
  BY <1>1 DEF Reconciled, Promised, refundingVars
<1>2. CASE RefundingNext /\ UNCHANGED collectionVars
  BY <1>2, RefundingKeepsReconciled
<1>3. CASE UNCHANGED vars
  BY <1>3 DEF Reconciled, Promised, vars, ledgerVars, refundingVars
<1> QED BY <1>1, <1>2, <1>3 DEF Next

(* In every reachable state each refund row agrees with what the provider  *)
(* holds under the same key.                                               *)
THEOREM ReconciledHolds == Spec => [](IInv /\ Backed /\ Reconciled)
<1>1. ASSUME IInv, Reconciled, [Next]_vars PROVE Reconciled'
  BY <1>1, NextKeepsReconciled
<1> QED BY BackedHolds, InitReconciled, <1>1, PTL DEF Spec

(* A refund recorded as succeeded at a provider is one the provider made,  *)
(* for the recorded amount: through retries, lost replies, webhooks and    *)
(* polls, for any number of refund requests at once.                       *)
THEOREM RefundsAreBacked == Spec => []RecordedRefundsAreBacked
<1>1. Reconciled => RecordedRefundsAreBacked
  BY DEF Reconciled, Promised, RecordedRefundsAreBacked
<1> QED BY ReconciledHolds, <1>1, PTL

=============================================================================
