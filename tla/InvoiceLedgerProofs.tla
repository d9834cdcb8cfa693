------------------------- MODULE InvoiceLedgerProofs -------------------------
(***************************************************************************)
(* Type correctness of the invoice ledger for every set of invoices,       *)
(* payments, refunds and requests and every set of amounts.                *)
(*                                                                         *)
(* TypeOK alone is not inductive: that a payment row has a positive amount *)
(* needs the intent or the order it was copied from to have one, and that  *)
(* a refund in flight names a real payment needs its row to stay.  Linked  *)
(* adds these references between rows.                                     *)
(*                                                                         *)
(* The proof has two halves.  StepKeepsIInv says what each table may do in *)
(* a step that keeps the invariant (the Moves predicates), whatever the    *)
(* step is; the lemmas after it show that each action does no more.  How   *)
(* amounts add up plays no part: RefundTotal, PaidSoFar and RefundedSoFar  *)
(* are never expanded.                                                     *)
(***************************************************************************)
EXTENDS InvoiceLedger, Sums

\* References between rows: what a row points at exists.
Linked ==
    /\ \A i \in Invoices : invoice[i].intent # None =>
           /\ intent[invoice[i].intent].status # "absent"
           /\ intent[invoice[i].intent].invoice = i
    /\ \A n \in Intents : intent[n].status # "absent" =>
           intent[n].invoice \in Invoices /\ intent[n].amount > 0
    /\ \A o \in Orders : order[o].status # "absent" =>
           order[o].invoice \in Invoices /\ order[o].amount > 0
    /\ \A q \in Requests : req[q].step # "idle" =>
           payment[ask[req[q].id].payment].status # "absent"
    /\ \A r \in RefundIds : refund[r].status # "absent" =>
           payment[refund[r].payment].status # "absent"
    /\ \A r \in RefundIds : settling[r] # NotSettling =>
           /\ refund[r].status # "absent"
           /\ settling[r].computed \in {"partially_refunded", "refunded"}
    /\ \A r \in RefundIds : moved[r].status # "absent" => moved[r].reply # "absent"

IInv == TypeOK /\ Linked

-----------------------------------------------------------------------------
(***************************************************************************)
(* What each table may do in one step.                                     *)
(***************************************************************************)
GoodPayment(row) ==
    row \in PaymentRow /\ row.status # "absent" /\ row.amount > 0 /\ row.invoice \in Invoices

InvoicesMove ==
    /\ invoice' \in [Invoices -> InvoiceRow]
    /\ \A i \in Invoices :
          \/ invoice'[i].intent \in {None, invoice[i].intent}
          \/ /\ intent'[invoice'[i].intent].status # "absent"
             /\ intent'[invoice'[i].intent].invoice = i

PaymentsMove ==
    /\ payment' \in [PaymentIds -> PaymentRow]
    /\ \A p \in PaymentIds : payment'[p] = payment[p] \/ GoodPayment(payment'[p])

IntentsMove ==
    /\ intent' \in [Intents -> IntentRow]
    /\ \A n \in Intents : intent[n].status # "absent" =>
          intent'[n].status # "absent" /\ intent'[n].invoice = intent[n].invoice
    /\ \A n \in Intents : intent'[n].status # "absent" =>
          intent'[n].invoice \in Invoices /\ intent'[n].amount > 0

OrdersMove ==
    /\ order' \in [Orders -> OrderRow]
    /\ \A o \in Orders : order'[o].status # "absent" =>
          order'[o].invoice \in Invoices /\ order'[o].amount > 0

RefundsMove ==
    /\ refund' \in [RefundIds -> RefundRow]
    /\ \A r \in RefundIds : refund[r].status # "absent" => refund'[r].status # "absent"
    /\ \A r \in RefundIds : refund'[r].status # "absent" =>
          /\ refund'[r].amount > 0
          /\ refund'[r].payment \in PaymentIds
          /\ payment[refund'[r].payment].status # "absent"

RequestsMove ==
    /\ ask' \in [RefundIds -> AskRow]
    /\ req' \in [Requests -> RequestRow]
    /\ \A q \in Requests : req'[q].step # "idle" =>
          /\ req'[q].id \in RefundIds
          /\ req'[q].amount > 0
          /\ ask'[req'[q].id].payment \in PaymentIds
          /\ payment[ask'[req'[q].id].payment].status # "absent"
    /\ \A q \in Requests : req'[q].step = "answered" => req'[q].status # "absent"

SettlingMove ==
    /\ settling' \in [RefundIds -> SettlingRow]
    /\ \A r \in RefundIds : settling'[r] # NotSettling =>
          /\ refund[r].status # "absent"
          /\ settling'[r].computed \in {"partially_refunded", "refunded"}

MovedMove ==
    /\ moved' \in [RefundIds -> MovedRow]
    /\ \A r \in RefundIds : moved'[r].status # "absent" => moved'[r].reply # "absent"

\* A capture moves only the order it is for, and only its first one does.
LEMMA CaptureMovesOrder ==
    ASSUME order \in [Orders -> OrderRow], NEW o \in Orders, NEW outcome \in OrderStatus,
           NEW heard \in BOOLEAN, order' = AfterCapture(o, outcome, heard)
    PROVE  /\ order' \in [Orders -> OrderRow]
           /\ order'[o].status = IF Captured(o) THEN order[o].status ELSE outcome
           /\ order'[o].reply = IF Captured(o) THEN order[o].reply ELSE outcome
           /\ order'[o].heard = (order[o].heard \/ heard)
           /\ order'[o].invoice = order[o].invoice /\ order'[o].amount = order[o].amount
           /\ \A k \in Orders : k # o => order'[k] = order[k]
<1> DEFINE row == IF Captured(o) THEN order[o]
                  ELSE [order[o] EXCEPT !.status = outcome, !.reply = outcome]
           new == [row EXCEPT !.heard = @ \/ heard]
<1>1. /\ row \in OrderRow
      /\ row.status = IF Captured(o) THEN order[o].status ELSE outcome
      /\ row.reply = IF Captured(o) THEN order[o].reply ELSE outcome
      /\ row.heard = order[o].heard
      /\ row.invoice = order[o].invoice /\ row.amount = order[o].amount
  BY DEF OrderRow
<1>2. order' = [order EXCEPT ![o] = new]
  BY DEF AfterCapture
<1> HIDE DEF row
<1>3. /\ new \in OrderRow
      /\ new.status = row.status /\ new.reply = row.reply
      /\ new.heard = (row.heard \/ heard)
      /\ new.invoice = row.invoice /\ new.amount = row.amount
  BY <1>1 DEF OrderRow
<1> HIDE DEF new
<1> QED BY <1>1, <1>2, <1>3

\* A step in which every table only does what its Moves predicate allows
\* keeps the invariant.
LEMMA StepKeepsIInv ==
    ASSUME IInv,
           InvoicesMove, PaymentsMove, IntentsMove, OrdersMove,
           RefundsMove, RequestsMove, SettlingMove, MovedMove,
           inbox' \subseteq Events, sweep' \subseteq Invoices, lost' \in 0..MaxCommitFailures
    PROVE  IInv'
<1>1. \A p \in PaymentIds : payment[p].status # "absent" => payment'[p].status # "absent"
  BY DEF PaymentsMove, GoodPayment
<1>2. LedgerTypeOK'
  BY DEF IInv, TypeOK, LedgerTypeOK, InvoicesMove, PaymentsMove, RefundsMove, GoodPayment
<1>3. CollectionTypeOK'
  BY DEF IntentsMove, OrdersMove, CollectionTypeOK
<1>4. RefundingTypeOK'
  BY DEF RequestsMove, SettlingMove, MovedMove, RefundingTypeOK
<1>5. \A i \in Invoices : invoice'[i].intent # None =>
           /\ intent'[invoice'[i].intent].status # "absent"
           /\ intent'[invoice'[i].intent].invoice = i
  BY DEF IInv, TypeOK, LedgerTypeOK, Linked, InvoicesMove, IntentsMove, InvoiceRow
<1>6. Linked'
  BY <1>1, <1>5 DEF Linked, IntentsMove, OrdersMove, RequestsMove, RefundsMove, SettlingMove,
     MovedMove
<1> QED BY <1>2, <1>3, <1>4, <1>6 DEF IInv, TypeOK

\* A table that does not change moves.
LEMMA UnchangedMoves ==
    ASSUME IInv
    PROVE  /\ UNCHANGED invoice => InvoicesMove
           /\ UNCHANGED payment => PaymentsMove
           /\ UNCHANGED intent => IntentsMove
           /\ UNCHANGED order => OrdersMove
           /\ UNCHANGED refund => RefundsMove
           /\ UNCHANGED <<ask, req>> => RequestsMove
           /\ UNCHANGED settling => SettlingMove
           /\ UNCHANGED moved => MovedMove
           /\ UNCHANGED inbox => inbox' \subseteq Events
           /\ UNCHANGED sweep => sweep' \subseteq Invoices
           /\ UNCHANGED lost => lost' \in 0..MaxCommitFailures
<1>1. UNCHANGED invoice => InvoicesMove
  BY DEF IInv, TypeOK, LedgerTypeOK, InvoicesMove
<1>2. UNCHANGED payment => PaymentsMove
  BY DEF IInv, TypeOK, LedgerTypeOK, PaymentsMove
<1>3. UNCHANGED intent => IntentsMove
  BY DEF IInv, Linked, TypeOK, CollectionTypeOK, IntentsMove
<1>4. UNCHANGED order => OrdersMove
  BY DEF IInv, Linked, TypeOK, CollectionTypeOK, OrdersMove
<1>5. UNCHANGED refund => RefundsMove
  BY DEF IInv, Linked, TypeOK, LedgerTypeOK, RefundsMove
<1>6. UNCHANGED <<ask, req>> => RequestsMove
  BY DEF IInv, Linked, TypeOK, RefundingTypeOK, RequestsMove
<1>7. UNCHANGED settling => SettlingMove
  BY DEF IInv, Linked, TypeOK, RefundingTypeOK, SettlingMove
<1>8. UNCHANGED moved => MovedMove
  BY DEF IInv, Linked, TypeOK, RefundingTypeOK, MovedMove
<1> QED
  BY <1>1, <1>2, <1>3, <1>4, <1>5, <1>6, <1>7, <1>8
  DEF IInv, TypeOK, LedgerTypeOK, CollectionTypeOK, RefundingTypeOK

\* One invoice row is rewritten and keeps its intent.
LEMMA InvoiceRewritten ==
    ASSUME IInv, NEW i \in Invoices, NEW row \in InvoiceRow, row.intent = invoice[i].intent,
           invoice' = [invoice EXCEPT ![i] = row]
    PROVE  InvoicesMove
  BY DEF IInv, TypeOK, LedgerTypeOK, InvoicesMove

\* One payment row is inserted or rewritten.
LEMMA PaymentRewritten ==
    ASSUME IInv, NEW p \in PaymentIds, NEW row, GoodPayment(row),
           payment' = [payment EXCEPT ![p] = row]
    PROVE  PaymentsMove
  BY DEF IInv, TypeOK, LedgerTypeOK, PaymentsMove, GoodPayment

-----------------------------------------------------------------------------
(***************************************************************************)
(* What the shared operators return.                                       *)
(***************************************************************************)

\* Settling an invoice or flagging it changes neither its shape nor the
\* intent it holds.
LEMMA RowsKeepShape ==
    ASSUME NEW row \in InvoiceRow, NEW paid, NEW reason
    PROVE  /\ Settled(row, paid) \in InvoiceRow
           /\ Settled(row, paid).intent = row.intent
           /\ FlaggedIf(row, reason) \in InvoiceRow
           /\ FlaggedIf(row, reason).intent = row.intent
<1>1. /\ Settled(row, paid) \in InvoiceRow
      /\ Settled(row, paid).intent = row.intent
  BY DEF Settled, InvoiceRow, InvoiceStatus
<1>2. (row.review \/ reason) \in BOOLEAN
  BY Zenon
<1>3. /\ FlaggedIf(row, reason) \in InvoiceRow
      /\ FlaggedIf(row, reason).intent = row.intent
  BY <1>2 DEF FlaggedIf, InvoiceRow
<1> QED BY <1>1, <1>3

\* Recording a refund leaves an invoice row an invoice row, with its intent.
LEMMA AfterRefundKeepsShape ==
    ASSUME NEW i \in Invoices, invoice[i] \in InvoiceRow, NEW s, NEW P, NEW R
    PROVE  /\ AfterRefund(i, s, P, R) \in InvoiceRow
           /\ AfterRefund(i, s, P, R).intent = invoice[i].intent
  BY DEF AfterRefund, InvoiceRow, InvoiceStatus

\* Rounding an integer amount to whole minor units gives an integer.
LEMMA ChargeIsInt == ASSUME NEW a \in Int PROVE Charge(a) \in Int
  BY LedgerConstants DEF Charge

\* Summing the refunds of a payment yields one of the two refunded statuses.
LEMMA RefundedStatusIsRefunded ==
    ASSUME NEW p, NEW P, NEW R
    PROVE  RefundedStatus(p, P, R) \in {"partially_refunded", "refunded"}
  BY DEF RefundedStatus

\* Rewriting the status of a payment keeps it a payment.
LEMMA StatusRewriteIsGood ==
    ASSUME IInv, NEW p \in PaymentIds, payment[p].status # "absent",
           NEW s \in PaymentStatus, s # "absent"
    PROVE  GoodPayment(payment[p]) /\ GoodPayment([payment[p] EXCEPT !.status = s])
  BY DEF IInv, TypeOK, LedgerTypeOK, GoodPayment, PaymentRow

-----------------------------------------------------------------------------
\* The empty tables, with no request and no settlement in flight, satisfy the
\* invariant.
THEOREM InitIInv == Init => IInv
  BY LedgerConstants, CollectionConstants
  DEF Init, IInv, TypeOK, LedgerTypeOK, CollectionTypeOK, RefundingTypeOK, Linked,
      LedgerInit, CollectionInit, RefundingInit,
      NoInvoice, NoPayment, NoRefund, NoIntent, NoOrder, NoAsk, Idle, NotMoved, NotSettling,
      InvoiceRow, PaymentRow, RefundRow, IntentRow, OrderRow, AskRow, RequestRow,
      MovedRow, SettlingRow, InvoiceStatus, PaymentStatus, RefundStatus, OrderStatus,
      PaymentIds

(***************************************************************************)
(* The actions of Collection.                                              *)
(***************************************************************************)
\* Every action of Collection keeps the invariant.
LEMMA CollectionKeepsIInv ==
    ASSUME IInv, CollectionNext, UNCHANGED <<refund, refundingVars>>
    PROVE  IInv'
<1> USE LedgerConstants, CollectionConstants
<1>a. /\ UNCHANGED refund => RefundsMove
      /\ UNCHANGED <<ask, req>> => RequestsMove
      /\ UNCHANGED settling => SettlingMove
      /\ UNCHANGED moved => MovedMove
  BY UnchangedMoves
<1>b. RefundsMove /\ RequestsMove /\ SettlingMove /\ MovedMove
  BY <1>a DEF refundingVars
<1>c. ASSUME InvoicesMove, PaymentsMove, IntentsMove, OrdersMove,
             inbox' \subseteq Events, sweep' \subseteq Invoices, lost' \in 0..MaxCommitFailures
      PROVE  IInv'
  BY <1>b, <1>c, StepKeepsIInv
<1>d. invoice \in [Invoices -> InvoiceRow] /\ payment \in [PaymentIds -> PaymentRow]
  BY DEF IInv, TypeOK, LedgerTypeOK
<1>e. intent \in [Intents -> IntentRow] /\ order \in [Orders -> OrderRow]
  BY DEF IInv, TypeOK, CollectionTypeOK
<1>1. ASSUME NEW i \in Invoices, CreateInvoice(i) PROVE IInv'
  <2>1. PICK t \in Totals, unresolved \in TaxOutcomes :
           invoice' = [invoice EXCEPT ![i] = [NoInvoice EXCEPT
                           !.status = "draft", !.total = t, !.review = unresolved]]
    BY <1>1 DEF CreateInvoice
  <2> DEFINE row == [NoInvoice EXCEPT
                        !.status = "draft", !.total = t, !.review = unresolved]
  <2>2. row \in InvoiceRow /\ row.intent = None
    BY DEF NoInvoice, InvoiceRow, InvoiceStatus
  <2>3. invoice' = [invoice EXCEPT ![i] = row]
    BY <2>1
  <2> HIDE DEF row
  <2>4. InvoicesMove
    BY <1>d, <2>2, <2>3 DEF InvoicesMove
  <2> QED
    BY <1>1, <1>c, <2>4, UnchangedMoves DEF CreateInvoice, collectionVars
<1>18. ASSUME NEW i \in Invoices, NEW acknowledged, VoidInvoice(i) \/ SendInvoice(i, acknowledged)
       PROVE  IInv'
  <2>1. PICK s \in {"void", "sent"} : invoice' = [invoice EXCEPT ![i].status = s]
    BY <1>18 DEF VoidInvoice, SendInvoice
  <2>2. InvoicesMove
    BY <1>d, <2>1 DEF InvoicesMove, InvoiceRow, InvoiceStatus
  <2>3. UNCHANGED <<payment, inbox, collectionVars>>
    BY <1>18 DEF VoidInvoice, SendInvoice
  <2> QED
    BY <1>c, <2>2, <2>3, UnchangedMoves DEF collectionVars
<1>2. ASSUME NEW i \in Invoices, NEW m \in ManualPayments, NEW a \in Amounts,
             RecordManualPayment(i, m, a)
      PROVE  IInv'
  <2>1. InvoicesMove
    BY <1>2, <1>d, InvoiceRewritten, RowsKeepShape DEF RecordManualPayment
  <2>2. GoodPayment([status |-> "succeeded", invoice |-> i, amount |-> a]) /\ m \in PaymentIds
    BY DEF GoodPayment, PaymentRow, PaymentStatus, PaymentIds
  <2>3. PaymentsMove
    BY <1>2, <2>2, PaymentRewritten DEF RecordManualPayment
  <2> QED
    BY <1>2, <1>c, <2>1, <2>3, UnchangedMoves DEF RecordManualPayment, collectionVars
<1>3. ASSUME NEW due \in SUBSET Invoices, SweepRead(due) PROVE IInv'
  BY <1>3, <1>c, UnchangedMoves DEF SweepRead
<1>4. ASSUME SweepWrite PROVE IInv'
  <2>1. InvoicesMove
    BY <1>4, <1>d DEF SweepWrite, InvoicesMove, InvoiceRow, InvoiceStatus
  <2> QED
    BY <1>4, <1>c, <2>1, UnchangedMoves DEF SweepWrite
<1>5. ASSUME NEW i \in Invoices
      PROVE  /\ StaleIntentCanceled(i) \in [Intents -> IntentRow]
             /\ \A n \in Intents :
                   /\ StaleIntentCanceled(i)[n].status = "absent" <=> intent[n].status = "absent"
                   /\ StaleIntentCanceled(i)[n].invoice = intent[n].invoice
                   /\ StaleIntentCanceled(i)[n].amount = intent[n].amount
  BY <1>d, <1>e DEF StaleIntentCanceled, IntentStatus, IntentRow, InvoiceRow
<1>6. ASSUME NEW i \in Invoices, NEW n \in Intents, PayInvoice(i, n) PROVE IInv'
  <2> DEFINE row == [status |-> "live", invoice |-> i, amount |-> Charge(AmountDue(i))]
  <2>1. row \in IntentRow /\ row.status # "absent" /\ row.invoice \in Invoices /\ row.amount > 0
    BY <1>6 DEF PayInvoice, IntentRow
  <2>2. intent' = [StaleIntentCanceled(i) EXCEPT ![n] = row]
    BY <1>6 DEF PayInvoice
  <2> HIDE DEF row
  <2>0. intent[n].status = "absent"
    BY <1>6 DEF PayInvoice
  <2>3. IntentsMove
    BY <1>5, <2>0, <2>1, <2>2 DEF IInv, Linked, IntentsMove
  <2>4. intent'[n].status # "absent" /\ intent'[n].invoice = i
    BY <1>5, <2>1, <2>2 DEF row
  <2>5. UNCHANGED invoice \/ invoice' = [invoice EXCEPT ![i].intent = n]
    BY <1>6 DEF PayInvoice
  <2>6. InvoicesMove
    BY <1>d, <2>4, <2>5 DEF InvoicesMove, InvoiceRow
  <2>7. lost' \in 0..MaxCommitFailures
    BY <1>6 DEF PayInvoice, IInv, TypeOK, CollectionTypeOK
  <2> QED
    BY <1>6, <1>c, <2>3, <2>6, <2>7, UnchangedMoves DEF PayInvoice
<1>7. ASSUME NEW i \in Invoices, PayInvoiceCreateFails(i) PROVE IInv'
  <2>1. IntentsMove
    BY <1>7, <1>5 DEF PayInvoiceCreateFails, IInv, Linked, IntentsMove
  <2> QED
    BY <1>7, <1>c, <2>1, UnchangedMoves DEF PayInvoiceCreateFails, ledgerVars
<1>8. ASSUME NEW i \in Invoices, NEW o \in Orders, PayInvoiceViaPaypal(i, o) PROVE IInv'
  <2>1. OrdersMove
    BY <1>8, <1>e DEF PayInvoiceViaPaypal, IInv, Linked, OrdersMove, OrderRow, OrderStatus
  <2> QED
    BY <1>8, <1>c, <2>1, UnchangedMoves DEF PayInvoiceViaPaypal, ledgerVars
<1>9. ASSUME NEW i \in Invoices, NEW o \in Orders, CaptureInvoicePaypalPayment(i, o) PROVE IInv'
  <2>1. PICK outcome \in CaptureOutcome(o), heard \in BOOLEAN :
          /\ order' = AfterCapture(o, outcome, heard)
          /\ \/ RecordCapture(i, o, outcome)
             \/ UNCHANGED <<invoice, payment, lost>>
             \/ /\ lost < MaxCommitFailures
                /\ lost' = lost + 1
                /\ UNCHANGED <<invoice, payment>>
    BY <1>9 DEF CaptureInvoicePaypalPayment
  <2>2. order[o].status # "absent" /\ order[o].amount > 0
    BY <1>9 DEF CaptureInvoicePaypalPayment, IInv, Linked
  <2>3. outcome \in OrderStatus
    BY <1>e, <2>1 DEF CaptureOutcome, OrderStatus, OrderRow
  <2>5. OrdersMove
    <3>1. order' \in [Orders -> OrderRow]
      BY <1>e, <2>1, <2>3, CaptureMovesOrder
    <3>2. /\ \A k \in Orders : k # o => order'[k] = order[k]
          /\ order'[o].invoice = order[o].invoice /\ order'[o].amount = order[o].amount
      BY <1>e, <2>1, <2>3, CaptureMovesOrder
    <3> QED
      BY <2>2, <3>1, <3>2 DEF IInv, Linked, OrdersMove
  <2>6. ASSUME RecordCapture(i, o, outcome) PROVE InvoicesMove /\ PaymentsMove
    <3>1. GoodPayment([status |-> CaptureStatus(outcome), invoice |-> i,
                       amount |-> order[o].amount]) /\ o \in PaymentIds
      BY <1>e, <2>2 DEF GoodPayment, CaptureStatus, PaymentRow, PaymentStatus, PaymentIds, OrderRow
    <3>2. PaymentsMove
      BY <2>6, <3>1, PaymentRewritten DEF RecordCapture
    <3>3. FlaggedIf(invoice[i], OrderMismatchesDue(i, o)) \in InvoiceRow
      BY <1>d, RowsKeepShape
    <3>4. CASE outcome = "held"
      BY <2>6, <3>2, <3>4, UnchangedMoves DEF RecordCapture
    <3>5. CASE outcome # "held"
      <4> DEFINE row == Settled(FlaggedIf(invoice[i], OrderMismatchesDue(i, o)),
                                PaidSoFar(i, payment', refund))
      <4>1. row \in InvoiceRow /\ row.intent = invoice[i].intent
        BY <1>d, <3>3, RowsKeepShape
      <4>2. invoice' = [invoice EXCEPT ![i] = row]
        BY <2>6, <3>5 DEF RecordCapture
      <4> QED
        BY <3>2, <4>1, <4>2, InvoiceRewritten
    <3> QED BY <3>4, <3>5
  <2>7. InvoicesMove /\ PaymentsMove
    BY <2>1, <2>6, UnchangedMoves
  <2>8. lost' \in 0..MaxCommitFailures
    BY <2>1 DEF RecordCapture, IInv, TypeOK, CollectionTypeOK
  <2> QED
    BY <1>9, <1>c, <2>5, <2>7, <2>8, UnchangedMoves DEF CaptureInvoicePaypalPayment
<1>10. ASSUME NEW n \in Intents, ConfirmIntent(n) \/ DeclineIntent(n) PROVE IInv'
  <2>1. IntentsMove
    BY <1>10, <1>e DEF ConfirmIntent, DeclineIntent, IInv, Linked, IntentsMove, IntentRow
  <2>2. inbox' \subseteq Events
    BY <1>10 DEF ConfirmIntent, DeclineIntent, Events, IInv, TypeOK, LedgerTypeOK
  <2> QED
    BY <1>10, <1>c, <2>1, <2>2, UnchangedMoves DEF ConfirmIntent, DeclineIntent
<1>11. ASSUME NEW e, Acked(e) PROVE inbox' \subseteq Events
  BY <1>11 DEF Acked, IInv, TypeOK, LedgerTypeOK
<1>12. ASSUME NEW n \in Intents, NEW kind, UnmatchedIntentEvent(n, kind) PROVE IInv'
  BY <1>12, <1>11, <1>c, UnchangedMoves DEF UnmatchedIntentEvent, collectionVars
<1>13. ASSUME NEW n \in Intents, NEW i \in InvoiceOf(n)
       PROVE  i \in Invoices /\ intent[n].amount \in Nat /\ intent[n].amount > 0 /\ n \in PaymentIds
  <2>1. i \in Invoices /\ invoice[i].intent = n /\ n # None /\ n \in PaymentIds
    BY DEF InvoiceOf, PaymentIds
  <2> QED
    BY <1>e, <2>1 DEF IInv, Linked, IntentRow
<1>14. ASSUME NEW n \in Intents, PaymentIntentSucceeded(n) PROVE IInv'
  <2>1. PICK i \in InvoiceOf(n) :
          /\ payment' = [payment EXCEPT ![n] =
                IF @.status = "absent"
                THEN [status |-> "succeeded", invoice |-> i, amount |-> intent[n].amount]
                ELSE [@ EXCEPT !.status = "succeeded"]]
          /\ invoice' = [invoice EXCEPT ![i] = AfterCardSuccess(i, payment')]
    BY <1>14 DEF PaymentIntentSucceeded
  <2> DEFINE row == IF payment[n].status = "absent"
                    THEN [status |-> "succeeded", invoice |-> i, amount |-> intent[n].amount]
                    ELSE [payment[n] EXCEPT !.status = "succeeded"]
  <2>2. payment' = [payment EXCEPT ![n] = row]
    BY <2>1
  <2>3. GoodPayment(row)
    BY <1>13, StatusRewriteIsGood DEF GoodPayment, PaymentRow, PaymentStatus
  <2> HIDE DEF row
  <2>4. PaymentsMove
    BY <1>13, <2>2, <2>3, PaymentRewritten
  <2>5. InvoicesMove
    <3>1. /\ Settled(invoice[i], PaidSoFar(i, payment', refund)) \in InvoiceRow
          /\ Settled(invoice[i], PaidSoFar(i, payment', refund)).intent = invoice[i].intent
      BY <1>d, <1>13, RowsKeepShape
    <3>2. /\ AfterCardSuccess(i, payment') \in InvoiceRow
          /\ AfterCardSuccess(i, payment').intent = invoice[i].intent
      BY <3>1, RowsKeepShape DEF AfterCardSuccess
    <3> QED
      BY <1>13, <2>1, <3>2, InvoiceRewritten
  <2> QED
    BY <1>14, <1>11, <1>c, <2>4, <2>5, UnchangedMoves DEF PaymentIntentSucceeded, collectionVars
<1>15. ASSUME NEW n \in Intents, PaymentIntentFailed(n) PROVE IInv'
  <2>1. PICK i \in InvoiceOf(n) :
           payment' = [payment EXCEPT ![n] =
                IF @.status = "absent"
                THEN [status |-> "failed", invoice |-> i, amount |-> intent[n].amount]
                ELSE IF MayFail(@) THEN [@ EXCEPT !.status = "failed"] ELSE @]
    BY <1>15 DEF PaymentIntentFailed
  <2> DEFINE row == IF payment[n].status = "absent"
                    THEN [status |-> "failed", invoice |-> i, amount |-> intent[n].amount]
                    ELSE IF MayFail(payment[n]) THEN [payment[n] EXCEPT !.status = "failed"]
                                                ELSE payment[n]
  <2>2. payment' = [payment EXCEPT ![n] = row]
    BY <2>1
  <2>3. GoodPayment(row)
    BY <1>13, StatusRewriteIsGood DEF GoodPayment, PaymentRow, PaymentStatus
  <2> HIDE DEF row
  <2>4. PaymentsMove
    BY <1>13, <2>2, <2>3, PaymentRewritten
  <2> QED
    BY <1>15, <1>11, <1>c, <2>4, UnchangedMoves DEF PaymentIntentFailed, collectionVars
<1>16. ASSUME NEW o \in Orders, ReviewEnds(o) PROVE IInv'
  <2>1. OrdersMove
    BY <1>16, <1>e DEF ReviewEnds, IInv, Linked, OrdersMove, OrderRow, OrderStatus
  <2> QED
    BY <1>16, <1>c, <2>1, UnchangedMoves DEF ReviewEnds, ledgerVars
<1>17. ASSUME NEW o \in Orders, ReconcilePaypalCapture(o) PROVE IInv'
  <2>1. o \in PaymentIds /\ payment[o].status # "absent" /\ payment[o].invoice \in Invoices
    BY <1>17 DEF ReconcilePaypalCapture, PaymentIds, IInv, TypeOK, LedgerTypeOK
  <2>2. PaymentsMove
    BY <1>17, <2>1, StatusRewriteIsGood, PaymentRewritten DEF ReconcilePaypalCapture, PaymentStatus
  <2>3. InvoicesMove
    <3>1. CASE UNCHANGED invoice
      BY <3>1, UnchangedMoves
    <3>2. CASE invoice' = [invoice EXCEPT ![payment[o].invoice] =
                              AfterReconciledCapture(payment[o].invoice, payment')]
      <4> DEFINE i == payment[o].invoice
                 flagged == FlaggedIf(invoice[i], PaidSoFar(i, payment', refund) > invoice[i].total)
      <4>1. flagged \in InvoiceRow /\ flagged.intent = invoice[i].intent
        BY <1>d, <2>1, RowsKeepShape
      <4>2. /\ AfterReconciledCapture(i, payment') \in InvoiceRow
            /\ AfterReconciledCapture(i, payment').intent = invoice[i].intent
        BY <4>1, RowsKeepShape DEF AfterReconciledCapture
      <4> QED
        BY <2>1, <3>2, <4>2, InvoiceRewritten
    <3> QED
      BY <1>17, <3>1, <3>2 DEF ReconcilePaypalCapture
  <2> QED
    BY <1>17, <1>c, <2>2, <2>3, UnchangedMoves DEF ReconcilePaypalCapture, collectionVars
<1> QED
  BY <1>1, <1>2, <1>3, <1>4, <1>6, <1>7, <1>8, <1>9, <1>10, <1>12, <1>14, <1>15, <1>16, <1>17,
     <1>18
  DEF CollectionNext

(***************************************************************************)
(* The actions of Refunding.                                               *)
(***************************************************************************)

\* A request that leaves or enters flight, with its question fixed.
LEMMA RequestRewritten ==
    ASSUME IInv, NEW q \in Requests, NEW row \in RequestRow, req' = [req EXCEPT ![q] = row],
           UNCHANGED ask,
           row.step # "idle" => /\ row.id \in RefundIds /\ row.amount > 0
                                /\ ask[row.id].payment \in PaymentIds
                                /\ payment[ask[row.id].payment].status # "absent",
           row.step = "answered" => row.status # "absent"
    PROVE  RequestsMove
  BY DEF IInv, Linked, TypeOK, RefundingTypeOK, RequestsMove

\* A refund request that ends, recorded or dropped, leaves the others in order.
LEMMA IdleMoves ==
    ASSUME IInv, NEW q \in Requests, req' = [req EXCEPT ![q] = Idle], UNCHANGED ask
    PROVE  RequestsMove
<1>1. Idle \in RequestRow /\ Idle.step = "idle"
  BY LedgerConstants DEF Idle, RequestRow, RefundStatus, PaymentStatus, InvoiceStatus
<1> QED BY <1>1, RequestRewritten

\* Every refund row keeps its payment; those written are good rows.
LEMMA RefundRewritten ==
    ASSUME IInv, NEW r \in RefundIds, NEW row \in RefundRow, refund' = [refund EXCEPT ![r] = row],
           row.status # "absent", row.amount > 0, row.payment \in PaymentIds,
           payment[row.payment].status # "absent"
    PROVE  RefundsMove
  BY DEF IInv, Linked, TypeOK, LedgerTypeOK, RefundsMove

\* Every action of Refunding keeps the invariant.
LEMMA RefundingKeepsIInv ==
    ASSUME IInv, RefundingNext, UNCHANGED collectionVars
    PROVE  IInv'
<1> USE LedgerConstants, CollectionConstants
<1>a. /\ IntentsMove /\ OrdersMove
      /\ sweep' \subseteq Invoices /\ lost' \in 0..MaxCommitFailures
  BY UnchangedMoves DEF collectionVars
<1>b. ASSUME InvoicesMove, PaymentsMove, RefundsMove, RequestsMove, SettlingMove, MovedMove,
             inbox' \subseteq Events
      PROVE  IInv'
  BY <1>a, <1>b, StepKeepsIInv
<1>c. /\ invoice \in [Invoices -> InvoiceRow] /\ payment \in [PaymentIds -> PaymentRow]
      /\ refund \in [RefundIds -> RefundRow] /\ inbox \subseteq Events
  BY DEF IInv, TypeOK, LedgerTypeOK
<1>d. /\ ask \in [RefundIds -> AskRow] /\ req \in [Requests -> RequestRow]
      /\ moved \in [RefundIds -> MovedRow] /\ settling \in [RefundIds -> SettlingRow]
  BY DEF IInv, TypeOK, RefundingTypeOK
<1>e. ASSUME NEW e, Acked(e) PROVE inbox' \subseteq Events
  BY <1>c, <1>e DEF Acked
<1>f. ASSUME NEW r \in RefundIds, Answer(r) PROVE inbox' \subseteq Events
  BY <1>c, <1>e, <1>f DEF Answer
<1>g. ASSUME NEW q \in Requests, req[q].step # "idle"
      PROVE  /\ req[q].id \in RefundIds /\ req[q].amount \in Nat /\ req[q].amount > 0
             /\ ask[req[q].id].payment \in PaymentIds
             /\ payment[ask[req[q].id].payment].status # "absent"
             /\ payment[ask[req[q].id].payment].invoice \in Invoices
             /\ req[q].step = "answered" => req[q].status \in RefundStatus \ {"absent"}
  BY <1>d, <1>g DEF IInv, Linked, TypeOK, LedgerTypeOK, RefundingTypeOK, RequestRow
<1>h. ASSUME NEW r \in RefundIds, refund[r].status # "absent"
      PROVE  /\ refund[r].payment \in PaymentIds /\ refund[r].amount > 0
             /\ payment[refund[r].payment].status # "absent"
             /\ payment[refund[r].payment].invoice \in Invoices
             /\ \A s \in RefundStatus : [refund[r] EXCEPT !.status = s] \in RefundRow
  BY <1>c, <1>h DEF IInv, Linked, TypeOK, LedgerTypeOK, RefundRow
<1>i. ASSUME NEW p \in PaymentIds, payment[p].status # "absent", NEW seen,
             NEW new \in {"partially_refunded", "refunded"}
      PROVE  GoodPayment(Written(payment[p], seen, new))
  BY <1>i, StatusRewriteIsGood DEF Written, PaymentStatus
<1>1. ASSUME NEW q \in Requests, NEW r \in RefundIds, RefundPayment(q, r) PROVE IInv'
  <2>1. PICK p \in PaymentIds, a \in Amounts \cup {0}, amount \in Nat \ {0} :
           /\ ask[r] \in {NoAsk, [payment |-> p, amount |-> a]}
           /\ Refundable(p)
           /\ ask' = [ask EXCEPT ![r] = [payment |-> p, amount |-> a]]
           /\ req' = [req EXCEPT ![q] =
                 [step |-> "validated", id |-> r, amount |-> amount,
                  status |-> "absent", seenPayment |-> payment[p].status,
                  seenInvoice |-> invoice[payment[p].invoice].status]]
    BY <1>1 DEF RefundPayment
  <2>2. payment[p].status # "absent" /\ payment[p].invoice \in Invoices
    BY <2>1 DEF Refundable, IInv, TypeOK, LedgerTypeOK
  <2>3. [payment |-> p, amount |-> a] \in AskRow
    BY DEF AskRow
  <2>4. [step |-> "validated", id |-> r, amount |-> amount,
         status |-> "absent", seenPayment |-> payment[p].status,
         seenInvoice |-> invoice[payment[p].invoice].status] \in RequestRow
    BY <1>c, <2>2 DEF RequestRow, RefundStatus, PaymentRow, InvoiceRow
  <2>5. ask' \in [RefundIds -> AskRow] /\ req' \in [Requests -> RequestRow]
    BY <1>d, <2>1, <2>3, <2>4
  <2>6. \A k \in Requests : req[k].step # "idle" =>
           ask'[req[k].id].payment = ask[req[k].id].payment
    BY <1>d, <1>g, <2>1 DEF NoAsk, PaymentIds
  <2>7. RequestsMove
    BY <1>d, <1>g, <2>1, <2>2, <2>5, <2>6 DEF RequestsMove
  <2> QED
    BY <1>1, <1>b, <2>7, UnchangedMoves DEF RefundPayment, ledgerVars
<1>k. ASSUME NEW q \in Requests, req[q].step # "idle", UNCHANGED ask,
             moved'[req[q].id].reply \in RefundStatus \ {"absent"}, Answered(q)
      PROVE  RequestsMove
  <2> DEFINE row == [req[q] EXCEPT !.step = "answered", !.status = moved'[req[q].id].reply]
  <2>0. req[q] \in RequestRow
    BY <1>d
  <2>1. row \in RequestRow /\ row.step = "answered" /\ row.id = req[q].id
        /\ row.amount = req[q].amount /\ row.status # "absent"
    BY <1>k, <2>0 DEF RequestRow
  <2>2. req' = [req EXCEPT ![q] = row]
    BY <1>k DEF Answered
  <2> HIDE DEF row
  <2> QED
    BY <1>g, <1>k, <2>1, <2>2, RequestRewritten
<1>2. ASSUME NEW q \in Requests, CallProvider(q) PROVE IInv'
  <2> DEFINE r == req[q].id
             charge == Charge(req[q].amount)
  <2>1. req[q].step # "idle" /\ r \in RefundIds /\ UNCHANGED <<ledgerVars, ask, settling>>
    BY <1>2, <1>g DEF CallProvider
  <2>2. charge \in Int
    BY <1>g, <2>1, ChargeIsInt
  <2>3. CASE /\ charge > 0
             /\ \E s \in {"pending", "succeeded", "failed"} :
                   moved' = [moved EXCEPT ![r] = [status |-> s, reply |-> s, amount |-> charge]]
             /\ Answered(q) \/ req' = [req EXCEPT ![q] = Idle]
    <3>1. PICK s \in {"pending", "succeeded", "failed"} :
             moved' = [moved EXCEPT ![r] = [status |-> s, reply |-> s, amount |-> charge]]
      BY <2>3
    <3>2. [status |-> s, reply |-> s, amount |-> charge] \in MovedRow
      BY <2>2, <2>3 DEF MovedRow, RefundStatus
    <3>3. MovedMove /\ moved'[r].reply \in RefundStatus \ {"absent"}
      BY <1>d, <2>1, <3>1, <3>2 DEF MovedMove, RefundStatus, IInv, Linked
    <3>4. ASSUME Answered(q) PROVE RequestsMove
      BY <1>k, <2>1, <3>3, <3>4
    <3>5. RequestsMove
      BY <2>1, <2>3, <3>4, IdleMoves
    <3> QED
      BY <1>b, <2>1, <3>3, <3>5, UnchangedMoves DEF ledgerVars
  <2>4. CASE moved[r].status # "absent" /\ UNCHANGED moved /\ Answered(q)
    <3>1. moved'[r].reply \in RefundStatus \ {"absent"}
      BY <1>d, <2>1, <2>4 DEF MovedRow, IInv, Linked
    <3> QED
      BY <1>k, <1>b, <2>1, <2>4, <3>1, UnchangedMoves DEF ledgerVars
  <2> QED
    BY <1>2, <2>3, <2>4 DEF CallProvider
<1>3. ASSUME NEW q \in Requests, DropRequest(q) PROVE IInv'
  BY <1>3, <1>b, IdleMoves, UnchangedMoves DEF DropRequest, ledgerVars
<1>4. ASSUME NEW q \in Requests, RecordRefund(q) PROVE IInv'
  <2> DEFINE r == req[q].id
             p == ask[r].payment
             i == payment[p].invoice
             s == Outcome(q)
             row == [status |-> s, payment |-> p, amount |-> req[q].amount]
  <2>1. req[q].step # "idle" /\ req' = [req EXCEPT ![q] = Idle]
        /\ UNCHANGED <<inbox, ask, moved, settling>>
    BY <1>4 DEF RecordRefund
  <2>2. RequestsMove
    BY <2>1, IdleMoves
  <2>3. CASE UNCHANGED <<refund, payment, invoice>>
    BY <1>b, <2>1, <2>2, <2>3, UnchangedMoves
  <2>4. CASE /\ refund' = [refund EXCEPT ![r] = row]
             /\ payment' = IF s = "succeeded"
                  THEN [payment EXCEPT ![p] =
                          Written(@, req[q].seenPayment, RefundedStatus(p, payment, refund'))]
                  ELSE payment
             /\ invoice' = IF s = "succeeded"
                  THEN [invoice EXCEPT ![i] =
                          AfterRefund(i, req[q].seenInvoice, payment, refund')]
                  ELSE invoice
    <3>1. row \in RefundRow /\ row.status # "absent"
      BY <1>g, <2>1 DEF Outcome, RefundRow, RefundStatus
    <3>2. RefundsMove
      BY <1>g, <2>1, <2>4, <3>1, RefundRewritten
    <3>3. CASE s = "succeeded"
      <4>1. GoodPayment(Written(payment[p], req[q].seenPayment, RefundedStatus(p, payment, refund')))
        BY <1>g, <1>i, <2>1, RefundedStatusIsRefunded
      <4>2. PaymentsMove
        BY <1>g, <2>1, <2>4, <3>3, <4>1, PaymentRewritten
      <4>3. i \in Invoices /\ invoice[i] \in InvoiceRow
        BY <1>c, <1>g, <2>1
      <4>4. invoice' = [invoice EXCEPT ![i] = AfterRefund(i, req[q].seenInvoice, payment, refund')]
        BY <2>4, <3>3
      <4>5. /\ AfterRefund(i, req[q].seenInvoice, payment, refund') \in InvoiceRow
            /\ AfterRefund(i, req[q].seenInvoice, payment, refund').intent = invoice[i].intent
        BY <4>3, AfterRefundKeepsShape
      <4>6. InvoicesMove
        BY <4>3, <4>4, <4>5, InvoiceRewritten
      <4> QED
        BY <1>b, <2>1, <2>2, <3>2, <4>2, <4>6, UnchangedMoves
    <3>4. CASE s # "succeeded"
      BY <1>b, <2>1, <2>2, <2>4, <3>2, <3>4, UnchangedMoves
    <3> QED BY <3>3, <3>4
  <2> QED
    BY <1>4, <2>3, <2>4 DEF RecordRefund
<1>5. ASSUME NEW r \in RefundIds, RefundResolves(r) PROVE IInv'
  <2>1. MovedMove
    BY <1>5, <1>d DEF RefundResolves, MovedMove, MovedRow, RefundStatus, IInv, Linked
  <2>2. inbox' \subseteq Events
    BY <1>5, <1>c DEF RefundResolves, Events
  <2> QED
    BY <1>5, <1>b, <2>1, <2>2, UnchangedMoves DEF RefundResolves
<1>6. ASSUME NEW r \in RefundIds, RefundEventIgnored(r) PROVE IInv'
  BY <1>6, <1>b, <1>e, UnchangedMoves DEF RefundEventIgnored, refundingVars
<1>7. ASSUME NEW r \in RefundIds, SettleFailed(r) PROVE IInv'
  <2>1. refund[r].status # "absent" /\ refund' = [refund EXCEPT ![r].status = "failed"]
    BY <1>7 DEF SettleFailed
  <2>2. RefundsMove
    BY <1>c, <1>h, <2>1, RefundRewritten DEF RefundRow, RefundStatus
  <2> QED
    BY <1>7, <1>b, <1>f, <2>2, UnchangedMoves DEF SettleFailed, refundingVars
<1>8. ASSUME NEW r \in RefundIds, SettlementSums(r) PROVE IInv'
  <2>1. refund[r].status # "absent"
    BY <1>8 DEF SettlementSums
  <2>2. PICK c \in {"partially_refunded", "refunded"} :
           settling' = [settling EXCEPT ![r] =
              [computed |-> c, seenPayment |-> payment[refund[r].payment].status]]
    BY <1>8, RefundedStatusIsRefunded DEF SettlementSums
  <2>3. [computed |-> c, seenPayment |-> payment[refund[r].payment].status] \in SettlingRow
    BY <1>c, <1>h, <2>1 DEF SettlingRow, PaymentRow, PaymentStatus
  <2>4. SettlingMove
    BY <1>d, <2>1, <2>2, <2>3 DEF IInv, Linked, SettlingMove
  <2> QED
    BY <1>8, <1>b, <2>4, UnchangedMoves DEF SettlementSums, ledgerVars
<1>9. ASSUME NEW r \in RefundIds, settling[r] # NotSettling,
             settling' = [settling EXCEPT ![r] = NotSettling]
      PROVE  SettlingMove
  <2>1. NotSettling \in SettlingRow
    BY DEF NotSettling, SettlingRow, PaymentStatus
  <2> QED
    BY <1>9, <1>d, <2>1 DEF IInv, Linked, SettlingMove
<1>10. ASSUME NEW r \in RefundIds, SettlementCommits(r) PROVE IInv'
  <2> DEFINE p == refund[r].payment
             i == payment[p].invoice
  <2>1. /\ settling[r] # NotSettling
        /\ refund' = [refund EXCEPT ![r].status = "succeeded"]
        /\ payment' = [payment EXCEPT ![p] =
              Written(@, settling[r].seenPayment, settling[r].computed)]
        /\ invoice' = [invoice EXCEPT ![i] = AfterRefund(i, invoice[i].status, payment, refund')]
        /\ settling' = [settling EXCEPT ![r] = NotSettling]
        /\ Answer(r)
        /\ UNCHANGED <<ask, req, moved>>
    BY <1>10 DEF SettlementCommits
  <2>2. refund[r].status # "absent" /\ settling[r].computed \in {"partially_refunded", "refunded"}
    BY <2>1 DEF IInv, Linked
  <2>3. RefundsMove
    BY <1>c, <1>h, <2>1, <2>2, RefundRewritten DEF RefundRow, RefundStatus
  <2>4. PaymentsMove
    BY <1>h, <1>i, <2>1, <2>2, PaymentRewritten
  <2>5. i \in Invoices /\ invoice[i] \in InvoiceRow
    BY <1>c, <1>h, <2>2
  <2>6. /\ AfterRefund(i, invoice[i].status, payment, refund') \in InvoiceRow
        /\ AfterRefund(i, invoice[i].status, payment, refund').intent = invoice[i].intent
    BY <2>5, AfterRefundKeepsShape
  <2>7. InvoicesMove
    BY <2>1, <2>5, <2>6, InvoiceRewritten
  <2> QED
    BY <1>b, <1>f, <1>9, <2>1, <2>3, <2>4, <2>7, UnchangedMoves
<1>11. ASSUME NEW r \in RefundIds, SettlementAborts(r) PROVE IInv'
  BY <1>11, <1>b, <1>9, UnchangedMoves DEF SettlementAborts, ledgerVars
<1> QED
  BY <1>1, <1>2, <1>3, <1>4, <1>5, <1>6, <1>7, <1>8, <1>10, <1>11 DEF RefundingNext

\* A step that changes nothing keeps the invariant.
LEMMA StutterKeepsIInv == ASSUME IInv, UNCHANGED vars PROVE IInv'
  BY DEF IInv, Linked, TypeOK, LedgerTypeOK, CollectionTypeOK, RefundingTypeOK,
     vars, ledgerVars, collectionVars, refundingVars

(* Every row, every request in flight and every provider record keeps its  *)
(* type, and what each points at exists, in every reachable state.         *)
THEOREM IInvHolds == Spec => []IInv
<1>1. ASSUME IInv, [Next]_vars PROVE IInv'
  BY <1>1, CollectionKeepsIInv, RefundingKeepsIInv, StutterKeepsIInv DEF Next
<1> QED BY InitIInv, <1>1, PTL DEF Spec

\* Every row, every refund request in flight, every settlement and every
\* provider record has its type in every reachable state.
THEOREM TypeCorrect == Spec => []TypeOK
<1>1. IInv => TypeOK
  BY DEF IInv
<1> QED BY IInvHolds, <1>1, PTL

=============================================================================
