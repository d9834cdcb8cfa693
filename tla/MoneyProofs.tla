----------------------------- MODULE MoneyProofs -----------------------------
(***************************************************************************)
(* How the ledger's amounts add up.                                        *)
(*                                                                         *)
(* A step writes at most one payment, or one refund and its payment, so    *)
(* that a sum over the rows changes by what that row adds (Sums).          *)
(* KindOfStep sorts the steps by what they do to the rows: nothing that    *)
(* counts (Quiet), a payment put aside (Sidelined) or received (Credited), *)
(* a refund that waits (Shelved) or has gone through (Booked).             *)
(*                                                                         *)
(* Standing is inductive and what all else rests on: money on the books is *)
(* backed (Backed), the books agree with the providers (Reconciled), rows  *)
(* point at rows that exist (Founded), and a settlement in flight has      *)
(* summed enough for what it is about to write (SumsStand).                *)
(* WithinReceipts adds that no provider, and no refund by hand, gives back *)
(* more than a payment brought.                                            *)
(***************************************************************************)
EXTENDS BackedProofs, Statistics

(***************************************************************************)
(* The sums, once each payment and each refund is put down for what it     *)
(* adds: nothing, if the sum leaves it out.                                *)
(***************************************************************************)
Ledgers == [PaymentIds -> PaymentRow]
Refunds == [RefundIds -> RefundRow]

TakenBack(p, R, statuses) ==
    [r \in RefundIds |-> IF R[r].payment = p /\ R[r].status \in statuses THEN R[r].amount ELSE 0]

Brought(i, P, R) ==
    [p \in PaymentIds |->
        IF P[p].invoice = i /\ P[p].status \in {"succeeded", "partially_refunded"}
        THEN NotRefunded(P, R)[p] ELSE 0]

\* What a payment's refunds reserve is the sum of what each takes back.
LEMMA RefundTotalIsSum ==
    ASSUME NEW p, NEW R \in Refunds, NEW statuses
    PROVE  /\ RefundTotal(p, R, statuses)
                 = SumFunctionOnSet(TakenBack(p, R, statuses), RefundIds)
           /\ RefundTotal(p, R, statuses) \in Nat
<1> DEFINE f == [r \in RefundIds |-> R[r].amount]
           T == {r \in RefundIds : R[r].payment = p /\ R[r].status \in statuses}
           g == [r \in RefundIds |-> IF r \in T THEN f[r] ELSE 0]
<1>1. IsFiniteSet(RefundIds) /\ IsFiniteSet(T) /\ T \in SUBSET RefundIds
  BY LedgerConstants, FS_Subset
<1>2. \A r \in RefundIds : f[r] \in Nat
  BY DEF Refunds, RefundRow
<1>3. g = TakenBack(p, R, statuses)
  BY DEF TakenBack
<1>4. RefundTotal(p, R, statuses) = SumFunctionOnSet(f, T)
  BY DEF RefundTotal
<1> HIDE DEF f, T
<1>5. SumFunctionOnSet(f, T) = SumFunctionOnSet(g, RefundIds)
  BY <1>1, <1>2, SumFiltered
<1>6. SumFunctionOnSet(f, T) \in Nat
  BY <1>1, <1>2, SumIsNat
<1> QED BY <1>3, <1>4, <1>5, <1>6

\* What was refunded of a payment, and what is reserved, is an amount.
LEMMA RefundedIsNat ==
    ASSUME NEW p, NEW R \in Refunds
    PROVE  RefundedSoFar(p, R) \in Nat /\ ReservedSoFar(p, R) \in Nat
  BY RefundTotalIsSum DEF RefundedSoFar, ReservedSoFar

\* What a payment still brings is an integer (a refund booked with fractions
\* of a minor unit may make it negative).
LEMMA NotRefundedIsInt ==
    ASSUME NEW P \in Ledgers, NEW R \in Refunds, NEW p \in PaymentIds
    PROVE  /\ NotRefunded(P, R)[p] = P[p].amount - RefundedSoFar(p, R)
           /\ NotRefunded(P, R)[p] \in Int
<1>1. RefundedSoFar(p, R) \in Nat /\ P[p].amount \in Nat
  BY RefundedIsNat DEF Ledgers, PaymentRow
<1> QED BY <1>1 DEF NotRefunded

\* What was paid towards an invoice is the sum of what each payment brought.
LEMMA PaidIsSum ==
    ASSUME NEW i, NEW P \in Ledgers, NEW R \in Refunds
    PROVE  /\ PaidSoFar(i, P, R) = SumFunctionOnSet(Brought(i, P, R), PaymentIds)
           /\ \A p \in PaymentIds : Brought(i, P, R)[p] \in Int
           /\ PaidSoFar(i, P, R) \in Int
<1> DEFINE f == NotRefunded(P, R)
           T == {p \in PaymentIds : /\ P[p].invoice = i
                                    /\ P[p].status \in {"succeeded", "partially_refunded"}}
           g == [p \in PaymentIds |-> IF p \in T THEN f[p] ELSE 0]
<1>1. IsFiniteSet(PaymentIds) /\ IsFiniteSet(T) /\ T \in SUBSET PaymentIds
  BY LedgerConstants, FS_Subset
<1>2. \A p \in PaymentIds : f[p] \in Int
  BY NotRefundedIsInt
<1>3. g = Brought(i, P, R)
  BY DEF Brought
<1>4. PaidSoFar(i, P, R) = SumFunctionOnSet(f, T)
  BY DEF PaidSoFar
<1>5. \A p \in PaymentIds : g[p] \in Int
  BY <1>2
<1> HIDE DEF f, T
<1>6. SumFunctionOnSet(f, T) = SumFunctionOnSet(g, PaymentIds)
  BY <1>1, <1>2, SumFiltered
<1>7. SumFunctionOnSet(f, T) \in Int
  BY <1>1, <1>2, SumIsInt
<1> QED BY <1>3, <1>4, <1>5, <1>6, <1>7

\* A payment credited to an invoice adds what it brings.
LEMMA PaidWithOneMore ==
    ASSUME NEW i, NEW P \in Ledgers, NEW Q \in Ledgers, NEW R \in Refunds, NEW p \in PaymentIds,
           \A x \in PaymentIds : x # p => Q[x] = P[x],
           Q[p].invoice = i, Q[p].status \in {"succeeded", "partially_refunded"},
           P[p].invoice # i \/ P[p].status \notin {"succeeded", "partially_refunded"}
    PROVE  PaidSoFar(i, Q, R) = PaidSoFar(i, P, R) + (Q[p].amount - RefundedSoFar(p, R))
<1> DEFINE f == Brought(i, P, R)
           g == Brought(i, Q, R)
<1>1. \A x \in PaymentIds : f[x] \in Int /\ g[x] \in Int
  BY PaidIsSum
<1>2. f[p] = 0 /\ g[p] = Q[p].amount - RefundedSoFar(p, R)
  BY NotRefundedIsInt DEF Brought
<1>3. \A x \in PaymentIds : x # p => g[x] = f[x]
  BY DEF Brought, NotRefunded
<1>4. /\ PaidSoFar(i, P, R) = SumFunctionOnSet(f, PaymentIds)
      /\ PaidSoFar(i, Q, R) = SumFunctionOnSet(g, PaymentIds)
      /\ PaidSoFar(i, P, R) \in Int
  BY PaidIsSum
<1> HIDE DEF f, g
<1>5. SumFunctionOnSet(g, PaymentIds) = SumFunctionOnSet(f, PaymentIds) - f[p] + g[p]
  BY <1>1, <1>3, LedgerConstants, SumChange
<1> QED BY <1>1, <1>2, <1>4, <1>5

-----------------------------------------------------------------------------
(***************************************************************************)
(* The kinds of steps there are for the rows of the ledger.                *)
(***************************************************************************)

\* An invoice row that exists is written again, and keeps what it holds.
Later(old, new) ==
    /\ old.status # "absent" /\ new.status # "absent"
    /\ new.total = old.total /\ new.intent = old.intent
    /\ old.paidAt # "unset" => new.paidAt # "unset"
    /\ old.review => new.review

Created(i) ==
    /\ invoice[i].status = "absent" /\ invoice'[i].status = "draft"
    /\ invoice'[i].total \in Totals
    /\ invoice'[i].intent = None /\ invoice'[i].paidAt = "unset"

\* The invoice lives on; no money is involved.
LivesOn(i) ==
    /\ invoice'[i].total = invoice[i].total
    /\ invoice'[i].paidAt = invoice[i].paidAt
    /\ invoice'[i].review = invoice[i].review
    /\ invoice'[i].intent = invoice[i].intent \/ \E n \in Intents : PayInvoice(i, n)
    /\ invoice[i].status = "absent" => invoice'[i] = invoice[i]
    /\ invoice[i].status # "absent" => invoice'[i].status # "absent"
    /\ invoice'[i].status # invoice[i].status => invoice'[i].status \notin {"paid", "refunded"}

Quiet ==
    /\ UNCHANGED <<payment, refund>>
    /\ \A i \in Invoices : Created(i) \/ LivesOn(i)
    /\ \A i \in Invoices : Created(i) => \A j \in Invoices : j # i => invoice'[j] = invoice[j]

\* A payment is put under review, or has failed.
Sidelined(p) ==
    /\ UNCHANGED <<invoice, refund>>
    /\ \A x \in PaymentIds : x # p => payment'[x] = payment[x]
    /\ payment[p].status # "succeeded" /\ payment'[p].status \in {"pending", "failed"}
    /\ payment'[p].status = "pending" =>
           payment[p].status = "absent" /\ ~HasPendingPayment(payment'[p].invoice)
    /\ payment'[p].invoice \in Invoices /\ invoice[payment'[p].invoice].status # "absent"
    /\ payment[p].status # "absent" => /\ payment'[p].invoice = payment[p].invoice
                                       /\ payment'[p].amount = payment[p].amount

\* A payment counts as received, and the invoice is looked at again.
Credited(p, i) ==
    LET paid == PaidSoFar(i, payment', refund)
    IN  /\ UNCHANGED refund
        /\ \A x \in PaymentIds : x # p => payment'[x] = payment[x]
        /\ payment'[p].status = "succeeded" /\ payment'[p].invoice = i
        /\ payment[p].status # "absent" => /\ payment[p].invoice = i
                                           /\ payment'[p].amount = payment[p].amount
        /\ \A j \in Invoices : j # i => invoice'[j] = invoice[j]
        /\ Later(invoice[i], invoice'[i])
        /\ invoice'[i].paidAt # invoice[i].paidAt => paid >= invoice[i].total
        /\ invoice'[i].status # invoice[i].status =>
               invoice'[i].status = "paid" /\ paid >= invoice[i].total
        /\ IsProviderPayment(p) /\ payment[p].status # "succeeded" /\ paid > invoice[i].total
               => invoice'[i].review

\* A refund has gone through.
Booked(r, p, i) ==
    /\ p \in PaymentIds /\ payment[p].status # "absent" /\ payment[p].invoice = i
    /\ refund[r].status \in {"absent", "pending"} /\ refund'[r].status = "succeeded"
    /\ refund'[r].payment = p
    /\ refund[r].status = "pending" => /\ refund[r].payment = p
                                       /\ refund'[r].amount = refund[r].amount
    /\ \A x \in RefundIds : x # r => refund'[x] = refund[x]
    /\ \A x \in PaymentIds : x # p => payment'[x] = payment[x]
    /\ payment'[p].invoice = payment[p].invoice /\ payment'[p].amount = payment[p].amount
    /\ payment'[p].status # payment[p].status =>
           /\ payment'[p].status \in {"partially_refunded", "refunded"}
           /\ payment'[p].status = "refunded" => RefundedSoFar(p, refund') >= payment[p].amount
    /\ ~IsProviderPayment(p) =>
           refund[r].status = "absent" /\ refund'[r].amount <= Remaining(p, refund)
    /\ \A j \in Invoices : j # i => invoice'[j] = invoice[j]
    /\ Later(invoice[i], invoice'[i])
    /\ invoice'[i].paidAt = invoice[i].paidAt
    /\ invoice'[i].status # invoice[i].status =>
           /\ invoice'[i].status = "refunded"
           /\ RefundedOnInvoice(i, payment, refund') >= invoice[i].total

\* A refund waits for its provider, or was given up.
Shelved(r) ==
    /\ UNCHANGED <<invoice, payment>>
    /\ \A x \in RefundIds : x # r => refund'[x] = refund[x]
    /\ \/ refund[r].status = "absent" /\ refund'[r].status \in {"pending", "failed"}
       \/ /\ refund[r].status = "pending" /\ refund'[r].status = "failed"
          /\ refund'[r].payment = refund[r].payment /\ refund'[r].amount = refund[r].amount

\* A settlement in flight that will call its payment refunded has summed
\* enough to say so, whatever is committed before it is.
Going(r) == [refund EXCEPT ![r].status = "succeeded"]

SumsStand ==
    \A r \in RefundIds : settling[r].computed = "refunded" =>
        RefundedSoFar(refund[r].payment, Going(r)) >= payment[refund[r].payment].amount

\* What a row points at has been created, and what has not been is blank.
Founded ==
    /\ \A i \in Invoices : invoice[i].status = "absent" =>
           invoice[i].intent = None /\ invoice[i].total = 0 /\ invoice[i].paidAt = "unset"
    /\ \A p \in PaymentIds : payment[p].status # "absent" =>
           invoice[payment[p].invoice].status # "absent"
    /\ \A i \in sweep : invoice[i].status # "absent"

\* Settling, flagging and refunding write a later row.
LEMMA RowsGrow ==
    ASSUME NEW row \in InvoiceRow, row.status # "absent", NEW paid, NEW reason
    PROVE  /\ Later(row, Settled(row, paid))
           /\ Settled(row, paid).paidAt # row.paidAt => paid >= row.total
           /\ Settled(row, paid).status # row.status =>
                  Settled(row, paid).status = "paid" /\ paid >= row.total
           /\ Settled(row, paid).review = row.review
           /\ Later(row, FlaggedIf(row, reason))
           /\ FlaggedIf(row, reason).paidAt = row.paidAt
           /\ FlaggedIf(row, reason).status = row.status
           /\ reason => FlaggedIf(row, reason).review
<1>1. /\ Later(row, Settled(row, paid))
      /\ Settled(row, paid).paidAt # row.paidAt => paid >= row.total
      /\ Settled(row, paid).status # row.status =>
             Settled(row, paid).status = "paid" /\ paid >= row.total
      /\ Settled(row, paid).review = row.review
  BY DEF Settled, InvoiceRow, Later
<1>2. FlaggedIf(row, reason).review = (row.review \/ reason)
  BY DEF FlaggedIf, InvoiceRow
<1>3. /\ FlaggedIf(row, reason).paidAt = row.paidAt
      /\ FlaggedIf(row, reason).status = row.status
      /\ FlaggedIf(row, reason).total = row.total
      /\ FlaggedIf(row, reason).intent = row.intent
  BY DEF FlaggedIf, InvoiceRow
<1>4. row.review => FlaggedIf(row, reason).review
  BY <1>2, Zenon
<1>5. reason => FlaggedIf(row, reason).review
  BY <1>2, Zenon
<1> QED BY <1>1, <1>3, <1>4, <1>5 DEF Later

\* A row later than a later one is later.
LEMMA LaterIsTransitive ==
    ASSUME NEW a, NEW b, NEW c, Later(a, b), Later(b, c) PROVE Later(a, c)
  BY DEF Later

\* Recording a refund writes a later row, refunded only if the sum says so.
LEMMA AfterRefundGrows ==
    ASSUME NEW i \in Invoices, invoice[i] \in InvoiceRow, invoice[i].status # "absent",
           NEW s, NEW P, NEW R
    PROVE  /\ Later(invoice[i], AfterRefund(i, s, P, R))
           /\ AfterRefund(i, s, P, R).paidAt = invoice[i].paidAt
           /\ AfterRefund(i, s, P, R).status # invoice[i].status =>
                  /\ AfterRefund(i, s, P, R).status = "refunded"
                  /\ RefundedOnInvoice(i, P, R) >= invoice[i].total
  BY DEF AfterRefund, InvoiceRow, Later

-----------------------------------------------------------------------------
\* A step of Collection leaves the payments alone, sidelines one or credits
\* one; refunds it never touches.
LEMMA KindsOfCollection ==
    ASSUME IInv, Backed, Founded, CollectionNext, UNCHANGED <<refund, refundingVars>>
    PROVE  \/ Quiet
           \/ \E p \in PaymentIds : Sidelined(p)
           \/ \E p \in PaymentIds, i \in Invoices : Credited(p, i)
<1> USE LedgerConstants, CollectionConstants
<1> DEFINE Goal == \/ Quiet
                   \/ \E p \in PaymentIds : Sidelined(p)
                   \/ \E p \in PaymentIds, i \in Invoices : Credited(p, i)
<1>a. /\ invoice \in [Invoices -> InvoiceRow] /\ payment \in [PaymentIds -> PaymentRow]
      /\ refund \in [RefundIds -> RefundRow]
  BY DEF IInv, TypeOK, LedgerTypeOK
<1>b. intent \in [Intents -> IntentRow] /\ order \in [Orders -> OrderRow] /\ sweep \subseteq Invoices
  BY DEF IInv, TypeOK, CollectionTypeOK
<1>c. UNCHANGED refund
  OBVIOUS
<1>d. payment' \in [PaymentIds -> PaymentRow]
  BY CollectionKeepsIInv DEF IInv, TypeOK, LedgerTypeOK
<1>q. ASSUME UNCHANGED payment, \A i \in Invoices : LivesOn(i) PROVE Goal
  BY <1>c, <1>q DEF Quiet, Created, LivesOn
<1>u. ASSUME UNCHANGED <<invoice, payment>> PROVE Goal
  BY <1>c, <1>q, <1>u DEF LivesOn
<1> HIDE DEF Goal
<1>1. ASSUME NEW i \in Invoices, CreateInvoice(i) PROVE Goal
  <2>1. PICK t \in Totals, unresolved \in TaxOutcomes :
           invoice' = [invoice EXCEPT ![i] = [NoInvoice EXCEPT
                           !.status = "draft", !.total = t, !.review = unresolved]]
    BY <1>1 DEF CreateInvoice
  <2>2. Created(i)
    BY <1>1, <1>a, <2>1 DEF CreateInvoice, Created, NoInvoice
  <2>3. \A j \in Invoices : j # i => invoice'[j] = invoice[j] /\ LivesOn(j) /\ ~Created(j)
    BY <1>a, <2>1 DEF LivesOn, Created
  <2> QED BY <1>1, <1>c, <2>2, <2>3 DEF CreateInvoice, Quiet, Goal
<1>2. ASSUME NEW i \in Invoices, NEW s \in {"void", "sent"}, invoice[i].status # "absent",
             invoice' = [invoice EXCEPT ![i].status = s], UNCHANGED payment
      PROVE  Goal
  BY <1>2, <1>a, <1>q DEF LivesOn, InvoiceRow
<1>3. ASSUME NEW i \in Invoices, NEW acknowledged, VoidInvoice(i) \/ SendInvoice(i, acknowledged)
      PROVE  Goal
  <2>1. PICK s \in {"void", "sent"} :
           invoice' = [invoice EXCEPT ![i].status = s] /\ UNCHANGED payment
    BY <1>3 DEF VoidInvoice, SendInvoice
  <2>2. invoice[i].status # "absent"
    BY <1>3 DEF VoidInvoice, SendInvoice, Payable
  <2> QED BY <1>2, <2>1, <2>2
<1>4. ASSUME NEW i \in Invoices, NEW m \in ManualPayments, NEW a \in Amounts,
             RecordManualPayment(i, m, a)
      PROVE  Goal
  <2> DEFINE paid == PaidSoFar(i, payment', refund)
  <2>1. /\ payment[m].status = "absent" /\ m \in PaymentIds /\ invoice[i].status # "absent"
        /\ payment' = [payment EXCEPT ![m] =
                           [status |-> "succeeded", invoice |-> i, amount |-> a]]
        /\ invoice' = [invoice EXCEPT ![i] = Settled(invoice[i], paid)]
    BY <1>4 DEF RecordManualPayment, PaymentIds, Payable
  <2>2. /\ payment'[m].status = "succeeded" /\ payment'[m].invoice = i
        /\ \A x \in PaymentIds : x # m => payment'[x] = payment[x]
    BY <1>a, <2>1
  <2> HIDE DEF paid
  <2>3. /\ invoice'[i] = Settled(invoice[i], paid)
        /\ \A j \in Invoices : j # i => invoice'[j] = invoice[j]
    BY <1>a, <2>1
  <2>4. ~IsProviderPayment(m)
    BY DEF IsProviderPayment
  <2>5. invoice[i] \in InvoiceRow
    BY <1>a
  <2>6. Credited(m, i)
    BY <1>c, <2>1, <2>2, <2>3, <2>4, <2>5, RowsGrow DEF Credited, paid
  <2> QED BY <2>1, <2>6 DEF Goal
<1>5. ASSUME SweepWrite PROVE Goal
  <2>1. \A i \in sweep : invoice[i].status # "absent"
    BY DEF Founded
  <2> QED BY <1>5, <1>a, <1>b, <1>q, <2>1 DEF SweepWrite, LivesOn, InvoiceRow
<1>6. ASSUME NEW i \in Invoices, NEW n \in Intents, PayInvoice(i, n) PROVE Goal
  <2>1. invoice[i].status # "absent"
    BY <1>6 DEF PayInvoice, MayStartPayment, Payable
  <2>2. UNCHANGED invoice \/ invoice' = [invoice EXCEPT ![i].intent = n]
    BY <1>6 DEF PayInvoice
  <2>3. \A j \in Invoices : LivesOn(j)
    BY <1>6, <1>a, <2>1, <2>2 DEF LivesOn, InvoiceRow
  <2> QED BY <1>6, <1>q, <2>3 DEF PayInvoice
<1>7. ASSUME NEW i \in Invoices, NEW o \in Orders, CaptureInvoicePaypalPayment(i, o) PROVE Goal
  <2>1. PICK outcome \in CaptureOutcome(o) :
           \/ IsRecorded(i, o, outcome) /\ RecordCapture(i, o, outcome)
           \/ UNCHANGED <<invoice, payment>>
    BY <1>7 DEF CaptureInvoicePaypalPayment
  <2>2. CASE IsRecorded(i, o, outcome) /\ RecordCapture(i, o, outcome)
    <3>1. /\ payment[o].status = "absent" /\ o \in PaymentIds /\ invoice[i].status # "absent"
          /\ payment' = [payment EXCEPT ![o] =
               [status |-> CaptureStatus(outcome), invoice |-> i, amount |-> order[o].amount]]
      BY <1>7, <2>2 DEF IsRecorded, RecordCapture, PaymentIds, CaptureInvoicePaypalPayment, Payable
    <3>2. /\ payment'[o].status = CaptureStatus(outcome) /\ payment'[o].invoice = i
          /\ payment'[o].amount = order[o].amount
          /\ \A x \in PaymentIds : x # o => payment'[x] = payment[x]
      BY <1>a, <3>1
    <3>3. CASE outcome = "held"
      <4>1. ~HasPendingPayment(i)
        BY <1>7, <3>1 DEF CaptureInvoicePaypalPayment, MayCapture
      <4>2. Sidelined(o)
        BY <1>c, <2>2, <3>1, <3>2, <3>3, <4>1 DEF Sidelined, RecordCapture, CaptureStatus
      <4> QED BY <3>1, <4>2 DEF Goal
    <3>4. CASE outcome # "held"
      <4> DEFINE paid == PaidSoFar(i, payment', refund)
                 mismatch == OrderMismatchesDue(i, o)
                 flagged == FlaggedIf(invoice[i], mismatch)
      <4>1. invoice' = [invoice EXCEPT ![i] = Settled(flagged, paid)]
        BY <2>2, <3>4 DEF RecordCapture
      <4>2. ~mismatch => paid = invoice[i].total
        <5>1. PaidSoFar(i, payment', refund)
                = PaidSoFar(i, payment, refund) + (order[o].amount - RefundedSoFar(o, refund))
          <6>1. payment \in Ledgers /\ payment' \in Ledgers /\ refund \in Refunds
            BY <1>a, <1>d DEF Ledgers, Refunds
          <6>2. /\ payment'[o].status \in {"succeeded", "partially_refunded"}
                /\ payment[o].status \notin {"succeeded", "partially_refunded"}
            BY <3>1, <3>2, <3>4 DEF CaptureStatus
          <6>3. o \in PaymentIds /\ payment'[o].invoice = i
                /\ \A x \in PaymentIds : x # o => payment'[x] = payment[x]
            BY <3>1, <3>2
          <6>4. PaidSoFar(i, payment', refund)
                  = PaidSoFar(i, payment, refund) + (payment'[o].amount - RefundedSoFar(o, refund))
            BY <6>1, <6>2, <6>3, PaidWithOneMore
          <6> QED BY <3>2, <6>4
        <5>2. RefundedSoFar(o, refund) = 0
          <6>1. \A r \in RefundIds : refund[r].status = "succeeded" => refund[r].payment # o
            BY <3>1 DEF IInv, Linked
          <6> DEFINE T == {r \in RefundIds : refund[r].payment = o
                                             /\ refund[r].status \in {"succeeded"}}
          <6>2. T = {}
            BY <6>1
          <6> QED BY <6>2, SumEmpty DEF RefundedSoFar, RefundTotal
        <5>3. PaidSoFar(i, payment, refund) \in Int /\ invoice[i].total \in Nat
              /\ order[o].amount \in Nat
          BY <1>a, <1>b, PaidIsSum DEF InvoiceRow, OrderRow, Ledgers, Refunds
        <5> QED BY <5>1, <5>2, <5>3 DEF OrderMismatchesDue, AmountDue
      <4> HIDE DEF paid, mismatch
      <4>3. invoice[i] \in InvoiceRow
        BY <1>a
      <4>4. flagged \in InvoiceRow
        BY <4>3, RowsKeepShape
      <4>5. /\ Later(invoice[i], flagged) /\ flagged.paidAt = invoice[i].paidAt
            /\ flagged.status = invoice[i].status
            /\ mismatch => flagged.review
        BY <3>1, <4>3, RowsGrow
      <4> HIDE DEF flagged
      <4>6. flagged.status # "absent" /\ flagged.total = invoice[i].total
        BY <4>5 DEF Later
      <4>7. /\ invoice'[i] = Settled(flagged, paid)
            /\ \A j \in Invoices : j # i => invoice'[j] = invoice[j]
        BY <1>a, <4>1
      <4>8. /\ Later(flagged, invoice'[i])
            /\ invoice'[i].paidAt # flagged.paidAt => paid >= flagged.total
            /\ invoice'[i].status # flagged.status =>
                   invoice'[i].status = "paid" /\ paid >= flagged.total
            /\ invoice'[i].review = flagged.review
        BY <4>4, <4>6, <4>7, RowsGrow
      <4>9. Later(invoice[i], invoice'[i])
        BY <4>5, <4>8, LaterIsTransitive
      <4>10. paid > invoice[i].total => invoice'[i].review
        <5>1. invoice[i].total \in Nat
          BY <4>3 DEF InvoiceRow
        <5>2. ~mismatch => ~(paid > invoice[i].total)
          BY <4>2, <5>1
        <5>3. mismatch => flagged.review
          BY <4>5
        <5>4. invoice'[i].review = flagged.review
          BY <4>8
        <5> QED BY <5>2, <5>3, <5>4
      <4>11. Credited(o, i)
        <5>1. paid = PaidSoFar(i, payment', refund)
          BY DEF paid
        <5>2. payment'[o].status = "succeeded" /\ payment'[o].invoice = i
              /\ payment[o].status = "absent"
          BY <3>1, <3>2, <3>4 DEF CaptureStatus
        <5>3. /\ invoice'[i].paidAt # invoice[i].paidAt => paid >= invoice[i].total
              /\ invoice'[i].status # invoice[i].status =>
                     invoice'[i].status = "paid" /\ paid >= invoice[i].total
          BY <4>5, <4>6, <4>8
        <5> QED BY <1>c, <3>2, <4>7, <4>9, <4>10, <5>1, <5>2, <5>3 DEF Credited
      <4> QED BY <3>1, <4>11 DEF Goal
    <3> QED BY <3>3, <3>4
  <2> QED BY <1>u, <2>1, <2>2
<1>8. ASSUME NEW n \in Intents, NEW i \in InvoiceOf(n)
      PROVE  /\ i \in Invoices /\ n \in PaymentIds /\ invoice[i].status # "absent"
             /\ payment[n].status # "absent" => payment[n].invoice = i
  <2>1. i \in Invoices /\ invoice[i].intent = n /\ n # None /\ n \in PaymentIds
    BY DEF InvoiceOf, PaymentIds
  <2>2. intent[n].invoice = i
    BY <2>1 DEF IInv, Linked
  <2>3. payment[n].status # "absent" => payment[n].invoice = i
    BY <2>1, <2>2 DEF Backed, Matches
  <2> QED BY <2>1, <2>3 DEF Founded
<1>9. ASSUME NEW n \in Intents, PaymentIntentSucceeded(n) PROVE Goal
  <2>1. PICK i \in InvoiceOf(n) :
          /\ payment' = [payment EXCEPT ![n] =
                IF @.status = "absent"
                THEN [status |-> "succeeded", invoice |-> i, amount |-> intent[n].amount]
                ELSE [@ EXCEPT !.status = "succeeded"]]
          /\ invoice' = [invoice EXCEPT ![i] = AfterCardSuccess(i, payment')]
    BY <1>9 DEF PaymentIntentSucceeded
  <2>2. /\ i \in Invoices /\ n \in PaymentIds /\ invoice[i].status # "absent"
        /\ payment[n].status # "absent" => payment[n].invoice = i
    BY <1>8
  <2>3. /\ payment'[n].status = "succeeded" /\ payment'[n].invoice = i
        /\ payment[n].status # "absent" => payment'[n].amount = payment[n].amount
        /\ \A x \in PaymentIds : x # n => payment'[x] = payment[x]
    BY <1>a, <2>1, <2>2 DEF PaymentRow
  <2> DEFINE paid == PaidSoFar(i, payment', refund)
             settled == Settled(invoice[i], paid)
             flagged == FlaggedIf(settled, HasPendingPayment(i))
             over == paid > invoice[i].total
  <2>4. invoice' = [invoice EXCEPT ![i] = FlaggedIf(flagged, over)]
    BY <2>1 DEF AfterCardSuccess
  <2>5. invoice[i] \in InvoiceRow
    BY <1>a, <2>2
  <2> HIDE DEF paid, over
  <2>6. /\ settled \in InvoiceRow /\ Later(invoice[i], settled)
        /\ settled.paidAt # invoice[i].paidAt => paid >= invoice[i].total
        /\ settled.status # invoice[i].status => settled.status = "paid" /\ paid >= invoice[i].total
    BY <2>2, <2>5, RowsKeepShape, RowsGrow
  <2> HIDE DEF settled
  <2>7. settled.status # "absent"
    BY <2>6 DEF Later
  <2>8. /\ flagged \in InvoiceRow /\ Later(settled, flagged)
        /\ flagged.paidAt = settled.paidAt /\ flagged.status = settled.status
    BY <2>6, <2>7, RowsKeepShape, RowsGrow
  <2> HIDE DEF flagged
  <2>9. flagged.status # "absent"
    BY <2>8 DEF Later
  <2>10. /\ invoice'[i] = FlaggedIf(flagged, over)
         /\ \A j \in Invoices : j # i => invoice'[j] = invoice[j]
    BY <1>a, <2>2, <2>4
  <2>11. /\ Later(flagged, invoice'[i])
         /\ invoice'[i].paidAt = flagged.paidAt /\ invoice'[i].status = flagged.status
         /\ over => invoice'[i].review
    BY <2>8, <2>9, <2>10, RowsGrow
  <2>12. Later(invoice[i], invoice'[i])
    BY <2>6, <2>8, <2>11, LaterIsTransitive
  <2>13. Credited(n, i)
    BY <1>c, <2>2, <2>3, <2>6, <2>8, <2>10, <2>11, <2>12 DEF Credited, paid, over
  <2> QED BY <2>2, <2>13 DEF Goal
<1>10. ASSUME NEW n \in Intents, PaymentIntentFailed(n) PROVE Goal
  <2>1. PICK i \in InvoiceOf(n) :
           payment' = [payment EXCEPT ![n] =
                IF @.status = "absent"
                THEN [status |-> "failed", invoice |-> i, amount |-> intent[n].amount]
                ELSE IF MayFail(@) THEN [@ EXCEPT !.status = "failed"] ELSE @]
    BY <1>10 DEF PaymentIntentFailed
  <2>2. /\ i \in Invoices /\ n \in PaymentIds /\ invoice[i].status # "absent"
        /\ payment[n].status # "absent" => payment[n].invoice = i
    BY <1>8
  <2>3. UNCHANGED invoice
    BY <1>10 DEF PaymentIntentFailed
  <2>4. CASE payment[n].status = "succeeded"
    <3>1. payment' = payment
      BY <1>a, <2>1, <2>2, <2>4 DEF MayFail
    <3> QED BY <1>u, <2>3, <3>1
  <2>5. CASE payment[n].status # "succeeded"
    <3>1. /\ payment'[n].status = "failed" /\ payment'[n].invoice = i
          /\ payment[n].status # "absent" => payment'[n].amount = payment[n].amount
          /\ \A x \in PaymentIds : x # n => payment'[x] = payment[x]
      BY <1>a, <2>1, <2>2, <2>5 DEF PaymentRow, MayFail
    <3>2. Sidelined(n)
      BY <1>c, <2>2, <2>3, <2>5, <3>1 DEF Sidelined
    <3> QED BY <2>2, <3>2 DEF Goal
  <2> QED BY <2>4, <2>5
<1>11. ASSUME NEW o \in Orders, ReconcilePaypalCapture(o) PROVE Goal
  <2> DEFINE i == payment[o].invoice
  <2>1. /\ o \in PaymentIds /\ payment[o].status = "pending" /\ i \in Invoices
        /\ invoice[i].status # "absent" /\ payment[o] \in PaymentRow
    BY <1>11, <1>a DEF ReconcilePaypalCapture, PaymentIds, IInv, TypeOK, LedgerTypeOK, Founded
  <2>2. CASE payment' = [payment EXCEPT ![o].status = "failed"] /\ UNCHANGED invoice
    <3>1. /\ payment'[o].status = "failed" /\ payment'[o].invoice = i
          /\ payment'[o].amount = payment[o].amount
          /\ \A x \in PaymentIds : x # o => payment'[x] = payment[x]
      BY <1>a, <2>1, <2>2 DEF PaymentRow
    <3>2. Sidelined(o)
      BY <1>c, <2>1, <2>2, <3>1 DEF Sidelined
    <3> QED BY <2>1, <3>2 DEF Goal
  <2>3. CASE /\ payment' = [payment EXCEPT ![o].status = "succeeded"]
             /\ invoice' = [invoice EXCEPT ![i] = AfterReconciledCapture(i, payment')]
    <3>1. /\ payment'[o].status = "succeeded" /\ payment'[o].invoice = i
          /\ payment'[o].amount = payment[o].amount
          /\ \A x \in PaymentIds : x # o => payment'[x] = payment[x]
      BY <1>a, <2>1, <2>3 DEF PaymentRow
    <3> DEFINE paid == PaidSoFar(i, payment', refund)
               over == paid > invoice[i].total
               flagged == FlaggedIf(invoice[i], over)
    <3>2. invoice' = [invoice EXCEPT ![i] = Settled(flagged, paid)]
      BY <2>3 DEF AfterReconciledCapture
    <3>3. invoice[i] \in InvoiceRow
      BY <1>a, <2>1
    <3> HIDE DEF paid, over
    <3>4. /\ flagged \in InvoiceRow /\ Later(invoice[i], flagged)
          /\ flagged.paidAt = invoice[i].paidAt
          /\ flagged.status = invoice[i].status
          /\ over => flagged.review
      BY <2>1, <3>3, RowsKeepShape, RowsGrow
    <3> HIDE DEF flagged
    <3>5. flagged.status # "absent" /\ flagged.total = invoice[i].total
      BY <3>4 DEF Later
    <3>6. /\ invoice'[i] = Settled(flagged, paid)
          /\ \A j \in Invoices : j # i => invoice'[j] = invoice[j]
      BY <1>a, <2>1, <3>2
    <3>7. /\ Later(flagged, invoice'[i])
          /\ invoice'[i].paidAt # flagged.paidAt => paid >= flagged.total
          /\ invoice'[i].status # flagged.status =>
                 invoice'[i].status = "paid" /\ paid >= flagged.total
          /\ invoice'[i].review = flagged.review
      BY <3>4, <3>5, <3>6, RowsGrow
    <3>8. Later(invoice[i], invoice'[i])
      BY <3>4, <3>7, LaterIsTransitive
    <3> HIDE DEF i
    <3>9. Credited(o, i)
      BY <1>c, <2>1, <3>1, <3>4, <3>5, <3>6, <3>7, <3>8 DEF Credited, paid, over, i
    <3> QED BY <2>1, <3>9 DEF Goal
  <2> QED BY <1>11, <2>2, <2>3 DEF ReconcilePaypalCapture
<1>12. ASSUME NEW i \in Invoices, NEW o \in Orders, PayInvoiceViaPaypal(i, o) PROVE Goal
  BY <1>12, <1>u DEF PayInvoiceViaPaypal, ledgerVars
<1>13. ASSUME NEW i \in Invoices, PayInvoiceCreateFails(i) PROVE Goal
  BY <1>13, <1>u DEF PayInvoiceCreateFails, ledgerVars
<1>14. ASSUME NEW due \in SUBSET Invoices, SweepRead(due) PROVE Goal
  BY <1>14, <1>u DEF SweepRead
<1>15. ASSUME NEW n \in Intents, NEW kind,
              ConfirmIntent(n) \/ DeclineIntent(n) \/ UnmatchedIntentEvent(n, kind)
       PROVE  Goal
  BY <1>15, <1>u DEF ConfirmIntent, DeclineIntent, UnmatchedIntentEvent
<1>16. ASSUME NEW o \in Orders, ReviewEnds(o) PROVE Goal
  BY <1>16, <1>u DEF ReviewEnds, ledgerVars
<1>17. Goal
  BY <1>1, <1>3, <1>4, <1>5, <1>6, <1>7, <1>9, <1>10, <1>11, <1>12, <1>13, <1>14, <1>15, <1>16
  DEF CollectionNext
<1> QED BY <1>17 DEF Goal

\* A step of Refunding leaves the rows alone, lets a refund wait or fail, or
\* books one.
LEMMA KindsOfRefunding ==
    ASSUME IInv, Reconciled, Founded, SumsStand, RefundingNext
    PROVE  \/ UNCHANGED <<invoice, payment, refund>>
           \/ \E r \in RefundIds : Shelved(r)
           \/ \E r \in RefundIds, p \in PaymentIds, i \in Invoices : Booked(r, p, i)
<1> USE LedgerConstants
<1> DEFINE Goal == \/ UNCHANGED <<invoice, payment, refund>>
                   \/ \E r \in RefundIds : Shelved(r)
                   \/ \E r \in RefundIds, p \in PaymentIds, i \in Invoices : Booked(r, p, i)
<1>a. /\ invoice \in [Invoices -> InvoiceRow] /\ payment \in [PaymentIds -> PaymentRow]
      /\ refund \in [RefundIds -> RefundRow]
  BY DEF IInv, TypeOK, LedgerTypeOK
<1>b. ASSUME NEW p \in PaymentIds, payment[p].status # "absent"
      PROVE  /\ payment[p].invoice \in Invoices
             /\ invoice[payment[p].invoice] \in InvoiceRow
             /\ invoice[payment[p].invoice].status # "absent"
  BY <1>a, <1>b DEF IInv, TypeOK, LedgerTypeOK, Founded
<1>c. ASSUME NEW p \in PaymentIds, NEW seen, NEW new \in {"partially_refunded", "refunded"},
             payment' = [payment EXCEPT ![p] = Written(@, seen, new)]
      PROVE  /\ \A x \in PaymentIds : x # p => payment'[x] = payment[x]
             /\ payment'[p].invoice = payment[p].invoice /\ payment'[p].amount = payment[p].amount
             /\ payment'[p].status # payment[p].status => payment'[p].status = new
  <2>1. \A x \in PaymentIds : x # p => payment'[x] = payment[x]
    BY <1>a, <1>c
  <2>2. payment'[p] = payment[p] \/ payment'[p] = [payment[p] EXCEPT !.status = new]
    BY <1>a, <1>c DEF Written
  <2>3. payment[p] \in PaymentRow
    BY <1>a
  <2> QED BY <2>1, <2>2, <2>3 DEF PaymentRow
<1> HIDE DEF Goal
<1>1. ASSUME UNCHANGED <<invoice, payment, refund>> PROVE Goal
  BY <1>1 DEF Goal
<1>2. ASSUME NEW q \in Requests,
             \/ CallProvider(q) \/ DropRequest(q)
             \/ \E r \in RefundIds : RefundPayment(q, r)
      PROVE  Goal
  BY <1>1, <1>2 DEF RefundPayment, CallProvider, DropRequest, ledgerVars
<1>7. ASSUME NEW r \in RefundIds,
             \/ RefundResolves(r) \/ RefundEventIgnored(r)
             \/ SettlementSums(r) \/ SettlementAborts(r)
      PROVE  Goal
  BY <1>1, <1>7
  DEF RefundResolves, RefundEventIgnored, SettlementSums, SettlementAborts, ledgerVars
<1>3. ASSUME NEW q \in Requests, RecordRefund(q) PROVE Goal
  <2> DEFINE r == req[q].id
             p == ask[r].payment
             i == payment[p].invoice
             s == Outcome(q)
             row == [status |-> s, payment |-> p, amount |-> req[q].amount]
  <2>1. /\ r \in RefundIds /\ p \in PaymentIds /\ payment[p].status # "absent"
        /\ req[q].step # "idle" /\ s \in {"pending", "succeeded", "failed"}
        /\ ~IsProviderPayment(p) => s = "succeeded"
    BY <1>3 DEF RecordRefund, IInv, Linked, TypeOK, RefundingTypeOK, RequestRow, RefundStatus,
       Outcome
  <2>2. i \in Invoices /\ invoice[i] \in InvoiceRow /\ invoice[i].status # "absent"
    BY <1>b, <2>1
  <2>3. row.status = s /\ row.payment = p /\ row.amount = req[q].amount
    OBVIOUS
  <2>4. CASE UNCHANGED <<refund, payment, invoice>>
    BY <1>1, <2>4
  <2>5. CASE /\ refund[r].status = "absent" /\ StillFits(q, p)
             /\ refund' = [refund EXCEPT ![r] = row]
             /\ s # "succeeded" /\ UNCHANGED <<payment, invoice>>
    <3> HIDE DEF row, s
    <3>1. refund'[r] = row /\ \A x \in RefundIds : x # r => refund'[x] = refund[x]
      BY <1>a, <2>1, <2>5
    <3>2. Shelved(r)
      BY <2>1, <2>3, <2>5, <3>1 DEF Shelved
    <3> QED BY <2>1, <3>2 DEF Goal
  <2>6. CASE /\ refund[r].status = "absent" /\ StillFits(q, p)
             /\ refund' = [refund EXCEPT ![r] = row]
             /\ s = "succeeded"
             /\ payment' = [payment EXCEPT ![p] =
                      Written(@, req[q].seenPayment, RefundedStatus(p, payment, refund'))]
             /\ invoice' = [invoice EXCEPT ![i] =
                      AfterRefund(i, req[q].seenInvoice, payment, refund')]
    <3> DEFINE new == RefundedStatus(p, payment, refund')
               after == AfterRefund(i, req[q].seenInvoice, payment, refund')
    <3> HIDE DEF row, s
    <3>1. refund'[r] = row /\ \A x \in RefundIds : x # r => refund'[x] = refund[x]
      BY <1>a, <2>1, <2>6
    <3>2. /\ new \in {"partially_refunded", "refunded"}
          /\ new = "refunded" => RefundedSoFar(p, refund') >= payment[p].amount
      BY DEF RefundedStatus
    <3> HIDE DEF new
    <3>3. /\ \A x \in PaymentIds : x # p => payment'[x] = payment[x]
          /\ payment'[p].invoice = payment[p].invoice /\ payment'[p].amount = payment[p].amount
          /\ payment'[p].status # payment[p].status => payment'[p].status = new
      BY <1>c, <2>1, <2>6, <3>2 DEF new
    <3>4. /\ Later(invoice[i], after) /\ after.paidAt = invoice[i].paidAt
          /\ after.status # invoice[i].status =>
                 /\ after.status = "refunded"
                 /\ RefundedOnInvoice(i, payment, refund') >= invoice[i].total
      <4> HIDE DEF i
      <4> QED BY <2>2, AfterRefundGrows
    <3>5. invoice' = [invoice EXCEPT ![i] = after]
      BY <2>6
    <3> HIDE DEF after
    <3>6. invoice'[i] = after /\ \A j \in Invoices : j # i => invoice'[j] = invoice[j]
      BY <1>a, <2>2, <3>5
    <3>7. ~IsProviderPayment(p) => req[q].amount <= Remaining(p, refund)
      BY <2>6 DEF StillFits
    <3>8. /\ payment'[p].status # payment[p].status =>
                /\ payment'[p].status \in {"partially_refunded", "refunded"}
                /\ payment'[p].status = "refunded" => RefundedSoFar(p, refund') >= payment[p].amount
          /\ refund'[r].status = "succeeded" /\ refund'[r].payment = p
          /\ refund'[r].amount = req[q].amount /\ refund[r].status = "absent"
      BY <2>3, <2>6, <3>1, <3>2, <3>3
    <3>9. Booked(r, p, i)
      BY <2>1, <3>1, <3>3, <3>4, <3>6, <3>7, <3>8 DEF Booked
    <3> QED BY <2>1, <2>2, <3>9 DEF Goal
  <2>7. \/ UNCHANGED <<refund, payment, invoice>>
        \/ /\ refund[r].status = "absent" /\ StillFits(q, p)
           /\ refund' = [refund EXCEPT ![r] = row]
           /\ s # "succeeded" /\ UNCHANGED <<payment, invoice>>
        \/ /\ refund[r].status = "absent" /\ StillFits(q, p)
           /\ refund' = [refund EXCEPT ![r] = row]
           /\ s = "succeeded"
           /\ payment' = [payment EXCEPT ![p] =
                    Written(@, req[q].seenPayment, RefundedStatus(p, payment, refund'))]
           /\ invoice' = [invoice EXCEPT ![i] =
                    AfterRefund(i, req[q].seenInvoice, payment, refund')]
    BY <1>3 DEF RecordRefund
  <2> QED BY <2>4, <2>5, <2>6, <2>7
<1>4. ASSUME NEW r \in RefundIds, SettleFailed(r) PROVE Goal
  <2>1. /\ refund' = [refund EXCEPT ![r].status = "failed"]
        /\ refund[r].status = "pending" /\ UNCHANGED <<invoice, payment>>
    BY <1>4 DEF SettleFailed
  <2>2. /\ refund'[r].status = "failed" /\ refund'[r].payment = refund[r].payment
        /\ refund'[r].amount = refund[r].amount
        /\ \A x \in RefundIds : x # r => refund'[x] = refund[x]
    BY <1>a, <2>1 DEF RefundRow
  <2>3. Shelved(r)
    BY <2>1, <2>2 DEF Shelved
  <2> QED BY <2>3 DEF Goal
<1>5. ASSUME NEW r \in RefundIds, SettlementCommits(r) PROVE Goal
  <2> DEFINE p == refund[r].payment
             i == payment[p].invoice
  <2>1. /\ settling[r] # NotSettling
        /\ refund' = Going(r)
        /\ payment' = [payment EXCEPT ![p] =
              Written(@, settling[r].seenPayment, settling[r].computed)]
        /\ invoice' = [invoice EXCEPT ![i] = AfterRefund(i, invoice[i].status, payment, refund')]
    BY <1>5 DEF SettlementCommits, Going
  <2>2. /\ refund[r].status = "pending" /\ IsProviderPayment(p)
        /\ p \in PaymentIds /\ payment[p].status # "absent"
        /\ settling[r].computed \in {"partially_refunded", "refunded"}
    BY <2>1 DEF Reconciled, IInv, Linked, TypeOK, LedgerTypeOK
  <2>3. i \in Invoices /\ invoice[i] \in InvoiceRow /\ invoice[i].status # "absent"
    BY <1>b, <2>2
  <2>4. /\ refund'[r].status = "succeeded" /\ refund'[r].payment = p
        /\ refund'[r].amount = refund[r].amount
        /\ \A x \in RefundIds : x # r => refund'[x] = refund[x]
    BY <1>a, <2>1 DEF RefundRow, Going
  <2> DEFINE new == settling[r].computed
             after == AfterRefund(i, invoice[i].status, payment, refund')
  <2>5. new = "refunded" => RefundedSoFar(p, refund') >= payment[p].amount
    BY <2>1 DEF SumsStand
  <2>6. /\ \A x \in PaymentIds : x # p => payment'[x] = payment[x]
        /\ payment'[p].invoice = payment[p].invoice /\ payment'[p].amount = payment[p].amount
        /\ payment'[p].status # payment[p].status => payment'[p].status = new
    BY <1>c, <2>1, <2>2
  <2>7. /\ Later(invoice[i], after) /\ after.paidAt = invoice[i].paidAt
        /\ after.status # invoice[i].status =>
               /\ after.status = "refunded"
               /\ RefundedOnInvoice(i, payment, refund') >= invoice[i].total
    BY <2>3, AfterRefundGrows
  <2>8. invoice' = [invoice EXCEPT ![i] = after]
    BY <2>1
  <2> HIDE DEF after
  <2>9. invoice'[i] = after /\ \A j \in Invoices : j # i => invoice'[j] = invoice[j]
    BY <1>a, <2>3, <2>8
  <2>10. Booked(r, p, i)
    BY <2>2, <2>4, <2>5, <2>6, <2>7, <2>9 DEF Booked
  <2> QED BY <2>2, <2>3, <2>10 DEF Goal
<1>6. Goal
  BY <1>2, <1>3, <1>4, <1>5, <1>7 DEF RefundingNext
<1> QED BY <1>6 DEF Goal

-----------------------------------------------------------------------------
(***************************************************************************)
(* The invariant the kinds of steps rest on.                               *)
(***************************************************************************)
Standing == IInv /\ Backed /\ Reconciled /\ Founded /\ SumsStand

\* What is on the books stays on the books.
RowsStand ==
    /\ \A i \in Invoices : invoice[i].status # "absent" =>
           /\ invoice'[i].status # "absent" /\ invoice'[i].total = invoice[i].total
           /\ invoice[i].paidAt # "unset" => invoice'[i].paidAt # "unset"
    /\ \A p \in PaymentIds : payment[p].status # "absent" =>
           /\ payment'[p].status # "absent" /\ payment'[p].invoice = payment[p].invoice
           /\ payment'[p].amount = payment[p].amount
    /\ \A r \in RefundIds : refund[r].status # "absent" =>
           /\ refund'[r].status # "absent" /\ refund'[r].payment = refund[r].payment
           /\ refund'[r].amount = refund[r].amount
           /\ refund[r].status = "succeeded" => refund'[r].status = "succeeded"

\* Every step is of one of these kinds.
LEMMA KindOfStep ==
    ASSUME Standing, [Next]_vars
    PROVE  \/ Quiet
           \/ \E p \in PaymentIds : Sidelined(p)
           \/ \E p \in PaymentIds, i \in Invoices : Credited(p, i)
           \/ \E r \in RefundIds : Shelved(r)
           \/ \E r \in RefundIds, p \in PaymentIds, i \in Invoices : Booked(r, p, i)
<1>1. ASSUME UNCHANGED <<invoice, payment, refund>> PROVE Quiet
  BY <1>1 DEF Quiet, LivesOn, Created
<1>2. CASE CollectionNext /\ UNCHANGED <<refund, refundingVars>>
  BY <1>2, KindsOfCollection DEF Standing
<1>3. CASE RefundingNext
  BY <1>1, <1>3, KindsOfRefunding DEF Standing
<1>4. CASE UNCHANGED vars
  BY <1>1, <1>4 DEF vars, ledgerVars
<1> QED BY <1>2, <1>3, <1>4 DEF Next

\* None of them takes a row off the books.
LEMMA NothingVanishes == ASSUME Standing, [Next]_vars PROVE RowsStand
<1>a. /\ \A p \in PaymentIds : payment[p].status \in PaymentStatus
      /\ \A r \in RefundIds : refund[r].status \in RefundStatus
  BY DEF Standing, IInv, TypeOK, LedgerTypeOK, PaymentRow, RefundRow
<1>1. CASE Quiet
  BY <1>1 DEF Quiet, Created, LivesOn, RowsStand
<1>2. ASSUME NEW p \in PaymentIds, Sidelined(p) PROVE RowsStand
  BY <1>2 DEF Sidelined, RowsStand
<1>3. ASSUME NEW p \in PaymentIds, NEW i \in Invoices, Credited(p, i) PROVE RowsStand
  BY <1>3 DEF Credited, Later, RowsStand
<1>4. ASSUME NEW r \in RefundIds, Shelved(r) PROVE RowsStand
  BY <1>4 DEF Shelved, RowsStand
<1>5. ASSUME NEW r \in RefundIds, NEW p \in PaymentIds, NEW i \in Invoices, Booked(r, p, i)
      PROVE  RowsStand
  <2>1. \A x \in PaymentIds : payment[x].status # "absent" =>
           /\ payment'[x].status # "absent" /\ payment'[x].invoice = payment[x].invoice
           /\ payment'[x].amount = payment[x].amount
    BY <1>5 DEF Booked
  <2>2. \A x \in RefundIds : refund[x].status # "absent" =>
           /\ refund'[x].status # "absent" /\ refund'[x].payment = refund[x].payment
           /\ refund'[x].amount = refund[x].amount
           /\ refund[x].status = "succeeded" => refund'[x].status = "succeeded"
    BY <1>5 DEF Booked
  <2>3. \A j \in Invoices : invoice[j].status # "absent" =>
           /\ invoice'[j].status # "absent" /\ invoice'[j].total = invoice[j].total
           /\ invoice[j].paidAt # "unset" => invoice'[j].paidAt # "unset"
    BY <1>5 DEF Booked, Later
  <2> QED BY <2>1, <2>2, <2>3 DEF RowsStand
<1> QED BY <1>1, <1>2, <1>3, <1>4, <1>5, KindOfStep

\* The empty tables are founded, and nothing is in flight.
THEOREM InitStanding == Init => Standing
  BY InitIInv, InitBacked, InitReconciled
  DEF Init, LedgerInit, CollectionInit, RefundingInit, Standing, Founded, SumsStand, NoInvoice,
      NoPayment, NotSettling

\* Every step keeps what rows point at on the books.
LEMMA NextKeepsFounded == ASSUME Standing, [Next]_vars PROVE Founded'
<1>1. RowsStand
  BY NothingVanishes
<1>2. /\ \A p \in PaymentIds : payment[p].status # "absent" =>
             payment[p].invoice \in Invoices /\ invoice[payment[p].invoice].status # "absent"
      /\ sweep \subseteq Invoices
  BY DEF Standing, Founded, IInv, TypeOK, LedgerTypeOK, CollectionTypeOK
<1>3. ASSUME NEW i \in Invoices, invoice'[i].status = "absent"
      PROVE  invoice'[i] = invoice[i]
  <2>1. invoice[i].status = "absent"
    BY <1>1, <1>3 DEF RowsStand
  <2>2. CASE Quiet
    BY <1>3, <2>1, <2>2 DEF Quiet, Created, LivesOn
  <2>3. ASSUME NEW p \in PaymentIds, Sidelined(p) PROVE invoice'[i] = invoice[i]
    BY <2>3 DEF Sidelined
  <2>4. ASSUME NEW p \in PaymentIds, NEW j \in Invoices, Credited(p, j)
        PROVE  invoice'[i] = invoice[i]
    BY <1>3, <2>4 DEF Credited, Later
  <2>5. ASSUME NEW r \in RefundIds, Shelved(r) PROVE invoice'[i] = invoice[i]
    BY <2>5 DEF Shelved
  <2>6. ASSUME NEW r \in RefundIds, NEW p \in PaymentIds, NEW j \in Invoices, Booked(r, p, j)
        PROVE  invoice'[i] = invoice[i]
    BY <1>3, <2>6 DEF Booked, Later
  <2> QED BY <2>2, <2>3, <2>4, <2>5, <2>6, KindOfStep
<1>4. ASSUME NEW p \in PaymentIds, payment'[p].status # "absent"
      PROVE  invoice'[payment'[p].invoice].status # "absent"
  <2>1. CASE payment[p].status # "absent"
    BY <1>1, <1>2, <2>1 DEF RowsStand
  <2>2. CASE payment[p].status = "absent"
    <3>1. ASSUME NEW x \in PaymentIds, Sidelined(x)
          PROVE  invoice'[payment'[p].invoice].status # "absent"
      BY <1>4, <2>2, <3>1 DEF Sidelined
    <3>2. ASSUME NEW x \in PaymentIds, NEW j \in Invoices, Credited(x, j)
          PROVE  invoice'[payment'[p].invoice].status # "absent"
      BY <1>4, <2>2, <3>2 DEF Credited, Later
    <3>3. ASSUME NEW r \in RefundIds, NEW x \in PaymentIds, NEW j \in Invoices, Booked(r, x, j)
          PROVE  payment'[p] = payment[p]
      BY <2>2, <3>3 DEF Booked
    <3> QED BY <1>4, <2>2, <3>1, <3>2, <3>3, KindOfStep DEF Quiet, Shelved
  <2> QED BY <2>1, <2>2
<1>5. ASSUME NEW i \in sweep' PROVE i \in Invoices /\ invoice[i].status # "absent"
  <2>1. sweep' \subseteq sweep \/ \A j \in sweep' : j \in Invoices /\ invoice[j].status = "sent"
    <3>1. CASE CollectionNext
      <4>1. ASSUME NEW due \in SUBSET Invoices, SweepRead(due)
            PROVE  \A j \in sweep' : j \in Invoices /\ invoice[j].status = "sent"
        BY <4>1 DEF SweepRead
      <4>2. CASE SweepWrite
        BY <4>2 DEF SweepWrite
      <4> QED BY <3>1, <4>1, <4>2
        DEF CollectionNext, CreateInvoice, VoidInvoice, SendInvoice, RecordManualPayment,
            PayInvoice, PayInvoiceCreateFails, PayInvoiceViaPaypal, CaptureInvoicePaypalPayment,
            ConfirmIntent, DeclineIntent, PaymentIntentSucceeded, PaymentIntentFailed,
            UnmatchedIntentEvent, ReviewEnds, ReconcilePaypalCapture, collectionVars
    <3> QED BY <3>1 DEF Next, vars, collectionVars
  <2> QED BY <1>2, <1>5, <2>1 DEF Standing, Founded
<1>6. \A i \in sweep' : invoice'[i].status # "absent"
  BY <1>1, <1>5 DEF RowsStand
<1> QED BY <1>3, <1>4, <1>6 DEF Founded, Standing

\* Refunds that go through stay: what was refunded never shrinks.
LEMMA RefundedGrows ==
    ASSUME NEW p, NEW R \in Refunds, NEW Q \in Refunds,
           \A r \in RefundIds : R[r].status = "succeeded" =>
               Q[r].status = "succeeded" /\ Q[r].payment = R[r].payment /\ Q[r].amount = R[r].amount
    PROVE  RefundedSoFar(p, R) <= RefundedSoFar(p, Q)
<1> DEFINE f == TakenBack(p, R, {"succeeded"})
           g == TakenBack(p, Q, {"succeeded"})
<1>1. \A r \in RefundIds : f[r] \in Int /\ g[r] \in Int /\ f[r] <= g[r]
  BY DEF TakenBack, Refunds, RefundRow
<1>2. /\ RefundedSoFar(p, R) = SumFunctionOnSet(f, RefundIds)
      /\ RefundedSoFar(p, Q) = SumFunctionOnSet(g, RefundIds)
  BY RefundTotalIsSum DEF RefundedSoFar
<1> HIDE DEF f, g
<1> QED BY <1>1, <1>2, LedgerConstants, SumMonotone

\* A settlement that is in flight after a step has just summed, or nothing
\* has happened to its refund.
LEMMA SettlingMoves ==
    ASSUME Standing, [Next]_vars, NEW r \in RefundIds, settling'[r].computed = "refunded"
    PROVE  \/ settling[r] = settling'[r] /\ refund'[r] = refund[r]
           \/ /\ UNCHANGED <<refund, payment>>
              /\ RefundedSoFar(refund[r].payment, Going(r)) >= payment[refund[r].payment].amount
<1>a. /\ refund \in [RefundIds -> RefundRow] /\ settling \in [RefundIds -> SettlingRow]
  BY DEF Standing, IInv, TypeOK, LedgerTypeOK, RefundingTypeOK
<1>b. settling[r] # NotSettling => refund[r].status = "pending"
  BY DEF Standing, Reconciled
<1>c. settling'[r] # NotSettling
  BY DEF NotSettling
<1>1. ASSUME UNCHANGED <<refund, settling>> PROVE settling[r] = settling'[r] /\ refund'[r] = refund[r]
  BY <1>1
<1>2. ASSUME NEW q \in Requests, RecordRefund(q)
      PROVE  settling[r] = settling'[r] /\ refund'[r] = refund[r]
  <2>1. UNCHANGED settling
    BY <1>2 DEF RecordRefund
  <2>2. refund[r].status = "pending"
    BY <1>b, <1>c, <2>1
  <2> DEFINE row == [status |-> Outcome(q), payment |-> ask[req[q].id].payment,
                     amount |-> req[q].amount]
  <2>3. \/ UNCHANGED refund
        \/ refund[req[q].id].status = "absent" /\ refund' = [refund EXCEPT ![req[q].id] = row]
    BY <1>2 DEF RecordRefund
  <2> HIDE DEF row
  <2> QED BY <1>a, <2>1, <2>2, <2>3
<1>3. ASSUME NEW x \in RefundIds, SettleFailed(x)
      PROVE  settling[r] = settling'[r] /\ refund'[r] = refund[r]
  BY <1>3, <1>a, <1>c DEF SettleFailed, refundingVars
<1>4. ASSUME NEW x \in RefundIds, SettlementCommits(x)
      PROVE  settling[r] = settling'[r] /\ refund'[r] = refund[r]
  BY <1>4, <1>a, <1>c DEF SettlementCommits
<1>5. ASSUME NEW x \in RefundIds, SettlementAborts(x)
      PROVE  settling[r] = settling'[r] /\ refund'[r] = refund[r]
  BY <1>5, <1>a, <1>c DEF SettlementAborts, ledgerVars
<1>6. ASSUME NEW x \in RefundIds, SettlementSums(x)
      PROVE  \/ settling[r] = settling'[r] /\ refund'[r] = refund[r]
             \/ /\ UNCHANGED <<refund, payment>>
                /\ RefundedSoFar(refund[r].payment, Going(r)) >= payment[refund[r].payment].amount
  <2>1. UNCHANGED <<refund, payment>>
    BY <1>6 DEF SettlementSums, ledgerVars
  <2> DEFINE computed == RefundedStatus(refund[x].payment, payment, Going(x))
  <2>2. settling' = [settling EXCEPT ![x] =
              [computed |-> computed, seenPayment |-> payment[refund[x].payment].status]]
    BY <1>6 DEF SettlementSums, Going
  <2> HIDE DEF computed
  <2>3. CASE x # r
    BY <1>a, <2>1, <2>2, <2>3
  <2>4. CASE x = r
    <3>1. computed = "refunded"
      BY <1>a, <2>2, <2>4
    <3> QED BY <2>1, <2>4, <3>1 DEF computed, RefundedStatus
  <2> QED BY <2>3, <2>4
<1>7. CASE CollectionNext /\ UNCHANGED <<refund, refundingVars>>
  BY <1>1, <1>7 DEF refundingVars
<1>8. CASE UNCHANGED vars
  BY <1>1, <1>8 DEF vars, ledgerVars, refundingVars
<1>9. CASE RefundingNext
  BY <1>1, <1>2, <1>3, <1>4, <1>5, <1>6, <1>9
  DEF RefundingNext, RefundPayment, CallProvider, DropRequest, RefundResolves,
      RefundEventIgnored, ledgerVars, refundingVars
<1> QED BY <1>7, <1>8, <1>9 DEF Next

\* No commit takes away what a settlement has summed.
LEMMA NextKeepsSums == ASSUME Standing, IInv', [Next]_vars PROVE SumsStand'
<1>1. RowsStand
  BY NothingVanishes
<1>2. refund \in Refunds /\ refund' \in Refunds
  BY DEF Standing, IInv, TypeOK, LedgerTypeOK, Refunds
<1>3. ASSUME NEW r \in RefundIds, settling'[r].computed = "refunded"
      PROVE  RefundedSoFar(refund[r].payment, Going(r))' >= payment'[refund'[r].payment].amount
  <2>1. CASE settling[r] = settling'[r] /\ refund'[r] = refund[r]
    <3> DEFINE p == refund[r].payment
    <3>1. refund[r].status # "absent" /\ p \in PaymentIds /\ payment[p].status # "absent"
      BY <1>3, <2>1 DEF Standing, Reconciled, IInv, Linked, TypeOK, LedgerTypeOK, NotSettling
    <3>2. refund'[r].payment = p /\ payment'[p].amount = payment[p].amount
      BY <1>1, <2>1, <3>1 DEF RowsStand
    <3> DEFINE R == Going(r)
               Q == [refund' EXCEPT ![r].status = "succeeded"]
    <3>3. R \in Refunds /\ Q \in Refunds
      BY <1>2 DEF Going, Refunds, RefundRow, RefundStatus
    <3>4. ASSUME NEW x \in RefundIds, R[x].status = "succeeded"
          PROVE  /\ Q[x].status = "succeeded" /\ Q[x].payment = R[x].payment
                 /\ Q[x].amount = R[x].amount
      <4>1. CASE x = r
        BY <1>2, <2>1, <4>1 DEF Going, Refunds, RefundRow
      <4>2. CASE x # r
        <5>1. R[x] = refund[x] /\ Q[x] = refund'[x]
          BY <1>2, <4>2 DEF Going, Refunds
        <5> QED BY <1>1, <3>4, <5>1 DEF RowsStand
      <4> QED BY <4>1, <4>2
    <3>5. Going(r)' = Q
      BY DEF Going
    <3>6. RefundedSoFar(p, R) >= payment[p].amount
      BY <1>3, <2>1 DEF Standing, SumsStand
    <3>7. payment[p].amount \in Nat
      BY <3>1 DEF Standing, IInv, TypeOK, LedgerTypeOK, PaymentRow
    <3> HIDE DEF R, Q, p
    <3>8. RefundedSoFar(p, R) <= RefundedSoFar(p, Q)
      BY <3>3, <3>4, RefundedGrows
    <3>9. RefundedSoFar(p, R) \in Nat /\ RefundedSoFar(p, Q) \in Nat
      BY <3>3, RefundedIsNat
    <3>10. RefundedSoFar(p, Q) >= payment'[p].amount
      BY <3>2, <3>6, <3>7, <3>8, <3>9
    <3>11. RefundedSoFar(refund[r].payment, Going(r))' = RefundedSoFar(p, Q)
      BY <3>2, <3>5 DEF RefundedSoFar, RefundTotal
    <3> QED BY <3>2, <3>10, <3>11
  <2>2. CASE /\ UNCHANGED <<refund, payment>>
             /\ RefundedSoFar(refund[r].payment, Going(r)) >= payment[refund[r].payment].amount
    BY <2>2 DEF RefundedSoFar, RefundTotal, Going
  <2> QED BY <1>3, <2>1, <2>2, SettlingMoves
<1> QED BY <1>3 DEF SumsStand

\* Every step keeps all of it.
LEMMA NextKeepsStanding == ASSUME Standing, [Next]_vars PROVE Standing'
<1>1. Backed'
  BY NextKeepsBacked DEF Standing
<1>2. Reconciled'
  BY NextKeepsReconciled DEF Standing
<1>3. IInv'
  BY CollectionKeepsIInv, RefundingKeepsIInv, StutterKeepsIInv DEF Standing, Next
<1> QED BY <1>1, <1>2, <1>3, NextKeepsFounded, NextKeepsSums DEF Standing

(* In every reachable state rows refer to rows on the books, refunds agree *)
(* with the provider, and settlements in flight have summed enough.        *)
THEOREM StandingHolds == Spec => []Standing
  BY InitStanding, NextKeepsStanding, PTL DEF Spec

-----------------------------------------------------------------------------
(***************************************************************************)
(* One payment under review, and one intent to charge.                     *)
(***************************************************************************)

\* No two payments of an invoice are under review.
ReviewedAlone ==
    \A p \in PaymentIds, x \in PaymentIds :
        payment[p].status = "pending" /\ payment[x].status = "pending"
            /\ payment[p].invoice = payment[x].invoice => p = x

\* A capture is put under review only when no other payment of its invoice is.
LEMMA NextKeepsReviewedAlone ==
    ASSUME Standing, ReviewedAlone, [Next]_vars PROVE ReviewedAlone'
<1>a. \A p \in PaymentIds : payment[p].status # "absent" => payment[p].invoice \in Invoices
  BY DEF Standing, IInv, TypeOK, LedgerTypeOK
<1>1. CASE Quiet
  BY <1>1 DEF Quiet, ReviewedAlone
<1>2. ASSUME NEW p \in PaymentIds, Sidelined(p) PROVE ReviewedAlone'
  <2>1. CASE payment'[p].status = "pending"
    <3>1. \A x \in PaymentIds : x # p /\ payment'[x].status = "pending" =>
              payment'[x].invoice # payment'[p].invoice
      BY <1>2, <2>1 DEF Sidelined, HasPendingPayment
    <3> QED BY <1>2, <3>1 DEF Sidelined, ReviewedAlone
  <2>2. CASE payment'[p].status # "pending"
    BY <1>2, <2>2 DEF Sidelined, ReviewedAlone
  <2> QED BY <2>1, <2>2
<1>3. ASSUME NEW p \in PaymentIds, NEW i \in Invoices, Credited(p, i) PROVE ReviewedAlone'
  BY <1>3 DEF Credited, ReviewedAlone
<1>4. ASSUME NEW r \in RefundIds, Shelved(r) PROVE ReviewedAlone'
  BY <1>4 DEF Shelved, ReviewedAlone
<1>5. ASSUME NEW r \in RefundIds, NEW p \in PaymentIds, NEW i \in Invoices, Booked(r, p, i)
      PROVE  ReviewedAlone'
  <2>1. \A x \in PaymentIds : payment'[x].status = "pending" =>
            payment[x].status = "pending" /\ payment'[x].invoice = payment[x].invoice
    BY <1>5 DEF Booked
  <2> QED BY <2>1 DEF ReviewedAlone
<1> QED BY <1>1, <1>2, <1>3, <1>4, <1>5, KindOfStep

(* has_pending_payment finds at most one payment under review, whatever    *)
(* captures, webhooks and polls of the invoice interleave.                 *)
THEOREM OnePendingAtMost == Spec => []AtMostOnePending
<1>1. Init => ReviewedAlone
  BY DEF Init, LedgerInit, NoPayment, ReviewedAlone
<1>2. ReviewedAlone => AtMostOnePending
  <2>1. ASSUME ReviewedAlone, NEW i \in Invoices
        PROVE  Cardinality({p \in PaymentIds :
                   payment[p].invoice = i /\ payment[p].status = "pending"}) <= 1
    <3> DEFINE S == {p \in PaymentIds : payment[p].invoice = i /\ payment[p].status = "pending"}
    <3>1. S = {} \/ \E p \in S : S = {p}
      BY <2>1 DEF ReviewedAlone
    <3>2. Cardinality(S) \in {0, 1}
      BY <3>1, FS_EmptySet, FS_Singleton
    <3> QED BY <3>2
  <2> QED BY <2>1 DEF AtMostOnePending
<1> QED BY StandingHolds, <1>1, <1>2, NextKeepsReviewedAlone, PTL DEF Spec

\* Only pay_invoice gives an invoice another intent.
LEMMA IntentsOfInvoices ==
    ASSUME Standing, [Next]_vars, NEW i \in Invoices
    PROVE  invoice'[i].intent = invoice[i].intent \/ \E n \in Intents : PayInvoice(i, n)
<1>1. CASE Quiet
  BY <1>1 DEF Quiet, Created, LivesOn, Standing, Founded
<1>2. ASSUME NEW p \in PaymentIds, NEW j \in Invoices, Credited(p, j)
      PROVE  invoice'[i].intent = invoice[i].intent
  BY <1>2 DEF Credited, Later
<1>3. ASSUME NEW r \in RefundIds, NEW p \in PaymentIds, NEW j \in Invoices, Booked(r, p, j)
      PROVE  invoice'[i].intent = invoice[i].intent
  BY <1>3 DEF Booked, Later
<1> QED BY <1>1, <1>2, <1>3, KindOfStep DEF Sidelined, Shelved

\* Nor does anything else create an intent.
LEMMA IntentsOfStripe ==
    ASSUME Standing, [Next]_vars, NEW n \in Intents, intent'[n].status \in {"live", "succeeded"}
    PROVE  \/ /\ intent[n].status \in {"live", "succeeded"}
              /\ intent'[n].invoice = intent[n].invoice
           \/ \E i \in Invoices, m \in Intents : PayInvoice(i, m)
<1>a. intent \in [Intents -> IntentRow] /\ invoice \in [Invoices -> InvoiceRow]
  BY DEF Standing, IInv, TypeOK, LedgerTypeOK, CollectionTypeOK
<1> DEFINE Goal == \/ /\ intent[n].status \in {"live", "succeeded"}
                      /\ intent'[n].invoice = intent[n].invoice
                   \/ \E i \in Invoices, m \in Intents : PayInvoice(i, m)
<1>1. ASSUME UNCHANGED intent PROVE Goal
  BY <1>1
<1>2. ASSUME NEW i \in Invoices, PayInvoiceCreateFails(i) PROVE Goal
  BY <1>2, <1>a DEF PayInvoiceCreateFails, StaleIntentCanceled, IntentStatus, IntentRow, InvoiceRow
<1>3. ASSUME NEW m \in Intents, ConfirmIntent(m) PROVE Goal
  BY <1>3, <1>a DEF ConfirmIntent, IntentRow
<1>4. ASSUME NEW i \in Invoices, NEW m \in Intents, PayInvoice(i, m) PROVE Goal
  BY <1>4
<1> HIDE DEF Goal
<1>5. ASSUME CollectionNext PROVE Goal
  BY <1>1, <1>2, <1>3, <1>4, <1>5
  DEF CollectionNext, CreateInvoice, VoidInvoice, SendInvoice, RecordManualPayment, SweepRead,
      SweepWrite, PayInvoiceViaPaypal, CaptureInvoicePaypalPayment, DeclineIntent,
      PaymentIntentSucceeded, PaymentIntentFailed, UnmatchedIntentEvent, ReviewEnds,
      ReconcilePaypalCapture, collectionVars
<1>6. Goal
  BY <1>1, <1>5 DEF Next, vars, collectionVars
<1> QED BY <1>6 DEF Goal

\* A failed commit is counted for good.
LEMMA LostIsCounted == ASSUME Standing, [Next]_vars, lost' = 0 PROVE lost = 0
<1>1. lost \in Nat
  BY CollectionConstants DEF Standing, IInv, TypeOK, CollectionTypeOK
<1>2. lost' = lost \/ lost' = lost + 1
  <2>1. CASE CollectionNext
    BY <2>1
    DEF CollectionNext, CreateInvoice, VoidInvoice, SendInvoice, RecordManualPayment, SweepRead,
        SweepWrite, PayInvoice, PayInvoiceCreateFails, PayInvoiceViaPaypal,
        CaptureInvoicePaypalPayment, RecordCapture, ConfirmIntent, DeclineIntent,
        PaymentIntentSucceeded, PaymentIntentFailed, UnmatchedIntentEvent, ReviewEnds,
        ReconcilePaypalCapture, collectionVars
  <2> QED BY <2>1 DEF Next, vars, collectionVars
<1> QED BY <1>1, <1>2

\* pay_invoice cancels the intent it replaces, and does not replace one that
\* has collected.
LEMMA NextKeepsIntentHeld ==
    ASSUME Standing, ChargeableIntentIsHeld, [Next]_vars
    PROVE  ChargeableIntentIsHeld'
<1> SUFFICES ASSUME lost' = 0, NEW n \in Intents, intent'[n].status \in {"live", "succeeded"}
             PROVE  invoice'[intent'[n].invoice].intent = n
  BY DEF ChargeableIntentIsHeld
<1>a. intent \in [Intents -> IntentRow] /\ invoice \in [Invoices -> InvoiceRow]
  BY DEF Standing, IInv, TypeOK, LedgerTypeOK, CollectionTypeOK
<1>b. \A m \in Intents : intent[m].status \in {"live", "succeeded"} =>
          intent[m].invoice \in Invoices /\ invoice[intent[m].invoice].intent = m
  BY LostIsCounted DEF ChargeableIntentIsHeld, Standing, IInv, Linked
<1>c. \A m \in Intents : m # None
  BY LedgerConstants DEF PaymentIds
<1>1. ASSUME NEW i \in Invoices, NEW m \in Intents, PayInvoice(i, m)
      PROVE  invoice'[intent'[n].invoice].intent = n
  <2> DEFINE row == [status |-> "live", invoice |-> i, amount |-> Charge(AmountDue(i))]
             S == StaleIntentCanceled(i)
  <2>1. /\ intent' = [S EXCEPT ![m] = row] /\ NeedsNewIntent(i)
        /\ invoice' = [invoice EXCEPT ![i].intent = m] \/ lost' = lost + 1
    BY <1>1 DEF PayInvoice
  <2>2. invoice' = [invoice EXCEPT ![i].intent = m]
    BY <2>1, LostIsCounted
  <2>3. /\ S \in [Intents -> IntentRow]
        /\ \A k \in Intents : S[k].invoice = intent[k].invoice
        /\ \A k \in Intents : S[k].status \in {"live", "succeeded"} =>
              intent[k].status = S[k].status /\ ~(k = invoice[i].intent /\ S[k].status = "live")
    BY <1>a, <1>c DEF StaleIntentCanceled, IntentStatus, IntentRow, InvoiceRow
  <2>4. row.invoice = i
    OBVIOUS
  <2> HIDE DEF row, S
  <2>5. CASE n = m
    <3>1. intent'[n].invoice = i
      BY <2>1, <2>3, <2>4, <2>5
    <3> QED BY <1>a, <2>2, <2>5, <3>1 DEF InvoiceRow
  <2>6. CASE n # m
    <3>1. intent'[n] = S[n]
      BY <2>1, <2>3, <2>6
    <3>2. /\ intent[n].status \in {"live", "succeeded"} /\ intent'[n].invoice = intent[n].invoice
          /\ intent[n].status = "live" => n # invoice[i].intent
      BY <2>3, <3>1
    <3>3. invoice[i].intent = n => intent[n].status = "live"
      BY <1>c, <2>1, <3>2 DEF NeedsNewIntent, IntentStatus
    <3>4. intent[n].invoice # i
      BY <1>b, <3>2, <3>3
    <3> QED BY <1>a, <1>b, <2>2, <3>2, <3>4
  <2> QED BY <2>5, <2>6
<1>2. CASE ~\E i \in Invoices, m \in Intents : PayInvoice(i, m)
  <2>1. intent[n].status \in {"live", "succeeded"} /\ intent'[n].invoice = intent[n].invoice
    BY <1>2, IntentsOfStripe
  <2>2. intent[n].invoice \in Invoices /\ invoice[intent[n].invoice].intent = n
    BY <1>b, <2>1
  <2> QED BY <1>2, <2>1, <2>2, IntentsOfInvoices
<1> QED BY <1>1, <1>2

(* Until a commit fails, an intent that can charge the customer, or has,   *)
(* is the one its invoice holds: no invoice is charged through two.        *)
THEOREM ChargeableIntentHeld == Spec => []ChargeableIntentIsHeld
<1>1. Init => ChargeableIntentIsHeld
  BY DEF Init, CollectionInit, NoIntent, ChargeableIntentIsHeld
<1> QED BY StandingHolds, <1>1, NextKeepsIntentHeld, PTL DEF Spec

\* Only a capture is heard of, and one that was declined stays so.
OrdersAreAnswered ==
    \A o \in Orders : /\ order[o].heard => Captured(o)
                      /\ order[o].reply = "declined" => order[o].status = "declined"

\* A capture that is answered, and commits, is recorded in its transaction or
\* was recorded before, whatever is due by then.
LEMMA NextKeepsCaptures ==
    ASSUME Standing, OrdersAreAnswered, CapturedMoneyIsRecorded, [Next]_vars
    PROVE  OrdersAreAnswered' /\ CapturedMoneyIsRecorded'
<1> DEFINE Answers(o) == /\ order'[o].heard => order'[o].status \in {"held", "completed", "declined"}
                         /\ order'[o].reply = "declined" => order'[o].status = "declined"
           Records(o) == order'[o].status \in {"held", "completed"} /\ order'[o].heard
                             => payment'[o].status # "absent"
<1> SUFFICES ASSUME NEW o \in Orders PROVE Answers(o) /\ Records(o)
  BY DEF CapturedMoneyIsRecorded, OrdersAreAnswered, Captured
<1>a. order \in [Orders -> OrderRow] /\ payment \in [PaymentIds -> PaymentRow]
  BY DEF Standing, IInv, TypeOK, LedgerTypeOK, CollectionTypeOK
<1>b. o \in PaymentIds
  BY DEF PaymentIds
<1>c. payment[o].status # "absent" => payment'[o].status # "absent"
  BY <1>b, NothingVanishes DEF RowsStand
<1>d. /\ order[o].heard => Captured(o)
      /\ order[o].reply = "declined" => order[o].status = "declined"
      /\ order[o].status \in {"held", "completed"} /\ order[o].heard => payment[o].status # "absent"
  BY DEF CapturedMoneyIsRecorded, OrdersAreAnswered
<1>1. ASSUME order'[o] = order[o] PROVE Answers(o) /\ Records(o)
  BY <1>1, <1>c, <1>d DEF Captured
<1>2. ASSUME NEW i \in Invoices, NEW k \in Orders, CaptureInvoicePaypalPayment(i, k)
      PROVE  Answers(o) /\ Records(o)
  <2>1. PICK outcome \in CaptureOutcome(k), heard \in BOOLEAN :
          /\ order' = AfterCapture(k, outcome, heard)
          /\ heard => /\ order[k].invoice = i
                      /\ \/ IsRecorded(i, k, outcome) /\ RecordCapture(i, k, outcome)
                         \/ ~IsRecorded(i, k, outcome) /\ UNCHANGED payment
    BY <1>2 DEF CaptureInvoicePaypalPayment
  <2>2. outcome \in OrderStatus /\ (Captured(k) => outcome \in {order[k].status, order[k].reply})
        /\ (~Captured(k) => outcome \in {"completed", "held", "declined"})
    BY <1>a, <2>1 DEF CaptureOutcome, OrderStatus, OrderRow
  <2>3. /\ order'[k].status = IF Captured(k) THEN order[k].status ELSE outcome
        /\ order'[k].reply = IF Captured(k) THEN order[k].reply ELSE outcome
        /\ order'[k].heard = (order[k].heard \/ heard)
        /\ \A x \in Orders : x # k => order'[x] = order[x]
    BY <1>a, <2>1, <2>2, CaptureMovesOrder
  <2>4. CASE o # k
    BY <1>1, <2>3, <2>4
  <2>5. CASE o = k
    <3>1. Answers(o)
      BY <1>d, <2>2, <2>3, <2>5 DEF Captured
    <3>2. ASSUME order[o].heard PROVE Records(o)
      <4>1. Captured(k) /\ order'[o].status = order[o].status
        BY <1>d, <2>3, <2>5, <3>2
      <4> QED BY <1>c, <1>d, <3>2, <4>1
    <3>3. ASSUME ~order[o].heard, order'[o].status \in {"held", "completed"}, order'[o].heard
          PROVE  payment'[o].status # "absent"
      <4>1. heard /\ outcome # "declined"
        BY <1>d, <2>2, <2>3, <2>5, <3>3
      <4>2. CASE IsRecorded(i, k, outcome) /\ RecordCapture(i, k, outcome)
        <5>1. payment'[o].status = CaptureStatus(outcome)
          BY <1>a, <1>b, <2>5, <4>2 DEF RecordCapture
        <5> QED BY <5>1 DEF CaptureStatus
      <4>3. CASE ~IsRecorded(i, k, outcome) /\ UNCHANGED payment
        BY <2>1, <2>5, <4>1, <4>3 DEF IsRecorded
      <4> QED BY <2>1, <4>1, <4>2, <4>3
    <3> QED BY <3>1, <3>2, <3>3
  <2> QED BY <2>4, <2>5
<1>3. ASSUME NEW i \in Invoices, NEW k \in Orders, PayInvoiceViaPaypal(i, k)
      PROVE  Answers(o) /\ Records(o)
  BY <1>1, <1>3, <1>a DEF PayInvoiceViaPaypal
<1>4. ASSUME NEW k \in Orders, ReviewEnds(k) PROVE Answers(o) /\ Records(o)
  <2>1. CASE o # k
    BY <1>1, <1>4, <1>a, <2>1 DEF ReviewEnds
  <2>2. CASE o = k
    <3>1. /\ order[o].status = "held" /\ order'[o].status \in {"completed", "declined"}
          /\ order'[o].heard = order[o].heard /\ order'[o].reply = order[o].reply
      BY <1>4, <1>a, <2>2 DEF ReviewEnds, OrderRow
    <3> QED BY <1>c, <1>d, <3>1
  <2> QED BY <2>1, <2>2
<1>5. CASE CollectionNext
  BY <1>1, <1>2, <1>3, <1>4, <1>5
  DEF CollectionNext, CreateInvoice, VoidInvoice, SendInvoice, RecordManualPayment, SweepRead,
      SweepWrite, PayInvoice, PayInvoiceCreateFails, ConfirmIntent, DeclineIntent,
      PaymentIntentSucceeded, PaymentIntentFailed, UnmatchedIntentEvent, ReconcilePaypalCapture,
      collectionVars
<1> QED BY <1>1, <1>5 DEF Next, vars, collectionVars

(* Money PayPal has captured or holds has a row as soon as one capture was *)
(* answered and committed: for any number of orders, of lost answers and   *)
(* failed commits before it, of other payments, and whatever is due.       *)
THEOREM CapturesAreRecorded == Spec => []CapturedMoneyIsRecorded
<1>1. Init => OrdersAreAnswered /\ CapturedMoneyIsRecorded
  BY DEF Init, CollectionInit, NoOrder, OrdersAreAnswered, CapturedMoneyIsRecorded
<1> QED BY StandingHolds, <1>1, NextKeepsCaptures, PTL DEF Spec

-----------------------------------------------------------------------------
(***************************************************************************)
(* What a paid invoice received.                                           *)
(***************************************************************************)

\* A payment shows a refund only if there is one.
RefundsShowUp ==
    (\A r \in RefundIds : refund[r].status = "absent") =>
        \A p \in PaymentIds : payment[p].status \notin {"partially_refunded", "refunded"}

\* As long as there is no refund, credits add up and none is taken away.
LEMMA PaidGrows ==
    ASSUME NEW i, NEW P \in Ledgers, NEW Q \in Ledgers, NEW R \in Refunds,
           \A r \in RefundIds : R[r].status = "absent",
           \A p \in PaymentIds : P[p].status \in {"succeeded", "partially_refunded"} =>
               /\ Q[p].status \in {"succeeded", "partially_refunded"}
               /\ Q[p].invoice = P[p].invoice /\ Q[p].amount = P[p].amount
    PROVE  PaidSoFar(i, P, R) <= PaidSoFar(i, Q, R)
<1> DEFINE f == Brought(i, P, R)
           g == Brought(i, Q, R)
<1>1. \A p \in PaymentIds : RefundedSoFar(p, R) = 0
  <2>1. ASSUME NEW p \in PaymentIds PROVE RefundedSoFar(p, R) = 0
    <3>1. {r \in RefundIds : R[r].payment = p /\ R[r].status \in {"succeeded"}} = {}
      OBVIOUS
    <3> QED BY <3>1, SumEmpty DEF RefundedSoFar, RefundTotal
  <2> QED BY <2>1
<1>2. \A p \in PaymentIds : P[p].amount \in Nat /\ Q[p].amount \in Nat
  BY DEF Ledgers, PaymentRow
<1>3. \A p \in PaymentIds : f[p] \in Int /\ g[p] \in Int /\ f[p] <= g[p]
  BY <1>1, <1>2, NotRefundedIsInt DEF Brought
<1>4. /\ PaidSoFar(i, P, R) = SumFunctionOnSet(f, PaymentIds)
      /\ PaidSoFar(i, Q, R) = SumFunctionOnSet(g, PaymentIds)
  BY PaidIsSum
<1> HIDE DEF f, g
<1> QED BY <1>3, <1>4, LedgerConstants, SumMonotone

\* A step without refunds keeps every paid invoice covered.
LEMMA NextKeepsCover ==
    ASSUME Standing, Standing', RefundsShowUp, PaidIsCovered, [Next]_vars
    PROVE  RefundsShowUp' /\ PaidIsCovered'
<1> SUFFICES ASSUME \A r \in RefundIds : refund'[r].status = "absent"
             PROVE  /\ \A p \in PaymentIds :
                          payment'[p].status \notin {"partially_refunded", "refunded"}
                    /\ \A i \in Invoices : invoice'[i].status = "paid" =>
                          PaidSoFar(i, payment', refund') >= invoice'[i].total
  BY DEF RefundsShowUp, PaidIsCovered
<1>a. payment \in Ledgers /\ payment' \in Ledgers /\ refund \in Refunds
  BY DEF Standing, IInv, TypeOK, LedgerTypeOK, Ledgers, Refunds
<1>b. \A r \in RefundIds : refund[r].status = "absent"
  BY NothingVanishes DEF RowsStand
<1>c. \A p \in PaymentIds : payment[p].status \notin {"partially_refunded", "refunded"}
  BY <1>b DEF RefundsShowUp
<1>d. ASSUME NEW i \in Invoices, invoice[i].status = "paid"
      PROVE  PaidSoFar(i, payment, refund) >= invoice[i].total
  BY <1>b, <1>d DEF PaidIsCovered
<1>e. ASSUME \A p \in PaymentIds : payment[p].status = "succeeded" =>
                 /\ payment'[p].status = "succeeded"
                 /\ payment'[p].invoice = payment[p].invoice
                 /\ payment'[p].amount = payment[p].amount,
             NEW i \in Invoices, invoice[i].status = "paid", invoice'[i].total = invoice[i].total
      PROVE  PaidSoFar(i, payment', refund) >= invoice'[i].total
  <2>1. PaidSoFar(i, payment, refund) <= PaidSoFar(i, payment', refund)
    BY <1>a, <1>b, <1>c, <1>e, PaidGrows
  <2>2. PaidSoFar(i, payment, refund) \in Int /\ PaidSoFar(i, payment', refund) \in Int
    BY <1>a, PaidIsSum
  <2>3. invoice[i].total \in Nat
    BY DEF Standing, IInv, TypeOK, LedgerTypeOK, InvoiceRow
  <2> QED BY <1>d, <1>e, <2>1, <2>2, <2>3
<1>1. CASE Quiet
  BY <1>1, <1>c, <1>d DEF Quiet, Created, LivesOn
<1>2. ASSUME NEW p \in PaymentIds, Sidelined(p)
      PROVE  /\ \A x \in PaymentIds :
                   payment'[x].status \notin {"partially_refunded", "refunded"}
             /\ \A i \in Invoices : invoice'[i].status = "paid" =>
                   PaidSoFar(i, payment', refund') >= invoice'[i].total
  <2>1. /\ UNCHANGED <<invoice, refund>> /\ payment[p].status # "succeeded"
        /\ \A x \in PaymentIds : x # p => payment'[x] = payment[x]
        /\ payment'[p].status \in {"pending", "failed"}
    BY <1>2 DEF Sidelined
  <2> QED BY <1>c, <1>e, <2>1
<1>3. ASSUME NEW p \in PaymentIds, NEW i \in Invoices, Credited(p, i)
      PROVE  /\ \A x \in PaymentIds :
                   payment'[x].status \notin {"partially_refunded", "refunded"}
             /\ \A j \in Invoices : invoice'[j].status = "paid" =>
                   PaidSoFar(j, payment', refund') >= invoice'[j].total
  <2>1. /\ UNCHANGED refund
        /\ \A x \in PaymentIds : x # p => payment'[x] = payment[x]
        /\ payment'[p].status = "succeeded"
        /\ payment[p].status # "absent" => /\ payment'[p].invoice = payment[p].invoice
                                           /\ payment'[p].amount = payment[p].amount
    BY <1>3 DEF Credited
  <2>2. \A j \in Invoices : invoice'[j].total = invoice[j].total
    BY <1>3 DEF Credited, Later
  <2>3. ASSUME NEW j \in Invoices, invoice'[j].status = "paid"
        PROVE  PaidSoFar(j, payment', refund') >= invoice'[j].total
    <3>1. CASE invoice[j].status = "paid"
      BY <1>e, <2>1, <2>2, <3>1
    <3>2. CASE invoice[j].status # "paid"
      BY <1>3, <2>2, <2>3, <3>2 DEF Credited
    <3> QED BY <3>1, <3>2
  <2> QED BY <1>c, <2>1, <2>3
<1> QED BY <1>1, <1>2, <1>3, KindOfStep DEF Shelved, Booked

(* Before any refund, a paid invoice stays covered by what was received:   *)
(* no late or repeated event, poll or sweep uncovers it, for any number of *)
(* payments of any amount.                                                 *)
THEOREM PaidStaysCovered == Spec => []PaidIsCovered
<1>1. Init => RefundsShowUp /\ PaidIsCovered
  BY DEF Init, LedgerInit, NoPayment, NoInvoice, RefundsShowUp, PaidIsCovered
<1>2. Standing /\ [Next]_vars => Standing'
  BY NextKeepsStanding
<1>3. ASSUME Standing, RefundsShowUp, PaidIsCovered, [Next]_vars
      PROVE  RefundsShowUp' /\ PaidIsCovered'
  BY <1>2, <1>3, NextKeepsCover
<1> QED BY StandingHolds, <1>1, <1>3, PTL DEF Spec

(* Money beyond the total raises needs_review in the transaction that      *)
(* credits it, whichever path does, for any amounts.                       *)
THEOREM OverCollectionFlagged == Spec => OverCollectionIsFlagged
<1>1. ASSUME Standing, [Next]_vars
      PROVE  [\A i \in Invoices :
                 ProviderCredits(i) /\ PaidSoFar(i, payment', refund') > invoice[i].total
                 => invoice'[i].review]_vars
  <2>1. ASSUME NEW i \in Invoices, ProviderCredits(i),
               PaidSoFar(i, payment', refund') > invoice[i].total
        PROVE  invoice'[i].review
    <3>1. PICK p \in PaymentIds :
             /\ IsProviderPayment(p) /\ payment'[p].invoice = i
             /\ payment[p].status # "succeeded" /\ payment'[p].status = "succeeded"
      BY <2>1 DEF ProviderCredits
    <3>2. ~Quiet
      BY <3>1 DEF Quiet
    <3>3. \A x \in PaymentIds : ~Sidelined(x)
      BY <3>1 DEF Sidelined
    <3>4. \A r \in RefundIds : ~Shelved(r)
      BY <3>1 DEF Shelved
    <3>5. \A r \in RefundIds, x \in PaymentIds, j \in Invoices : ~Booked(r, x, j)
      BY <3>1 DEF Booked
    <3>6. PICK x \in PaymentIds, j \in Invoices : Credited(x, j)
      BY <1>1, <3>2, <3>3, <3>4, <3>5, KindOfStep
    <3>7. x = p /\ j = i /\ UNCHANGED refund
      BY <3>1, <3>6 DEF Credited
    <3> QED BY <2>1, <3>1, <3>6, <3>7 DEF Credited
  <2> QED BY <2>1
<1> QED BY StandingHolds, <1>1, PTL DEF Spec, OverCollectionIsFlagged

-----------------------------------------------------------------------------
(***************************************************************************)
(* What refunds give back.                                                 *)
(***************************************************************************)

\* What was refunded over an invoice's payments never shrinks.
LEMMA RefundedOnInvoiceGrows ==
    ASSUME Standing, Standing', RowsStand, NEW i \in Invoices
    PROVE  /\ RefundedOnInvoice(i, payment, refund) <= RefundedOnInvoice(i, payment', refund')
           /\ RefundedOnInvoice(i, payment, refund) \in Nat
           /\ RefundedOnInvoice(i, payment', refund') \in Nat
<1> DEFINE Given(P, R) == {r \in RefundIds : /\ R[r].status = "succeeded"
                                             /\ R[r].payment \in PaymentIds
                                             /\ P[R[r].payment].invoice = i}
           Each(R) == [r \in RefundIds |-> R[r].amount]
           f == [r \in RefundIds |-> IF r \in Given(payment, refund) THEN Each(refund)[r] ELSE 0]
           g == [r \in RefundIds |->
                    IF r \in Given(payment', refund') THEN Each(refund')[r] ELSE 0]
<1>1. /\ refund \in Refunds /\ refund' \in Refunds
      /\ \A r \in RefundIds : refund[r].status # "absent" =>
             refund[r].payment \in PaymentIds /\ payment[refund[r].payment].status # "absent"
  BY DEF Standing, IInv, Linked, TypeOK, LedgerTypeOK, Refunds
<1>2. \A r \in RefundIds : Each(refund)[r] \in Nat /\ Each(refund')[r] \in Nat
  BY <1>1 DEF Refunds, RefundRow
<1>3. \A r \in Given(payment, refund) : r \in Given(payment', refund')
                                        /\ Each(refund')[r] = Each(refund)[r]
  BY <1>1 DEF RowsStand
<1>4. \A r \in RefundIds : f[r] \in Int /\ g[r] \in Int /\ f[r] <= g[r]
  BY <1>2, <1>3
<1>5. /\ RefundedOnInvoice(i, payment, refund)
            = SumFunctionOnSet(Each(refund), Given(payment, refund))
      /\ RefundedOnInvoice(i, payment', refund')
            = SumFunctionOnSet(Each(refund'), Given(payment', refund'))
  BY DEF RefundedOnInvoice
<1>6. /\ Given(payment, refund) \in SUBSET RefundIds /\ Given(payment', refund') \in SUBSET RefundIds
      /\ IsFiniteSet(RefundIds)
      /\ IsFiniteSet(Given(payment, refund)) /\ IsFiniteSet(Given(payment', refund'))
  BY LedgerConstants, FS_Subset
<1> DEFINE a == Each(refund)
           b == Each(refund')
           S == Given(payment, refund)
           T == Given(payment', refund')
<1>7. f = [r \in RefundIds |-> IF r \in S THEN a[r] ELSE 0]
      /\ g = [r \in RefundIds |-> IF r \in T THEN b[r] ELSE 0]
  OBVIOUS
<1>8. (\A r \in RefundIds : a[r] \in Nat /\ b[r] \in Nat) /\ S \in SUBSET RefundIds
      /\ T \in SUBSET RefundIds
      /\ IsFiniteSet(S) /\ IsFiniteSet(T) /\ RefundedOnInvoice(i, payment, refund) = SumFunctionOnSet(a, S)
      /\ RefundedOnInvoice(i, payment', refund') = SumFunctionOnSet(b, T)
  BY <1>2, <1>5, <1>6
<1> HIDE DEF a, b, S, T, f, g
<1>9. SumFunctionOnSet(a, S) = SumFunctionOnSet(f, RefundIds)
  BY <1>6, <1>7, <1>8, SumFiltered
<1>10. SumFunctionOnSet(b, T) = SumFunctionOnSet(g, RefundIds)
  BY <1>6, <1>7, <1>8, SumFiltered
<1>11. SumFunctionOnSet(f, RefundIds) <= SumFunctionOnSet(g, RefundIds)
  BY <1>4, <1>6, SumMonotone
<1>12. SumFunctionOnSet(a, S) \in Nat /\ SumFunctionOnSet(b, T) \in Nat
  BY <1>8, SumIsNat
<1> QED BY <1>8, <1>9, <1>10, <1>11, <1>12

(* An invoice is shown as refunded only when its payments gave back at     *)
(* least its total: for any number of payments refunded in part, by        *)
(* requests and late settlements that interleave.                          *)
THEOREM RefundedGaveBackTotal == Spec => []RefundedInvoiceGaveBackTotal
<1>1. Init => RefundedInvoiceGaveBackTotal
  BY DEF Init, LedgerInit, NoInvoice, RefundedInvoiceGaveBackTotal
<1>2. ASSUME Standing, RefundedInvoiceGaveBackTotal, [Next]_vars
      PROVE  RefundedInvoiceGaveBackTotal'
  <2>1. Standing' /\ RowsStand
    BY <1>2, NextKeepsStanding, NothingVanishes
  <2>2. ASSUME NEW i \in Invoices, invoice'[i].status = "refunded"
        PROVE  RefundedOnInvoice(i, payment', refund') >= invoice'[i].total
    <3>1. CASE invoice[i].status = "refunded"
      <4>1. RefundedOnInvoice(i, payment, refund) >= invoice[i].total
            /\ invoice'[i].total = invoice[i].total /\ invoice[i].total \in Nat
        BY <1>2, <2>1, <3>1
        DEF RefundedInvoiceGaveBackTotal, RowsStand, Standing, IInv, TypeOK, LedgerTypeOK, InvoiceRow
      <4> QED BY <1>2, <2>1, <4>1, RefundedOnInvoiceGrows
    <3>2. CASE invoice[i].status # "refunded"
      <4>1. ~Quiet
        BY <2>2, <3>2 DEF Quiet, Created, LivesOn
      <4>2. \A p \in PaymentIds : ~Sidelined(p)
        BY <2>2, <3>2 DEF Sidelined
      <4>3. \A p \in PaymentIds, j \in Invoices : ~Credited(p, j)
        BY <2>2, <3>2 DEF Credited
      <4>4. \A r \in RefundIds : ~Shelved(r)
        BY <2>2, <3>2 DEF Shelved
      <4>5. PICK r \in RefundIds, p \in PaymentIds, j \in Invoices : Booked(r, p, j)
        BY <1>2, <4>1, <4>2, <4>3, <4>4, KindOfStep
      <4>6. /\ RefundedOnInvoice(i, payment, refund') >= invoice[i].total
            /\ invoice'[i].total = invoice[i].total
            /\ \A x \in PaymentIds : payment'[x].invoice = payment[x].invoice
        BY <2>2, <3>2, <4>5 DEF Booked, Later
      <4>7. RefundedOnInvoice(i, payment', refund') = RefundedOnInvoice(i, payment, refund')
        <5>1. {x \in RefundIds : /\ refund'[x].status = "succeeded"
                                 /\ refund'[x].payment \in PaymentIds
                                 /\ payment'[refund'[x].payment].invoice = i}
                = {x \in RefundIds : /\ refund'[x].status = "succeeded"
                                     /\ refund'[x].payment \in PaymentIds
                                     /\ payment[refund'[x].payment].invoice = i}
          BY <4>6
        <5> QED BY <5>1 DEF RefundedOnInvoice
      <4> QED BY <4>6, <4>7
    <3> QED BY <3>1, <3>2
  <2> QED BY <2>2 DEF RefundedInvoiceGaveBackTotal
<1> QED BY StandingHolds, <1>1, <1>2, PTL DEF Spec

\* A refund that goes through adds its amount to its payment's, and to no
\* other payment's.
LEMMA RefundedWithOneMore ==
    ASSUME NEW R \in Refunds, NEW Q \in Refunds, NEW r \in RefundIds,
           \A x \in RefundIds : x # r => Q[x] = R[x],
           Q[r].status = "succeeded", R[r].status # "succeeded", NEW p
    PROVE  RefundedSoFar(p, Q)
              = RefundedSoFar(p, R) + (IF Q[r].payment = p THEN Q[r].amount ELSE 0)
<1> DEFINE f == TakenBack(p, R, {"succeeded"})
           g == TakenBack(p, Q, {"succeeded"})
<1>1. \A x \in RefundIds : f[x] \in Int /\ g[x] \in Int
  BY DEF TakenBack, Refunds, RefundRow
<1>2. \A x \in RefundIds : x # r => g[x] = f[x]
  BY DEF TakenBack
<1>3. f[r] = 0 /\ g[r] = IF Q[r].payment = p THEN Q[r].amount ELSE 0
  BY DEF TakenBack
<1>4. /\ RefundedSoFar(p, R) = SumFunctionOnSet(f, RefundIds)
      /\ RefundedSoFar(p, Q) = SumFunctionOnSet(g, RefundIds)
      /\ RefundedSoFar(p, R) \in Nat
  BY RefundTotalIsSum, RefundedIsNat DEF RefundedSoFar
<1> HIDE DEF f, g
<1>5. SumFunctionOnSet(g, RefundIds) = SumFunctionOnSet(f, RefundIds) - f[r] + g[r]
  BY <1>1, <1>2, LedgerConstants, SumChange
<1> QED BY <1>1, <1>3, <1>4, <1>5

\* Refunds that do not go through change nothing of what was refunded.
LEMMA RefundedStays ==
    ASSUME NEW R \in Refunds, NEW Q \in Refunds, NEW p,
           \A x \in RefundIds : R[x].status = "succeeded" \/ Q[x].status = "succeeded" =>
               Q[x] = R[x]
    PROVE  RefundedSoFar(p, Q) = RefundedSoFar(p, R)
<1>1. RefundedSoFar(p, R) <= RefundedSoFar(p, Q) /\ RefundedSoFar(p, Q) <= RefundedSoFar(p, R)
  BY RefundedGrows
<1> QED BY <1>1, RefundedIsNat

\* What was refunded has been reserved.
LEMMA RefundedIsReserved ==
    ASSUME NEW p, NEW R \in Refunds PROVE RefundedSoFar(p, R) <= ReservedSoFar(p, R)
<1> DEFINE f == TakenBack(p, R, {"succeeded"})
           g == TakenBack(p, R, {"succeeded", "pending"})
<1>1. \A r \in RefundIds : f[r] \in Int /\ g[r] \in Int /\ f[r] <= g[r]
  BY DEF TakenBack, Refunds, RefundRow
<1>2. /\ RefundedSoFar(p, R) = SumFunctionOnSet(f, RefundIds)
      /\ ReservedSoFar(p, R) = SumFunctionOnSet(g, RefundIds)
  BY RefundTotalIsSum DEF RefundedSoFar, ReservedSoFar
<1> HIDE DEF f, g
<1> QED BY <1>1, <1>2, LedgerConstants, SumMonotone

\* The provider's refunds of a payment, each put down for what it moves; A
\* and M are what is asked of the provider and what it did.
Held(p, A, M) ==
    [r \in RefundIds |->
        IF A[r].payment = p /\ M[r].status \in {"pending", "succeeded"} THEN M[r].amount ELSE 0]

AtBank(p) == Held(p, ask, moved)

\* What the provider holds refunded is the sum of these.
LEMMA ProviderRefundedIsSum ==
    ASSUME NEW p, NEW A, NEW M \in [RefundIds -> MovedRow]
    PROVE  /\ SumFunctionOnSet([r \in RefundIds |-> M[r].amount],
                  {r \in RefundIds : A[r].payment = p /\ M[r].status \in {"pending", "succeeded"}})
                 = SumFunctionOnSet(Held(p, A, M), RefundIds)
           /\ \A r \in RefundIds : Held(p, A, M)[r] \in Nat
           /\ SumFunctionOnSet(Held(p, A, M), RefundIds) \in Nat
<1> DEFINE f == [r \in RefundIds |-> M[r].amount]
           T == {r \in RefundIds : A[r].payment = p /\ M[r].status \in {"pending", "succeeded"}}
           g == [r \in RefundIds |-> IF r \in T THEN f[r] ELSE 0]
<1>1. IsFiniteSet(RefundIds) /\ IsFiniteSet(T) /\ T \in SUBSET RefundIds
  BY LedgerConstants, FS_Subset
<1>2. \A r \in RefundIds : f[r] \in Nat
  BY DEF MovedRow
<1>3. g = Held(p, A, M)
  BY DEF Held
<1>4. \A r \in RefundIds : g[r] \in Nat
  BY <1>2
<1> HIDE DEF f, T
<1>5. SumFunctionOnSet(f, T) = SumFunctionOnSet(g, RefundIds)
  BY <1>1, <1>2, SumFiltered
<1>6. SumFunctionOnSet(f, T) \in Nat
  BY <1>1, <1>2, SumIsNat
<1> QED BY <1>3, <1>4, <1>5, <1>6 DEF f, T

\* In particular in the present state.
LEMMA ProviderRefundedNow ==
    ASSUME moved \in [RefundIds -> MovedRow], NEW p
    PROVE  /\ ProviderRefunded(p) = SumFunctionOnSet(AtBank(p), RefundIds)
           /\ \A r \in RefundIds : AtBank(p)[r] \in Nat
           /\ ProviderRefunded(p) \in Nat
<1>1. ProviderRefunded(p) = SumFunctionOnSet([r \in RefundIds |-> moved[r].amount],
         {r \in RefundIds : ask[r].payment = p /\ moved[r].status \in {"pending", "succeeded"}})
  BY DEF ProviderRefunded
<1>2. AtBank(p) = Held(p, ask, moved)
  BY DEF AtBank
<1> QED BY <1>1, <1>2, ProviderRefundedIsSum

(***************************************************************************)
(* Why refunds stay within what was collected: the provider sees to it for *)
(* its payments, the balance checked again under the lock for the others.  *)
(***************************************************************************)
WithinReceipts ==
    /\ \A p \in PaymentIds : payment[p].status = "absent" => payment[p].amount = 0
    /\ \A r \in RefundIds : moved[r].status # "absent" => ask[r].payment # None
    /\ \A p \in PaymentIds : ProviderRefunded(p) <= payment[p].amount
    /\ \A p \in PaymentIds : ~IsProviderPayment(p) =>
           RefundedSoFar(p, refund) <= payment[p].amount

\* An amount on the books does not change, and one that comes new is no less
\* than nothing.
LEMMA AmountsGrow ==
    ASSUME Standing, Standing', WithinReceipts, RowsStand, NEW p \in PaymentIds
    PROVE  /\ payment[p].amount \in Nat /\ payment'[p].amount \in Nat
           /\ payment[p].amount <= payment'[p].amount
<1>1. payment[p].amount \in Nat /\ payment'[p].amount \in Nat
  BY DEF Standing, IInv, TypeOK, LedgerTypeOK, PaymentRow
<1>2. CASE payment[p].status = "absent"
  BY <1>1, <1>2 DEF WithinReceipts
<1>3. CASE payment[p].status # "absent"
  BY <1>1, <1>3 DEF RowsStand
<1> QED BY <1>1, <1>2, <1>3

\* The provider holds more of a payment only by a call that fits.
LEMMA BankMoves ==
    ASSUME Standing, WithinReceipts, [Next]_vars
    PROVE  /\ \A r \in RefundIds : moved'[r].status # "absent" => ask'[r].payment # None
           /\ \/ \A p \in PaymentIds, r \in RefundIds : AtBank(p)'[r] <= AtBank(p)[r]
              \/ \E p \in PaymentIds, r \in RefundIds :
                    /\ \A x \in PaymentIds, k \in RefundIds :
                           x # p \/ k # r => AtBank(x)'[k] <= AtBank(x)[k]
                    /\ AtBank(p)[r] = 0
                    /\ ProviderRefunded(p) + AtBank(p)'[r] <= payment[p].amount
<1> DEFINE Goal ==
       /\ \A r \in RefundIds : moved'[r].status # "absent" => ask'[r].payment # None
       /\ \/ \A p \in PaymentIds, r \in RefundIds : AtBank(p)'[r] <= AtBank(p)[r]
          \/ \E p \in PaymentIds, r \in RefundIds :
                /\ \A x \in PaymentIds, k \in RefundIds :
                       x # p \/ k # r => AtBank(x)'[k] <= AtBank(x)[k]
                /\ AtBank(p)[r] = 0
                /\ ProviderRefunded(p) + AtBank(p)'[r] <= payment[p].amount
<1>a. /\ ask \in [RefundIds -> AskRow] /\ moved \in [RefundIds -> MovedRow]
      /\ \A r \in RefundIds : moved[r].amount \in Nat
  BY DEF Standing, IInv, TypeOK, RefundingTypeOK, MovedRow
<1>b. \A r \in RefundIds : moved[r].status # "absent" => ask[r].payment # None
  BY DEF WithinReceipts
<1>1. ASSUME UNCHANGED <<ask, moved>> PROVE Goal
  BY <1>1, <1>a, <1>b DEF AtBank, Held
<1>2. ASSUME NEW q \in Requests, NEW r \in RefundIds, RefundPayment(q, r) PROVE Goal
  <2>1. PICK p \in PaymentIds, a \in Amounts \cup {0} :
           /\ ask[r] \in {NoAsk, [payment |-> p, amount |-> a]}
           /\ ask' = [ask EXCEPT ![r] = [payment |-> p, amount |-> a]]
    BY <1>2 DEF RefundPayment
  <2>2. UNCHANGED moved
    BY <1>2 DEF RefundPayment
  <2>3. ask'[r].payment # None
    BY <1>a, <2>1, LedgerConstants
  <2>4. \A k \in RefundIds : moved[k].status # "absent" => ask'[k] = ask[k]
    BY <1>a, <1>b, <2>1 DEF NoAsk
  <2>5. \A k \in RefundIds : k # r => ask'[k] = ask[k]
    BY <1>a, <2>1
  <2> QED BY <1>a, <1>b, <2>2, <2>3, <2>4, <2>5 DEF AtBank, Held
<1>3. ASSUME NEW r \in RefundIds, RefundResolves(r) PROVE Goal
  <2>1. /\ moved[r].status = "pending" /\ UNCHANGED ask
        /\ \E s \in {"succeeded", "failed"} : moved' = [moved EXCEPT ![r].status = s]
    BY <1>3 DEF RefundResolves
  <2>2. \A k \in RefundIds : /\ moved'[k].amount = moved[k].amount
                             /\ moved'[k] = moved[k] \/ moved[k].status = "pending"
    BY <1>a, <2>1 DEF MovedRow
  <2> QED BY <1>a, <1>b, <2>1, <2>2 DEF AtBank, Held
<1>4. ASSUME NEW q \in Requests, CallProvider(q) PROVE Goal
  <2> DEFINE charge == Charge(req[q].amount)
  <2>1. PICK r \in RefundIds, p \in PaymentIds :
           r = req[q].id /\ p = ask[r].payment /\ UNCHANGED ask
    BY <1>4 DEF CallProvider, Standing, IInv, TypeOK, RefundingTypeOK
  <2>2. CASE UNCHANGED moved
    BY <1>1, <2>1, <2>2
  <2>3. CASE /\ moved[r].status = "absent"
             /\ ProviderRefunded(p) + charge <= payment[p].amount
             /\ \E s \in {"pending", "succeeded", "failed"} :
                   moved' = [moved EXCEPT ![r] = [status |-> s, reply |-> s, amount |-> charge]]
    <3>1. charge \in Nat
      <4>1. req[q].amount \in Int
        BY DEF Standing, IInv, TypeOK, RefundingTypeOK, RequestRow
      <4>2. charge > 0
        BY <1>4, <2>1, <2>3 DEF CallProvider
      <4> QED BY <4>1, <4>2, ChargeIsInt
    <3>2. /\ moved'[r].amount = charge /\ \A k \in RefundIds : k # r => moved'[k] = moved[k]
      BY <1>a, <2>1, <2>3
    <3> HIDE DEF charge
    <3>3. AtBank(p)[r] = 0 /\ AtBank(p)'[r] \in {0, charge}
      BY <2>1, <2>3, <3>2 DEF AtBank, Held
    <3>4. ProviderRefunded(p) \in Nat
      BY <1>a, ProviderRefundedNow
    <3>5. payment[p].amount \in Nat
      BY <2>1 DEF Standing, IInv, TypeOK, LedgerTypeOK, PaymentRow
    <3>6. ProviderRefunded(p) + AtBank(p)'[r] <= payment[p].amount
      BY <2>3, <3>1, <3>3, <3>4, <3>5
    <3>7. \A x \in PaymentIds, k \in RefundIds :
              x # p \/ k # r => AtBank(x)'[k] <= AtBank(x)[k]
      BY <1>a, <2>1, <3>2 DEF AtBank, Held
    <3>8. \A k \in RefundIds : moved'[k].status # "absent" => ask'[k].payment # None
      BY <1>b, <2>1, <3>2, LedgerConstants
    <3> QED BY <3>3, <3>6, <3>7, <3>8
  <2> QED BY <1>4, <2>1, <2>2, <2>3 DEF CallProvider
<1> HIDE DEF Goal
<1>5. ASSUME RefundingNext PROVE Goal
  BY <1>1, <1>2, <1>3, <1>4, <1>5
  DEF RefundingNext, RecordRefund, DropRequest, RefundEventIgnored, SettleFailed, SettlementSums,
      SettlementCommits, SettlementAborts, refundingVars
<1>6. Goal
  BY <1>1, <1>5 DEF Next, vars, refundingVars
<1> QED BY <1>6 DEF Goal

\* Every step keeps refunds within receipts.
LEMMA NextKeepsWithinReceipts ==
    ASSUME Standing, Standing', WithinReceipts, [Next]_vars PROVE WithinReceipts'
<1>a. RowsStand
  BY NothingVanishes
<1>b. /\ refund \in Refunds /\ refund' \in Refunds
      /\ moved \in [RefundIds -> MovedRow] /\ moved' \in [RefundIds -> MovedRow]
  BY DEF Standing, IInv, TypeOK, LedgerTypeOK, RefundingTypeOK, Refunds
<1>c. \A p \in PaymentIds : /\ payment[p].amount \in Nat /\ payment'[p].amount \in Nat
                            /\ payment[p].amount <= payment'[p].amount
  BY <1>a, AmountsGrow
<1>1. ASSUME NEW p \in PaymentIds, payment'[p].status = "absent" PROVE payment'[p].amount = 0
  <2>1. payment[p].status = "absent"
    BY <1>1, <1>a DEF RowsStand
  <2>2. payment'[p] = payment[p]
    BY <1>1, <2>1, KindOfStep DEF Quiet, Sidelined, Credited, Shelved, Booked
  <2> QED BY <2>1, <2>2 DEF WithinReceipts
<1>2. \A r \in RefundIds : moved'[r].status # "absent" => ask'[r].payment # None
  BY BankMoves
<1>3. ASSUME NEW x \in PaymentIds PROVE ProviderRefunded(x)' <= payment'[x].amount
  <2> DEFINE f == AtBank(x)
             g == AtBank(x)'
             old == ProviderRefunded(x)
             new == ProviderRefunded(x)'
  <2>1. /\ old = SumFunctionOnSet(f, RefundIds) /\ old \in Nat
        /\ \A r \in RefundIds : f[r] \in Nat
    BY <1>b, ProviderRefundedNow
  <2>2. /\ new = SumFunctionOnSet(g, RefundIds) /\ new \in Nat
        /\ \A r \in RefundIds : g[r] \in Nat
    <3> DEFINE A == ask'
               M == moved'
    <3>1. new = SumFunctionOnSet([r \in RefundIds |-> M[r].amount],
             {r \in RefundIds : A[r].payment = x /\ M[r].status \in {"pending", "succeeded"}})
      BY DEF ProviderRefunded
    <3>2. g = Held(x, A, M) /\ M \in [RefundIds -> MovedRow]
      BY <1>b DEF AtBank, Held
    <3> HIDE DEF A, M, g, new
    <3> QED BY <3>1, <3>2, ProviderRefundedIsSum
  <2>3. old <= payment[x].amount
    BY DEF WithinReceipts
  <2>4. \/ \A r \in RefundIds : g[r] <= f[r]
        \/ \E r \in RefundIds : /\ \A k \in RefundIds : k # r => g[k] <= f[k]
                                /\ f[r] = 0 /\ old + g[r] <= payment[x].amount
    BY BankMoves
  <2> HIDE DEF f, g, old, new
  <2>5. CASE \A r \in RefundIds : g[r] <= f[r]
    <3>1. SumFunctionOnSet(g, RefundIds) <= SumFunctionOnSet(f, RefundIds)
      BY <2>1, <2>2, <2>5, LedgerConstants, SumMonotone
    <3> QED BY <1>c, <2>1, <2>2, <2>3, <3>1 DEF new
  <2>6. ASSUME NEW r \in RefundIds, \A k \in RefundIds : k # r => g[k] <= f[k],
               f[r] = 0, old + g[r] <= payment[x].amount
        PROVE  new <= payment'[x].amount
    <3> DEFINE h == [k \in RefundIds |-> IF k = r THEN g[r] ELSE f[k]]
    <3>1. \A k \in RefundIds : h[k] \in Int /\ f[k] \in Int /\ g[k] \in Int /\ g[k] <= h[k]
      BY <2>1, <2>2, <2>6
    <3>2. (\A k \in RefundIds : k # r => h[k] = f[k]) /\ h[r] = g[r]
      OBVIOUS
    <3> HIDE DEF h
    <3>3. SumFunctionOnSet(h, RefundIds) = SumFunctionOnSet(f, RefundIds) - f[r] + h[r]
      BY <3>1, <3>2, LedgerConstants, SumChange
    <3>4. SumFunctionOnSet(g, RefundIds) <= SumFunctionOnSet(h, RefundIds)
      BY <3>1, LedgerConstants, SumMonotone
    <3>5. SumFunctionOnSet(h, RefundIds) = old + g[r]
      BY <2>1, <2>2, <2>6, <3>2, <3>3
    <3> QED BY <1>c, <2>1, <2>2, <2>6, <3>4, <3>5
  <2> QED BY <2>4, <2>5, <2>6 DEF new
<1>4. ASSUME NEW x \in PaymentIds, ~IsProviderPayment(x)
      PROVE  RefundedSoFar(x, refund') <= payment'[x].amount
  <2>1. RefundedSoFar(x, refund) \in Nat /\ RefundedSoFar(x, refund) <= payment[x].amount
    BY <1>4, <1>b, RefundedIsNat DEF WithinReceipts
  <2>2. CASE UNCHANGED refund
    BY <1>c, <2>1, <2>2
  <2>3. ASSUME NEW r \in RefundIds, Shelved(r)
        PROVE  RefundedSoFar(x, refund') <= payment'[x].amount
    <3>1. \A k \in RefundIds : refund[k].status = "succeeded" \/ refund'[k].status = "succeeded" =>
              refund'[k] = refund[k]
      BY <2>3 DEF Shelved
    <3>2. RefundedSoFar(x, refund') = RefundedSoFar(x, refund)
      BY <1>b, <3>1, RefundedStays
    <3> QED BY <1>c, <2>1, <3>2
  <2>4. ASSUME NEW r \in RefundIds, NEW p \in PaymentIds, NEW i \in Invoices, Booked(r, p, i)
        PROVE  RefundedSoFar(x, refund') <= payment'[x].amount
    <3>1. /\ refund'[r].status = "succeeded" /\ refund[r].status # "succeeded"
          /\ refund'[r].payment = p /\ \A k \in RefundIds : k # r => refund'[k] = refund[k]
      BY <2>4 DEF Booked
    <3>2. RefundedSoFar(x, refund')
             = RefundedSoFar(x, refund) + (IF p = x THEN refund'[r].amount ELSE 0)
      BY <1>b, <3>1, RefundedWithOneMore
    <3>3. CASE p # x
      BY <1>c, <2>1, <3>2, <3>3
    <3>4. CASE p = x
      <4>1. refund'[r].amount <= payment[x].amount - ReservedSoFar(x, refund)
        BY <1>4, <2>4, <3>4 DEF Booked, Remaining
      <4>2. ReservedSoFar(x, refund) \in Nat /\ RefundedSoFar(x, refund) <= ReservedSoFar(x, refund)
        BY <1>b, RefundedIsNat, RefundedIsReserved
      <4>3. refund'[r].amount \in Nat
        BY <1>b DEF Refunds, RefundRow
      <4> QED BY <1>c, <2>1, <3>2, <3>4, <4>1, <4>2, <4>3
    <3> QED BY <3>3, <3>4
  <2> QED BY <2>2, <2>3, <2>4, KindOfStep DEF Quiet, Sidelined, Credited
<1> QED BY <1>1, <1>2, <1>3, <1>4 DEF WithinReceipts

\* What the books say a provider gave back, it did.
LEMMA GivenBackByProvider ==
    ASSUME Standing, NEW p \in PaymentIds, IsProviderPayment(p)
    PROVE  GivenBack(p) <= ProviderRefunded(p)
<1> DEFINE f == [r \in RefundIds |-> IF IsProviderPayment(p) THEN Charge(refund[r].amount)
                                                             ELSE refund[r].amount]
           T == {r \in RefundIds : refund[r].payment = p /\ refund[r].status = "succeeded"}
           g == [r \in RefundIds |-> IF r \in T THEN f[r] ELSE 0]
           h == AtBank(p)
<1>1. IsFiniteSet(RefundIds) /\ T \in SUBSET RefundIds
  BY LedgerConstants
<1>2. \A r \in RefundIds : refund[r].amount \in Int
  BY DEF Standing, IInv, TypeOK, LedgerTypeOK, RefundRow
<1>3. \A r \in RefundIds : f[r] \in Int
  BY <1>2, ChargeIsInt
<1>4. \A r \in RefundIds : g[r] \in Int
  BY <1>3
<1>5. /\ ProviderRefunded(p) = SumFunctionOnSet(h, RefundIds)
      /\ \A r \in RefundIds : h[r] \in Nat
  BY ProviderRefundedNow DEF Standing, IInv, TypeOK, RefundingTypeOK
<1>6. ASSUME NEW r \in RefundIds PROVE g[r] <= h[r]
  <2>1. CASE r \in T
    <3>1. /\ refund[r].payment = ask[r].payment /\ moved[r].status = "succeeded"
          /\ moved[r].amount = Charge(refund[r].amount)
      BY <2>1 DEF Standing, Reconciled, Promised
    <3>2. h[r] = Charge(refund[r].amount)
      BY <2>1, <3>1 DEF AtBank, Held
    <3>3. g[r] = Charge(refund[r].amount)
      BY <2>1
    <3> QED BY <1>5, <3>2, <3>3
  <2>2. CASE r \notin T
    BY <1>5, <2>2
  <2> QED BY <2>1, <2>2
<1>7. GivenBack(p) = SumFunctionOnSet(f, T)
  BY DEF GivenBack
<1> HIDE DEF f, T, h
<1>8. SumFunctionOnSet(f, T) = SumFunctionOnSet(g, RefundIds)
  BY <1>1, <1>3, SumFiltered
<1>9. \A r \in RefundIds : h[r] \in Int
  BY <1>5
<1> HIDE DEF g
<1>10. SumFunctionOnSet(g, RefundIds) <= SumFunctionOnSet(h, RefundIds)
  BY <1>1, <1>4, <1>6, <1>9, SumMonotone
<1> QED BY <1>5, <1>7, <1>8, <1>10

\* Nothing is given back by hand but what the rows say.
LEMMA GivenBackByHand ==
    ASSUME NEW p, ~IsProviderPayment(p) PROVE GivenBack(p) = RefundedSoFar(p, refund)
<1>1. [r \in RefundIds |-> IF IsProviderPayment(p) THEN Charge(refund[r].amount)
                                                   ELSE refund[r].amount]
         = [r \in RefundIds |-> refund[r].amount]
  OBVIOUS
<1>2. {r \in RefundIds : refund[r].payment = p /\ refund[r].status = "succeeded"}
         = {r \in RefundIds : refund[r].payment = p /\ refund[r].status \in {"succeeded"}}
  OBVIOUS
<1> QED BY <1>1, <1>2 DEF GivenBack, RefundedSoFar, RefundTotal

(* In every reachable state no provider has given back more of a payment   *)
(* than it collected, and manual refunds fit their payment.                *)
THEOREM WithinReceiptsHolds == Spec => [](Standing /\ WithinReceipts)
<1>1. Init => WithinReceipts
  <2>1. ASSUME Init, NEW p \in PaymentIds
        PROVE  /\ payment[p].status = "absent" /\ payment[p].amount = 0
               /\ ProviderRefunded(p) = 0 /\ RefundedSoFar(p, refund) = 0
    <3>1. /\ payment[p].status = "absent" /\ payment[p].amount = 0
          /\ \A r \in RefundIds : moved[r].status = "absent" /\ refund[r].status = "absent"
      BY <2>1 DEF Init, LedgerInit, RefundingInit, NoPayment, NoRefund, NotMoved
    <3>2. {r \in RefundIds : ask[r].payment = p /\ moved[r].status \in {"pending", "succeeded"}} = {}
      BY <3>1
    <3>3. {r \in RefundIds : refund[r].payment = p /\ refund[r].status \in {"succeeded"}} = {}
      BY <3>1
    <3> QED BY <3>1, <3>2, <3>3, SumEmpty DEF ProviderRefunded, RefundedSoFar, RefundTotal
  <2>2. Init => \A r \in RefundIds : moved[r].status = "absent"
    BY DEF Init, RefundingInit, NotMoved
  <2> QED BY <2>1, <2>2 DEF WithinReceipts
<1>2. Standing /\ WithinReceipts /\ [Next]_vars => WithinReceipts'
  BY NextKeepsStanding, NextKeepsWithinReceipts
<1> QED BY StandingHolds, <1>1, <1>2, PTL DEF Spec

(* The refunds of a payment never give back more than it brought, whatever *)
(* requests, retries, lost replies and late settlements interleave, and    *)
(* for amounts with fractions of a minor unit too.                         *)
THEOREM NeverOverRefunded == Spec => []NoOverRefund
<1>1. ASSUME Standing, WithinReceipts, NEW p \in PaymentIds
      PROVE  GivenBack(p) <= payment[p].amount
  <2>1. CASE IsProviderPayment(p)
    <3>1. GivenBack(p) <= ProviderRefunded(p) /\ ProviderRefunded(p) <= payment[p].amount
      BY <1>1, <2>1, GivenBackByProvider DEF WithinReceipts
    <3>2. ProviderRefunded(p) \in Nat /\ payment[p].amount \in Nat
      BY <1>1, ProviderRefundedNow
      DEF Standing, IInv, TypeOK, LedgerTypeOK, RefundingTypeOK, PaymentRow
    <3>3. GivenBack(p) \in Int
      <4> DEFINE f == [r \in RefundIds |-> IF IsProviderPayment(p) THEN Charge(refund[r].amount)
                                                                   ELSE refund[r].amount]
                 T == {r \in RefundIds : refund[r].payment = p /\ refund[r].status = "succeeded"}
      <4>1. \A r \in RefundIds : refund[r].amount \in Int
        BY <1>1 DEF Standing, IInv, TypeOK, LedgerTypeOK, RefundRow
      <4>2. \A r \in T : f[r] \in Int
        BY <4>1, ChargeIsInt
      <4>3. IsFiniteSet(T)
        BY LedgerConstants, FS_Subset
      <4>4. GivenBack(p) = SumFunctionOnSet(f, T)
        BY DEF GivenBack
      <4> HIDE DEF f, T
      <4> QED BY <4>2, <4>3, <4>4, SumIsInt
    <3> QED BY <3>1, <3>2, <3>3
  <2>2. CASE ~IsProviderPayment(p)
    BY <1>1, <2>2, GivenBackByHand DEF WithinReceipts
  <2> QED BY <2>1, <2>2
<1>2. Standing /\ WithinReceipts => NoOverRefund
  BY <1>1 DEF NoOverRefund
<1> QED BY WithinReceiptsHolds, <1>2, PTL

-----------------------------------------------------------------------------
(***************************************************************************)
(* The statistics page.                                                    *)
(***************************************************************************)

\* A payment is shown as refunded only when all of it was.
RefundedInFull ==
    \A p \in PaymentIds : payment[p].status = "refunded" =>
        RefundedSoFar(p, refund) >= payment[p].amount

\* Every step keeps it so.
LEMMA NextKeepsRefundedInFull ==
    ASSUME Standing, Standing', RefundedInFull, [Next]_vars PROVE RefundedInFull'
<1> SUFFICES ASSUME NEW p \in PaymentIds, payment'[p].status = "refunded"
             PROVE  RefundedSoFar(p, refund') >= payment'[p].amount
  BY DEF RefundedInFull
<1>a. RowsStand
  BY NothingVanishes
<1>b. refund \in Refunds /\ refund' \in Refunds /\ payment[p].amount \in Nat
  BY DEF Standing, IInv, TypeOK, LedgerTypeOK, Refunds, PaymentRow
<1>1. CASE payment[p].status = "refunded"
  <2>1. RefundedSoFar(p, refund) >= payment[p].amount /\ payment'[p].amount = payment[p].amount
    BY <1>1, <1>a DEF RefundedInFull, RowsStand
  <2>2. RefundedSoFar(p, refund) <= RefundedSoFar(p, refund')
    BY <1>a, <1>b, RefundedGrows DEF RowsStand
  <2>3. RefundedSoFar(p, refund) \in Nat /\ RefundedSoFar(p, refund') \in Nat
    BY <1>b, RefundedIsNat
  <2> QED BY <1>b, <2>1, <2>2, <2>3
<1>2. CASE payment[p].status # "refunded"
  <2>1. ~Quiet
    BY <1>2 DEF Quiet
  <2>2. \A x \in PaymentIds : ~Sidelined(x)
    BY <1>2 DEF Sidelined
  <2>3. \A x \in PaymentIds, i \in Invoices : ~Credited(x, i)
    BY <1>2 DEF Credited
  <2>4. \A r \in RefundIds : ~Shelved(r)
    BY <1>2 DEF Shelved
  <2>5. PICK r \in RefundIds, x \in PaymentIds, i \in Invoices : Booked(r, x, i)
    BY <2>1, <2>2, <2>3, <2>4, KindOfStep
  <2> QED BY <1>2, <2>5 DEF Booked
<1> QED BY <1>1, <1>2

\* What each payment adds to the total collected, and to what is kept.
Taken == [p \in PaymentIds |-> IF payment[p].status \in Collected THEN payment[p].amount ELSE 0]
Returned == [p \in PaymentIds |-> RefundedSoFar(p, refund)]
Kept == [p \in PaymentIds |->
            IF payment[p].status \in Crediting THEN NotRefunded(payment, refund)[p] ELSE 0]

\* The rows as the statistics read them.
LEMMA RowsOfStatistics ==
    ASSUME Standing
    PROVE  /\ payment \in Ledgers /\ refund \in Refunds
           /\ IsFiniteSet(PaymentIds) /\ IsFiniteSet(RefundIds) /\ IsFiniteSet(Invoices)
           /\ \A p \in PaymentIds : /\ payment[p].amount \in Nat
                                    /\ Taken[p] \in Nat /\ Returned[p] \in Nat /\ Kept[p] \in Int
                                    /\ NotRefunded(payment, refund)[p] \in Int
<1>1. /\ payment \in Ledgers /\ refund \in Refunds
      /\ \A p \in PaymentIds : payment[p].amount \in Nat
  BY DEF Standing, IInv, TypeOK, LedgerTypeOK, Ledgers, Refunds, PaymentRow
<1>2. \A p \in PaymentIds : RefundedSoFar(p, refund) \in Nat
  BY <1>1, RefundedIsNat
<1>3. \A p \in PaymentIds : NotRefunded(payment, refund)[p] \in Int
  BY <1>1, NotRefundedIsInt
<1> QED BY <1>1, <1>2, <1>3, LedgerConstants DEF Taken, Returned, Kept

\* The groups of by_payment_method are all there is.
LEMMA GroupsAddUp ==
    ASSUME Standing
    PROVE  ByPaymentMethod["stripe"] + ByPaymentMethod["paypal"] + ByPaymentMethod["manual"]
              = TotalCollected
<1> DEFINE S == CollectedPayments
           f == Gross
<1>1. /\ S \in SUBSET PaymentIds /\ IsFiniteSet(S) /\ \A p \in S : f[p] \in Int
      /\ IsFiniteSet(S \ Intents)
  BY RowsOfStatistics, FS_Subset DEF CollectedPayments, Gross
<1>2. /\ (S \ Intents) \cap Orders = S \cap Orders
      /\ (S \ Intents) \ Orders = S \cap ManualPayments
  BY <1>1, LedgerConstants DEF PaymentIds
<1>3. /\ ByPaymentMethod["stripe"] = SumFunctionOnSet(f, S \cap Intents)
      /\ ByPaymentMethod["paypal"] = SumFunctionOnSet(f, S \cap Orders)
      /\ ByPaymentMethod["manual"] = SumFunctionOnSet(f, S \cap ManualPayments)
      /\ TotalCollected = SumFunctionOnSet(f, S)
  BY DEF ByPaymentMethod, TotalCollected
<1> HIDE DEF S, f
<1>4. SumFunctionOnSet(f, S)
         = SumFunctionOnSet(f, S \cap Intents) + SumFunctionOnSet(f, S \ Intents)
  <2>1. IsFiniteSet(S) /\ \A p \in S : f[p] \in Int
    BY <1>1
  <2> QED BY ONLY <2>1, SumSplit
<1>5. SumFunctionOnSet(f, S \ Intents)
         = SumFunctionOnSet(f, (S \ Intents) \cap Orders)
              + SumFunctionOnSet(f, (S \ Intents) \ Orders)
  BY <1>1, SumSplit
<1>6. /\ IsFiniteSet(S \cap Intents) /\ IsFiniteSet(S \cap Orders)
      /\ IsFiniteSet(S \cap ManualPayments)
  BY <1>1, FS_Subset
<1>7. /\ SumFunctionOnSet(f, S \cap Intents) \in Int
      /\ SumFunctionOnSet(f, S \cap Orders) \in Int
      /\ SumFunctionOnSet(f, S \cap ManualPayments) \in Int
  BY <1>1, <1>6, SumIsInt
<1> DEFINE a == SumFunctionOnSet(f, S \cap Intents)
           b == SumFunctionOnSet(f, S \cap Orders)
           c == SumFunctionOnSet(f, S \cap ManualPayments)
<1>8. SumFunctionOnSet(f, S) = a + (b + c)
  BY <1>2, <1>4, <1>5
<1>9. a \in Int /\ b \in Int /\ c \in Int
  BY <1>7
<1> HIDE DEF a, b, c
<1>10. a + (b + c) = a + b + c
  BY <1>9
<1> QED BY <1>3, <1>8, <1>10 DEF a, b, c

\* The bulk form asks for what get_amount_due asks for, invoice by invoice.
LEMMA OutstandingIsDue ==
    ASSUME Standing
    PROVE  Outstanding = SumFunctionOnSet([i \in Invoices |-> AmountDue(i)],
                                          {i \in Invoices : Payable(i)})
<1> DEFINE paidBy(i) == SumFunctionOnSet(NotRefunded(payment, refund),
                           {p \in PaymentIds : /\ payment[p].invoice = i
                                               /\ payment[p].status \in Crediting})
           owed == [i \in Invoices |->
                      IF paidBy(i) > invoice[i].total THEN 0 ELSE invoice[i].total - paidBy(i)]
<1>1. Outstanding = SumFunctionOnSet(owed, {i \in Invoices : invoice[i].status \in {"sent", "overdue"}})
  BY DEF Outstanding
<1>2. {i \in Invoices : invoice[i].status \in {"sent", "overdue"}} = {i \in Invoices : Payable(i)}
  BY DEF Payable
<1>3. ASSUME NEW i \in Invoices PROVE owed[i] = AmountDue(i)
  <2>1. paidBy(i) = PaidSoFar(i, payment, refund)
    BY DEF PaidSoFar, Crediting
  <2>2. PaidSoFar(i, payment, refund) \in Int
    BY RowsOfStatistics, PaidIsSum
  <2>3. invoice[i].total \in Nat
    BY DEF Standing, IInv, TypeOK, LedgerTypeOK, InvoiceRow
  <2>4. owed[i] = IF PaidSoFar(i, payment, refund) > invoice[i].total THEN 0
                  ELSE invoice[i].total - PaidSoFar(i, payment, refund)
    BY <2>1
  <2> HIDE DEF owed
  <2> QED BY <2>2, <2>3, <2>4 DEF AmountDue
<1>4. owed = [i \in Invoices |-> AmountDue(i)]
  BY <1>3
<1> HIDE DEF owed
<1> QED BY <1>1, <1>2, <1>4

\* The refunds that went through, payment by payment.
LEMMA RefundsByPayment ==
    ASSUME Standing PROVE TotalRefunded = SumFunctionOnSet(Returned, PaymentIds)
<1> DEFINE f == [r \in RefundIds |-> refund[r].amount]
           S == {r \in RefundIds : refund[r].status = "succeeded"}
           key == [r \in RefundIds |-> refund[r].payment]
           K == PaymentIds
<1>1. /\ IsFiniteSet(S) /\ IsFiniteSet(K) /\ S \in SUBSET RefundIds
  BY RowsOfStatistics, FS_Subset
<1>2. \A r \in S : f[r] \in Int /\ key[r] \in K
  BY DEF Standing, IInv, TypeOK, LedgerTypeOK, RefundRow
<1>3. ASSUME NEW p \in K
      PROVE  Returned[p] = SumFunctionOnSet(f, {r \in S : key[r] = p})
  <2>1. {r \in S : key[r] = p}
           = {r \in RefundIds : refund[r].payment = p /\ refund[r].status \in {"succeeded"}}
    OBVIOUS
  <2> QED BY <2>1 DEF Returned, RefundedSoFar, RefundTotal
<1>4. Returned = [p \in K |-> SumFunctionOnSet(f, {r \in S : key[r] = p})]
  BY <1>3 DEF Returned
<1>5. TotalRefunded = SumFunctionOnSet(f, S)
  BY DEF TotalRefunded
<1> HIDE DEF f, S, key, K
<1>6. SumFunctionOnSet([p \in K |-> SumFunctionOnSet(f, {r \in S : key[r] = p})], K)
         = SumFunctionOnSet(f, S)
  BY <1>1, <1>2, SumByGroup
<1> QED BY <1>4, <1>5, <1>6 DEF K

\* What invoices are still credited with, payment by payment.
LEMMA CreditsByPayment ==
    ASSUME Standing
    PROVE  SumFunctionOnSet([i \in Invoices |-> PaidSoFar(i, payment, refund)], Invoices)
              = SumFunctionOnSet(Kept, PaymentIds)
<1> DEFINE f == NotRefunded(payment, refund)
           S == {p \in PaymentIds : payment[p].status \in Crediting}
           key == [p \in PaymentIds |-> payment[p].invoice]
           K == Invoices
           paid == [i \in K |-> PaidSoFar(i, payment, refund)]
<1>1. /\ IsFiniteSet(S) /\ IsFiniteSet(K) /\ S \in SUBSET PaymentIds /\ IsFiniteSet(PaymentIds)
      /\ \A p \in PaymentIds : f[p] \in Int
  BY RowsOfStatistics, FS_Subset
<1>2. \A p \in S : f[p] \in Int /\ key[p] \in K
  BY <1>1 DEF Standing, IInv, TypeOK, LedgerTypeOK, Crediting
<1>3. ASSUME NEW i \in K
      PROVE  paid[i] = SumFunctionOnSet(f, {p \in S : key[p] = i})
  <2>1. {p \in S : key[p] = i}
           = {p \in PaymentIds : /\ payment[p].invoice = i
                                 /\ payment[p].status \in {"succeeded", "partially_refunded"}}
    BY DEF Crediting
  <2> QED BY <2>1 DEF PaidSoFar
<1>4. paid = [i \in K |-> SumFunctionOnSet(f, {p \in S : key[p] = i})]
  BY <1>3
<1>5. Kept = [p \in PaymentIds |-> IF p \in S THEN f[p] ELSE 0]
  BY DEF Kept
<1> HIDE DEF f, S, key, paid
<1>6. SumFunctionOnSet([i \in K |-> SumFunctionOnSet(f, {p \in S : key[p] = i})], K)
         = SumFunctionOnSet(f, S)
  BY <1>1, <1>2, SumByGroup
<1>7. SumFunctionOnSet(f, S) = SumFunctionOnSet(Kept, PaymentIds)
  BY <1>1, <1>5, SumFiltered
<1> QED BY <1>4, <1>6, <1>7 DEF paid

\* As long as refunds match receipts, each payment's money is either kept or
\* returned.
LEMMA KeptOrReturned ==
    ASSUME Standing, RefundedInFull, RefundsMatchReceipts, NEW p \in PaymentIds
    PROVE  /\ Taken[p] = Kept[p] + Returned[p]
           /\ payment[p].status \in Collected => NotRefunded(payment, refund)[p] = Kept[p]
           /\ payment[p].status \notin Collected => Kept[p] = 0
<1> DEFINE back == RefundedSoFar(p, refund)
           amount == payment[p].amount
<1>1. /\ back \in Nat /\ amount \in Nat
      /\ Returned[p] = back /\ NotRefunded(payment, refund)[p] = amount - back
  BY RowsOfStatistics, RefundedIsNat, NotRefundedIsInt DEF Returned
<1>2. /\ back <= (IF payment[p].status \in Collected THEN amount ELSE 0)
      /\ payment[p].status = "refunded" => back >= amount
  BY DEF RefundsMatchReceipts, RefundedInFull
<1>3. /\ Taken[p] = IF payment[p].status \in Collected THEN amount ELSE 0
      /\ Kept[p] = IF payment[p].status \in Crediting THEN NotRefunded(payment, refund)[p] ELSE 0
  BY DEF Taken, Kept
<1>4. payment[p].status \in Collected <=>
         payment[p].status \in Crediting \/ payment[p].status = "refunded"
  BY DEF Collected, Crediting
<1>5. payment[p].status = "refunded" => payment[p].status \notin Crediting
  BY DEF Crediting
<1> HIDE DEF back, amount
<1> QED BY <1>1, <1>2, <1>3, <1>4, <1>5

\* The net without the payments lost to disputes.
LEMMA NetIsKept ==
    ASSUME Standing, RefundedInFull, RefundsMatchReceipts, NEW D
    PROVE  /\ NetCollected(D) = SumFunctionOnSet(Kept, PaymentIds \ D)
           /\ NetCollected(D) = SumFunctionOnSet(NotRefunded(payment, refund),
                                   {p \in PaymentIds \ D : payment[p].status \in Crediting})
<1> DEFINE P == PaymentIds
           f == NotRefunded(payment, refund)
           C == CollectedPayments \cap D
           T == {p \in P \ D : payment[p].status \in Crediting}
<1>1. /\ IsFiniteSet(P) /\ IsFiniteSet(P \ D) /\ IsFiniteSet(P \cap D) /\ IsFiniteSet(C)
      /\ IsFiniteSet(CollectedPayments) /\ IsFiniteSet(T)
      /\ C \in SUBSET (P \cap D) /\ T \in SUBSET (P \ D) /\ CollectedPayments \in SUBSET P
  BY RowsOfStatistics, FS_Subset DEF CollectedPayments
<1>2. \A p \in P : /\ Taken[p] \in Int /\ Returned[p] \in Int /\ Kept[p] \in Int
                   /\ f[p] \in Int /\ Gross[p] \in Int
  BY RowsOfStatistics DEF Gross
<1>3. \A p \in P : /\ Taken[p] = Kept[p] + Returned[p]
                   /\ p \in CollectedPayments => f[p] = Kept[p]
                   /\ p \notin CollectedPayments => Kept[p] = 0
  BY KeptOrReturned DEF CollectedPayments
<1>4. Taken = [p \in P |-> IF p \in CollectedPayments THEN Gross[p] ELSE 0]
  BY DEF Taken, Gross, CollectedPayments
<1>5. \A p \in P \ D : Kept[p] = [x \in P \ D |-> IF x \in T THEN f[x] ELSE 0][p]
  BY DEF Kept
<1>6. NetCollected(D) = TotalCollected - TotalRefunded - SumFunctionOnSet(f, C)
  BY DEF NetCollected, LostToDisputes
<1> HIDE DEF P, f, C, T
<1>7. TotalCollected = SumFunctionOnSet(Taken, P)
  BY <1>1, <1>2, <1>4, SumFiltered DEF TotalCollected
<1>8. TotalRefunded = SumFunctionOnSet(Returned, P)
  BY RefundsByPayment DEF P
<1>9. SumFunctionOnSet(Taken, P) = SumFunctionOnSet(Kept, P) + SumFunctionOnSet(Returned, P)
  BY <1>1, <1>2, <1>3, SumPlus
<1>10. SumFunctionOnSet(f, C) = SumFunctionOnSet(Kept, P \cap D)
  <2>1. C = CollectedPayments \cap D
    BY DEF C
  <2>2. \A p \in C : Kept[p] \in Int /\ f[p] = Kept[p]
    BY <1>1, <1>2, <1>3, <2>1
  <2>3. SumFunctionOnSet(f, C) = SumFunctionOnSet(Kept, C)
    BY <1>1, <2>2, SumSame
  <2>4. /\ \A p \in P \cap D : Kept[p] \in Int
        /\ \A p \in (P \cap D) \ C : Kept[p] = 0
    BY <1>2, <1>3, <2>1
  <2>5. SumFunctionOnSet(Kept, P \cap D) = SumFunctionOnSet(Kept, C)
    BY <1>1, <2>4, SumAbsent
  <2> QED BY <2>3, <2>5
<1>11. SumFunctionOnSet(Kept, P)
          = SumFunctionOnSet(Kept, P \cap D) + SumFunctionOnSet(Kept, P \ D)
  <2>1. IsFiniteSet(P) /\ \A p \in P : Kept[p] \in Int
    BY <1>1, <1>2
  <2> QED BY <2>1, SumSplit
<1>12. /\ SumFunctionOnSet(Kept, P) \in Int /\ SumFunctionOnSet(Returned, P) \in Int
       /\ SumFunctionOnSet(Kept, P \cap D) \in Int /\ SumFunctionOnSet(Kept, P \ D) \in Int
  BY <1>1, <1>2, SumIsInt
<1>13. NetCollected(D) = SumFunctionOnSet(Kept, P \ D)
  <2> DEFINE a == SumFunctionOnSet(Kept, P)
             b == SumFunctionOnSet(Returned, P)
             c == SumFunctionOnSet(Kept, P \cap D)
             d == SumFunctionOnSet(Kept, P \ D)
  <2>1. NetCollected(D) = (a + b) - b - c /\ a = c + d
    BY <1>6, <1>7, <1>8, <1>9, <1>10, <1>11
  <2>2. a \in Int /\ b \in Int /\ c \in Int /\ d \in Int
    BY <1>12
  <2> HIDE DEF a, b, c, d
  <2>3. NetCollected(D) = d
    BY <2>1, <2>2
  <2> QED BY <2>3 DEF d
<1>14. SumFunctionOnSet(Kept, P \ D) = SumFunctionOnSet(f, T)
  <2> DEFINE g == [x \in P \ D |-> IF x \in T THEN f[x] ELSE 0]
  <2>1. \A p \in P \ D : f[p] \in Int /\ g[p] \in Int /\ Kept[p] = g[p]
    BY <1>2, <1>5
  <2>2. SumFunctionOnSet(f, T) = SumFunctionOnSet(g, P \ D)
    BY <1>1, <2>1, SumFiltered
  <2> HIDE DEF g
  <2>3. SumFunctionOnSet(Kept, P \ D) = SumFunctionOnSet(g, P \ D)
    BY <1>1, <2>1, SumSame
  <2> QED BY <2>2, <2>3
<1> QED BY <1>13, <1>14 DEF P, f, T

(* The statistics page's net is what the business kept, its groups add up  *)
(* to its total, and outstanding is what is still due: for any number of   *)
(* invoices, payments and refunds, and any set of lost disputes.           *)
THEOREM NetIsKeptAlways == Spec => []NetIsWhatWasKept
<1>1. Init => RefundedInFull
  BY DEF Init, LedgerInit, NoPayment, RefundedInFull
<1>2. Standing /\ RefundedInFull /\ [Next]_vars => RefundedInFull'
  BY NextKeepsStanding, NextKeepsRefundedInFull
<1>3. ASSUME Standing, RefundedInFull PROVE NetIsWhatWasKept
  <2>1. ASSUME RefundsMatchReceipts
        PROVE  NetCollected({}) = SumFunctionOnSet(
                   [i \in Invoices |-> PaidSoFar(i, payment, refund)], Invoices)
    <3>1. PaymentIds \ {} = PaymentIds
      OBVIOUS
    <3>2. NetCollected({}) = SumFunctionOnSet(Kept, PaymentIds)
      BY <1>3, <2>1, <3>1, NetIsKept
    <3> QED BY <1>3, <3>2, CreditsByPayment
  <2>2. ASSUME RefundsMatchReceipts, NEW disputed \in SUBSET Intents
        PROVE  NetCollected(disputed) = SumFunctionOnSet(NotRefunded(payment, refund),
                   {p \in PaymentIds \ disputed : payment[p].status \in Crediting})
    <3>1. disputed \in SUBSET PaymentIds
      BY DEF PaymentIds
    <3> QED BY <1>3, <2>2, <3>1, NetIsKept
  <2> QED BY <1>3, <2>1, <2>2, GroupsAddUp, OutstandingIsDue DEF NetIsWhatWasKept
<1> QED BY StandingHolds, <1>1, <1>2, <1>3, PTL DEF Spec

=============================================================================
