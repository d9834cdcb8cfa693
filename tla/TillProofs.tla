------------------------------ MODULE TillProofs ------------------------------
(***************************************************************************)
(* The invoice ledger is a till, as long as amounts are entered in whole   *)
(* minor units (MinorUnit = 1: a stored amount is a number of cents).      *)
(* Fractions break it: what a provider gives back is rounded, what the     *)
(* rows say was given back is not.                                         *)
(*                                                                         *)
(* A step of the ledger is one of the kinds of MoneyProofs; what is left   *)
(* is what it does at the providers (BankSteps), that credit once taken    *)
(* stays taken (Owned), that every sum in sight is one that can be entered *)
(* or billed, or a part of it (Priced), and that what settles an invoice   *)
(* covers it.                                                              *)
(***************************************************************************)
EXTENDS MoneyProofs

\* With whole minor units there is nothing to round.
LEMMA ChargeIsExact == ASSUME MinorUnit = 1, NEW a \in Int PROVE Charge(a) = a
  BY DEF Charge

\* A payment's refunds then never add up to more than it brought.
LEMMA RefundsFit ==
    ASSUME MinorUnit = 1, Standing, WithinReceipts, NEW p \in PaymentIds
    PROVE  RefundedSoFar(p, refund) <= payment[p].amount
<1> DEFINE T == {r \in RefundIds : refund[r].payment = p /\ refund[r].status = "succeeded"}
           f == [r \in RefundIds |-> refund[r].amount]
           g == [r \in RefundIds |-> Charge(refund[r].amount)]
<1>1. CASE ~IsProviderPayment(p)
  BY <1>1 DEF WithinReceipts
<1>2. CASE IsProviderPayment(p)
  <2>1. IsFiniteSet(T) /\ T \in SUBSET RefundIds
    BY LedgerConstants, FS_Subset
  <2>2. \A r \in T : f[r] \in Int /\ g[r] = f[r]
    BY ChargeIsExact DEF Standing, IInv, TypeOK, LedgerTypeOK, RefundRow
  <2>3. GivenBack(p) = SumFunctionOnSet(g, T)
    BY <1>2 DEF GivenBack
  <2>4. RefundedSoFar(p, refund) = SumFunctionOnSet(f, T)
    <3>1. T = {r \in RefundIds : refund[r].payment = p /\ refund[r].status \in {"succeeded"}}
      OBVIOUS
    <3> QED BY <3>1 DEF RefundedSoFar, RefundTotal
  <2> HIDE DEF T, f, g
  <2>5. SumFunctionOnSet(g, T) = SumFunctionOnSet(f, T)
    BY <2>1, <2>2, SumSame
  <2>6. /\ GivenBack(p) <= ProviderRefunded(p) /\ ProviderRefunded(p) <= payment[p].amount
        /\ ProviderRefunded(p) \in Int /\ payment[p].amount \in Int
        /\ RefundedSoFar(p, refund) \in Int
    BY <1>2, GivenBackByProvider, ProviderRefundedNow, RefundedIsNat
    DEF WithinReceipts, Standing, IInv, TypeOK, LedgerTypeOK, RefundingTypeOK, PaymentRow, Refunds
  <2> QED BY <2>3, <2>4, <2>5, <2>6
<1> QED BY <1>1, <1>2

\* What has no row has had no refund.
LEMMA NoRowNoRefund ==
    ASSUME Standing, NEW p \in PaymentIds, payment[p].status = "absent"
    PROVE  RefundedSoFar(p, refund) = 0
<1> DEFINE T == {r \in RefundIds : refund[r].payment = p /\ refund[r].status \in {"succeeded"}}
<1>1. \A r \in RefundIds : refund[r].status = "succeeded" => refund[r].payment # p
  BY DEF Standing, IInv, Linked
<1>2. T = {}
  BY <1>1
<1> QED BY <1>2, SumEmpty DEF RefundedSoFar, RefundTotal

-----------------------------------------------------------------------------
(***************************************************************************)
(* What was taken for an invoice covers it whenever what was paid does.    *)
(***************************************************************************)

\* The payments that have ever been credited, as P and R have them.
Got(P, R) == {p \in PaymentIds : P[p].status \in Collected \/ RefundedSoFar(p, R) > 0}

\* What each brought and did not give back, by what the till says of it.
Left(P, R) ==
    [p \in PaymentIds |-> (IF p \in Got(P, R) THEN P[p].amount ELSE 0) - RefundedSoFar(p, R)]

For(i, P, R) == {p \in PaymentIds : i \in (IF p \in Got(P, R) THEN {P[p].invoice} ELSE {})}

\* As long as refunds fit, what is left of an invoice's payments is at least
\* what counts as paid: a payment the status does not count adds no less than
\* nothing.
LEMMA CoverCounts ==
    ASSUME NEW i, NEW P \in Ledgers, NEW R \in Refunds,
           \A p \in PaymentIds : RefundedSoFar(p, R) <= P[p].amount
    PROVE  /\ SumFunctionOnSet(Left(P, R), For(i, P, R)) >= PaidSoFar(i, P, R)
           /\ SumFunctionOnSet(Left(P, R), For(i, P, R)) \in Int
           /\ PaidSoFar(i, P, R) \in Nat
<1> DEFINE S == For(i, P, R)
           T == {p \in PaymentIds : /\ P[p].invoice = i
                                    /\ P[p].status \in {"succeeded", "partially_refunded"}}
           f == Left(P, R)
           g == NotRefunded(P, R)
<1>1. S \in SUBSET PaymentIds /\ T \in SUBSET S
  BY DEF For, Got, Collected
<1>2. IsFiniteSet(S) /\ IsFiniteSet(T)
  BY <1>1, LedgerConstants, FS_Subset
<1>3. \A p \in PaymentIds : RefundedSoFar(p, R) \in Nat /\ P[p].amount \in Nat
  BY RefundedIsNat DEF Ledgers, PaymentRow
<1>4. \A p \in S : f[p] \in Nat /\ g[p] = f[p]
  BY <1>1, <1>3 DEF Left, For, NotRefunded
<1>5. PaidSoFar(i, P, R) = SumFunctionOnSet(g, T)
  BY DEF PaidSoFar
<1> HIDE DEF S, T, f, g
<1>6. SumFunctionOnSet(f, T) <= SumFunctionOnSet(f, S)
  BY <1>1, <1>2, <1>4, SumWithin
<1>7. SumFunctionOnSet(f, T) = SumFunctionOnSet(g, T)
  <2>1. \A p \in T : f[p] \in Int /\ g[p] = f[p]
    BY <1>1, <1>4
  <2> QED BY <1>2, <2>1, SumSame
<1>8. SumFunctionOnSet(f, T) \in Nat /\ SumFunctionOnSet(f, S) \in Nat
  BY <1>1, <1>2, <1>4, SumIsNat
<1> QED BY <1>5, <1>6, <1>7, <1>8 DEF f, S

\* The amount due is a part of the total.
LEMMA DueFits ==
    ASSUME MinorUnit = 1, Standing, WithinReceipts, NEW i \in Invoices
    PROVE  AmountDue(i) \in 0..invoice[i].total /\ Charge(AmountDue(i)) = AmountDue(i)
<1>1. payment \in Ledgers /\ refund \in Refunds /\ invoice[i].total \in Nat
  BY DEF Standing, IInv, TypeOK, LedgerTypeOK, Ledgers, Refunds, InvoiceRow
<1>2. PaidSoFar(i, payment, refund) \in Nat
  BY <1>1, RefundsFit, CoverCounts
<1>3. AmountDue(i) \in 0..invoice[i].total
  BY <1>1, <1>2 DEF AmountDue
<1>4. AmountDue(i) \in Int
  BY <1>1, <1>3
<1> QED BY <1>3, <1>4, ChargeIsExact

-----------------------------------------------------------------------------
(***************************************************************************)
(* Money once taken stays taken: a refunded status has a refund behind it, *)
(* and a refund, asked for or recorded, is one of a payment that was       *)
(* credited, whatever its row says by then.                                *)
(***************************************************************************)
Owned ==
    /\ \A p \in PaymentIds : payment[p].status \in {"partially_refunded", "refunded"} =>
           RefundedSoFar(p, refund) > 0
    /\ \A q \in Requests : req[q].step # "idle" => Received(ask[req[q].id].payment)
    /\ \A r \in RefundIds : refund[r].status # "absent" => Received(refund[r].payment)

\* A payment that was credited has a row.
LEMMA ReceivedHasRow ==
    ASSUME Standing, NEW p \in PaymentIds, Received(p)
    PROVE  payment[p].status # "absent"
  BY NoRowNoRefund DEF Received, Collected

\* And it was collected at its provider.
LEMMA ReceivedIsProvided ==
    ASSUME Standing, NEW p \in PaymentIds, Received(p)
    PROVE  Provided(p)
<1>1. CASE payment[p].status \in Collected
  BY <1>1 DEF Standing, Backed
<1>2. CASE RefundedSoFar(p, refund) > 0
  <2> DEFINE T == {r \in RefundIds : refund[r].payment = p /\ refund[r].status \in {"succeeded"}}
  <2>1. CASE T = {}
    BY <1>2, <2>1, SumEmpty DEF RefundedSoFar, RefundTotal
  <2>2. CASE T # {}
    BY <2>2 DEF Standing, Backed
  <2> QED BY <2>1, <2>2
<1> QED BY <1>1, <1>2 DEF Received

\* What was refunded of a payment never shrinks.
LEMMA RepaidGrows ==
    ASSUME Standing, Standing', [Next]_vars, NEW p
    PROVE  /\ RefundedSoFar(p, refund) <= RefundedSoFar(p, refund')
           /\ RefundedSoFar(p, refund) \in Nat /\ RefundedSoFar(p, refund') \in Nat
<1>1. RowsStand
  BY NothingVanishes
<1>2. refund \in Refunds /\ refund' \in Refunds
  BY DEF Standing, IInv, TypeOK, LedgerTypeOK, Refunds
<1>3. \A r \in RefundIds : refund[r].status = "succeeded" =>
          /\ refund'[r].status = "succeeded" /\ refund'[r].payment = refund[r].payment
          /\ refund'[r].amount = refund[r].amount
  BY <1>1 DEF RowsStand
<1> QED BY <1>2, <1>3, RefundedGrows, RefundedIsNat

\* Credit once given is never forgotten.
LEMMA ReceivedStays ==
    ASSUME Standing, Standing', Owned, [Next]_vars, NEW p \in PaymentIds, Received(p)
    PROVE  Received(p)'
<1>1. CASE RefundedSoFar(p, refund) > 0
  BY <1>1, RepaidGrows DEF Received
<1>2. CASE payment[p].status \in {"partially_refunded", "refunded"}
  BY <1>1, <1>2 DEF Owned
<1>3. CASE payment[p].status = "succeeded"
  <2>1. CreditsMove
    BY NextKeepsBacked DEF Standing
  <2>2. payment'[p].status \in Collected
    BY <1>3, <2>1 DEF CreditsMove, Collected
  <2> QED BY <2>2 DEF Received
<1> QED BY <1>1, <1>2, <1>3 DEF Received, Collected

\* A refund request in progress has just been let in, or goes on as it was.
LEMMA RequestsGoOn ==
    ASSUME Standing, [Next]_vars, NEW q \in Requests, req'[q].step # "idle"
    PROVE  \/ /\ req[q].step # "idle" /\ req'[q].id = req[q].id
              /\ ask'[req'[q].id].payment = ask[req[q].id].payment
           \/ /\ ask'[req'[q].id].payment \in PaymentIds
              /\ Refundable(ask'[req'[q].id].payment)
<1>a. /\ req \in [Requests -> RequestRow] /\ ask \in [RefundIds -> AskRow]
      /\ \A x \in Requests : req[x].step # "idle" =>
             req[x].id \in RefundIds /\ ask[req[x].id].payment \in PaymentIds
  BY DEF Standing, IInv, TypeOK, RefundingTypeOK
<1> DEFINE Goal == \/ /\ req[q].step # "idle" /\ req'[q].id = req[q].id
                      /\ ask'[req'[q].id].payment = ask[req[q].id].payment
                   \/ /\ ask'[req'[q].id].payment \in PaymentIds
                      /\ Refundable(ask'[req'[q].id].payment)
<1>1. ASSUME NEW x \in Requests, NEW r \in RefundIds, RefundPayment(x, r) PROVE Goal
  <2>1. PICK p \in PaymentIds, a \in Amounts \cup {0} :
           /\ ask[r] \in {NoAsk, [payment |-> p, amount |-> a]}
           /\ Refundable(p)
           /\ ask' = [ask EXCEPT ![r] = [payment |-> p, amount |-> a]]
           /\ \E amount \in Nat : req' = [req EXCEPT ![x] =
                  [step |-> "validated", id |-> r, amount |-> amount,
                   status |-> "absent", seenPayment |-> payment[p].status,
                   seenInvoice |-> invoice[payment[p].invoice].status]]
    BY <1>1 DEF RefundPayment
  <2>2. ask'[r].payment = p /\ \A k \in RefundIds : k # r => ask'[k] = ask[k]
    BY <1>a, <2>1
  <2>3. CASE q = x
    <3>1. req'[q].id = r
      BY <1>a, <2>1, <2>3
    <3> QED BY <2>1, <2>2, <3>1
  <2>4. CASE q # x
    <3>1. req'[q] = req[q]
      BY <1>a, <2>1, <2>4
    <3>2. CASE req[q].id = r
      BY <2>1, <2>2, <3>1, <3>2
    <3>3. CASE req[q].id # r
      BY <1>a, <2>2, <3>1, <3>3
    <3> QED BY <3>2, <3>3
  <2> QED BY <2>3, <2>4
<1>2. ASSUME UNCHANGED ask, req'[q].step # "idle" => req[q].step # "idle" /\ req'[q].id = req[q].id
      PROVE  Goal
  BY <1>2
<1>3. ASSUME NEW x \in Requests, req' = [req EXCEPT ![x] = Idle], UNCHANGED ask PROVE Goal
  BY <1>2, <1>3, <1>a DEF Idle
<1>4. ASSUME NEW x \in Requests, CallProvider(x) PROVE Goal
  <2>1. req[x].step # "idle" /\ UNCHANGED ask /\ (Answered(x) \/ req' = [req EXCEPT ![x] = Idle])
    BY <1>4 DEF CallProvider
  <2>2. CASE Answered(x)
    <3>1. /\ req'[q].id = req[q].id
          /\ q # x => req'[q] = req[q]
      BY <1>a, <2>2 DEF Answered, RequestRow
    <3> QED BY <1>2, <2>1, <3>1
  <2> QED BY <1>3, <2>1, <2>2
<1>5. ASSUME NEW x \in Requests, DropRequest(x) \/ RecordRefund(x) PROVE Goal
  BY <1>3, <1>5 DEF DropRequest, RecordRefund
<1>6. ASSUME UNCHANGED <<ask, req>> PROVE Goal
  BY <1>2, <1>6
<1>7. CASE CollectionNext /\ UNCHANGED <<refund, refundingVars>>
  BY <1>6, <1>7 DEF refundingVars
<1>8. ASSUME NEW r \in RefundIds,
             \/ RefundResolves(r) \/ RefundEventIgnored(r) \/ SettleFailed(r)
             \/ SettlementSums(r) \/ SettlementCommits(r) \/ SettlementAborts(r)
      PROVE  Goal
  BY <1>6, <1>8 DEF RefundResolves, RefundEventIgnored, SettleFailed, SettlementSums,
     SettlementCommits, SettlementAborts, refundingVars
<1>9. CASE UNCHANGED vars
  BY <1>6, <1>9 DEF vars, refundingVars
<1> HIDE DEF Goal
<1>10. ASSUME RefundingNext PROVE Goal
  BY <1>1, <1>4, <1>5, <1>8, <1>10 DEF RefundingNext
<1> QED BY <1>7, <1>9, <1>10 DEF Next, Goal

\* Only a request in progress inserts a refund, of the payment it is about.
LEMMA RefundsComeFromRequests ==
    ASSUME Standing, [Next]_vars, NEW r \in RefundIds,
           refund[r].status = "absent", refund'[r].status # "absent"
    PROVE  \E q \in Requests : /\ req[q].step # "idle"
                               /\ refund'[r].payment = ask[req[q].id].payment
<1> DEFINE Goal == \E q \in Requests : /\ req[q].step # "idle"
                                       /\ refund'[r].payment = ask[req[q].id].payment
<1>a. refund \in [RefundIds -> RefundRow]
  BY DEF Standing, IInv, TypeOK, LedgerTypeOK
<1>1. ASSUME NEW q \in Requests, RecordRefund(q) PROVE Goal
  <2>1. /\ req[q].step # "idle"
        /\ \/ UNCHANGED refund
           \/ refund' = [refund EXCEPT ![req[q].id] =
                 [status |-> Outcome(q), payment |-> ask[req[q].id].payment,
                  amount |-> req[q].amount]]
    BY <1>1 DEF RecordRefund
  <2> QED BY <1>a, <2>1
<1>2. ASSUME NEW k \in RefundIds, SettleFailed(k) \/ SettlementCommits(k) PROVE Goal
  <2>1. refund[k].status # "absent"
    BY <1>2 DEF SettleFailed, SettlementCommits, Standing, IInv, Linked
  <2>2. \E s \in RefundStatus : refund' = [refund EXCEPT ![k].status = s]
    BY <1>2 DEF SettleFailed, SettlementCommits, RefundStatus
  <2> QED BY <1>a, <2>1, <2>2
<1>3. ASSUME UNCHANGED refund PROVE Goal
  BY <1>3
<1>4. ASSUME NEW q \in Requests,
             \/ \E k \in RefundIds : RefundPayment(q, k)
             \/ CallProvider(q) \/ DropRequest(q)
      PROVE  Goal
  BY <1>3, <1>4 DEF RefundPayment, CallProvider, DropRequest, ledgerVars
<1>5. ASSUME NEW k \in RefundIds,
             \/ RefundResolves(k) \/ RefundEventIgnored(k)
             \/ SettlementSums(k) \/ SettlementAborts(k)
      PROVE  Goal
  BY <1>3, <1>5 DEF RefundResolves, RefundEventIgnored, SettlementSums, SettlementAborts, ledgerVars
<1>6. CASE UNCHANGED refund
  BY <1>3, <1>6
<1> HIDE DEF Goal
<1>7. ASSUME RefundingNext PROVE Goal
  BY <1>1, <1>2, <1>4, <1>5, <1>7 DEF RefundingNext
<1> QED BY <1>6, <1>7 DEF Next, vars, ledgerVars, Goal

\* Every step keeps credit and refunds together.
LEMMA NextKeepsOwned == ASSUME Standing, Standing', Owned, [Next]_vars PROVE Owned'
<1>a. \A p \in PaymentIds : Received(p) => Received(p)'
  BY ReceivedStays
<1>b. RowsStand
  BY NothingVanishes
<1>1. ASSUME NEW p \in PaymentIds, payment'[p].status \in {"partially_refunded", "refunded"}
      PROVE  RefundedSoFar(p, refund') > 0
  <2>1. CASE payment[p].status \in {"partially_refunded", "refunded"}
    BY <2>1, RepaidGrows DEF Owned
  <2>2. CASE payment[p].status \notin {"partially_refunded", "refunded"}
    <3>1. \E r \in RefundIds, x \in PaymentIds, i \in Invoices : Booked(r, x, i)
      BY <1>1, <2>2, KindOfStep DEF Quiet, Sidelined, Credited, Shelved
    <3>2. PICK r \in RefundIds, x \in PaymentIds, i \in Invoices : Booked(r, x, i)
      BY <3>1
    <3>3. refund'[r].status = "succeeded" /\ refund'[r].payment = p
      BY <1>1, <2>2, <3>2 DEF Booked
    <3>4. refund'[r].amount > 0 /\ refund'[r].amount \in Nat
      BY <3>3 DEF Standing, IInv, TypeOK, LedgerTypeOK, RefundRow
    <3>5. RefundedSoFar(p, refund') = RefundedSoFar(p, refund) + refund'[r].amount
      <4>1. refund \in Refunds /\ refund' \in Refunds
        BY DEF Standing, IInv, TypeOK, LedgerTypeOK, Refunds
      <4>2. refund[r].status # "succeeded" /\ \A y \in RefundIds : y # r => refund'[y] = refund[y]
        BY <3>2 DEF Booked
      <4> QED BY <3>3, <4>1, <4>2, RefundedWithOneMore
    <3> QED BY <3>4, <3>5, RepaidGrows
  <2> QED BY <2>1, <2>2
<1>2. ASSUME NEW q \in Requests, req'[q].step # "idle"
      PROVE  Received(ask[req[q].id].payment)'
  <2>1. ask'[req'[q].id].payment \in PaymentIds
    BY <1>2 DEF Standing, IInv, TypeOK, RefundingTypeOK
  <2>2. PICK p \in PaymentIds : p = ask'[req'[q].id].payment
    BY <2>1
  <2>3. Received(p)
    BY <1>2, <2>2, RequestsGoOn DEF Owned, Received, Refundable, Collected
  <2>4. Received(p)'
    BY <1>a, <2>3
  <2> QED BY <2>2, <2>4 DEF Received
<1>3. ASSUME NEW r \in RefundIds, refund'[r].status # "absent"
      PROVE  Received(refund[r].payment)'
  <2>1. PICK p \in PaymentIds : p = refund'[r].payment
    BY <1>3 DEF Standing, IInv, TypeOK, LedgerTypeOK
  <2>2. Received(p)
    <3>1. CASE refund[r].status # "absent"
      BY <1>b, <2>1, <3>1 DEF RowsStand, Owned
    <3>2. CASE refund[r].status = "absent"
      BY <1>3, <2>1, <3>2, RefundsComeFromRequests DEF Owned
    <3> QED BY <3>1, <3>2
  <2>3. Received(p)'
    BY <1>a, <2>2
  <2> QED BY <2>1, <2>3 DEF Received
<1> QED BY <1>1, <1>2, <1>3 DEF Owned

-----------------------------------------------------------------------------
(***************************************************************************)
(* The sums that occur: what is billed, what is entered, or a part of it.  *)
(***************************************************************************)
Priced ==
    /\ \A i \in Invoices : invoice[i].status # "absent" => invoice[i].total \in Totals
    /\ \A m \in ManualPayments : payment[m].status # "absent" => payment[m].amount \in Moneys
    /\ \A n \in Intents : intent[n].status \in {"live", "succeeded"} => intent[n].amount \in Moneys
    /\ \A o \in Orders : order[o].status # "absent" => order[o].amount \in Moneys

\* A part of a sum is a sum, and so is what is billed or entered.
LEMMA PartsAreMoneys ==
    /\ \A t \in Totals \cup Amounts : t \in Nat /\ t \in Moneys
    /\ \A a \in Moneys : a \in Nat /\ \A b \in Nat : b <= a => b \in Moneys
<1>1. ASSUME NEW t \in Totals \cup Amounts PROVE t \in Nat /\ t \in Moneys
  <2>1. t \in Nat
    BY LedgerConstants
  <2>2. t \in 0..t
    BY <2>1
  <2> QED BY <2>1, <2>2 DEF Moneys
<1>2. ASSUME NEW a \in Moneys PROVE a \in Nat /\ \A b \in Nat : b <= a => b \in Moneys
  <2>1. PICK t \in Totals \cup Amounts : a \in 0..t
    BY DEF Moneys
  <2>2. t \in Nat
    BY LedgerConstants
  <2>3. \A b \in Nat : b <= a => b \in 0..t
    BY <2>1, <2>2
  <2> QED BY <2>1, <2>2, <2>3 DEF Moneys
<1> QED BY <1>1, <1>2

\* A payment recorded by hand is for what the admin entered.
LEMMA ManualIsEntered ==
    ASSUME Standing, [Next]_vars, NEW m \in ManualPayments,
           payment[m].status = "absent", payment'[m].status # "absent"
    PROVE  payment'[m].amount \in Amounts
<1> USE LedgerConstants
<1> DEFINE Goal == payment'[m].amount \in Amounts
<1>a. /\ payment \in [PaymentIds -> PaymentRow] /\ m \in PaymentIds
      /\ m \notin Intents /\ m \notin Orders
  BY DEF Standing, IInv, TypeOK, LedgerTypeOK, PaymentIds
<1>b. ASSUME payment'[m] = payment[m] PROVE Goal
  BY <1>b
<1>1. ASSUME NEW i \in Invoices, NEW x \in ManualPayments, NEW a \in Amounts,
             RecordManualPayment(i, x, a)
      PROVE  Goal
  BY <1>1, <1>a DEF RecordManualPayment
<1>2. ASSUME NEW x \in Intents \cup Orders, NEW row, payment' = [payment EXCEPT ![x] = row]
      PROVE  Goal
  BY <1>2, <1>a, <1>b
<1>3. ASSUME NEW n \in Intents, PaymentIntentSucceeded(n) \/ PaymentIntentFailed(n) PROVE Goal
  <2>1. \E row : payment' = [payment EXCEPT ![n] = row]
    BY <1>3 DEF PaymentIntentSucceeded, PaymentIntentFailed
  <2> QED BY <1>2, <2>1
<1>4. ASSUME NEW o \in Orders, NEW i \in Invoices, CaptureInvoicePaypalPayment(i, o) PROVE Goal
  <2>1. UNCHANGED payment \/ \E row : payment' = [payment EXCEPT ![o] = row]
    BY <1>4 DEF CaptureInvoicePaypalPayment, RecordCapture
  <2> QED BY <1>2, <1>b, <2>1
<1>5. ASSUME NEW o \in Orders, ReconcilePaypalCapture(o) PROVE Goal
  <2>1. \E row : payment' = [payment EXCEPT ![o] = row]
    BY <1>5 DEF ReconcilePaypalCapture
  <2> QED BY <1>2, <2>1
<1>6. ASSUME UNCHANGED payment PROVE Goal
  BY <1>6, <1>b
<1>7. ASSUME NEW i \in Invoices,
             \/ CreateInvoice(i) \/ VoidInvoice(i)
             \/ \E acknowledged \in BOOLEAN : SendInvoice(i, acknowledged)
             \/ \E n \in Intents : PayInvoice(i, n)
             \/ PayInvoiceCreateFails(i)
             \/ \E o \in Orders : PayInvoiceViaPaypal(i, o)
      PROVE  Goal
  BY <1>6, <1>7 DEF CreateInvoice, VoidInvoice, SendInvoice, PayInvoice, PayInvoiceCreateFails,
     PayInvoiceViaPaypal, ledgerVars
<1>8. ASSUME NEW n \in Intents,
             \/ ConfirmIntent(n) \/ DeclineIntent(n)
             \/ \E kind \in {"payment_intent.succeeded", "payment_intent.payment_failed"} :
                   UnmatchedIntentEvent(n, kind)
      PROVE  Goal
  BY <1>6, <1>8 DEF ConfirmIntent, DeclineIntent, UnmatchedIntentEvent
<1>9. ASSUME SweepWrite \/ (\E due \in SUBSET Invoices : SweepRead(due))
             \/ \E o \in Orders : ReviewEnds(o)
      PROVE  Goal
  BY <1>6, <1>9 DEF SweepWrite, SweepRead, ReviewEnds, ledgerVars
<1> HIDE DEF Goal
<1>10. ASSUME CollectionNext PROVE Goal
  BY <1>1, <1>3, <1>4, <1>5, <1>7, <1>8, <1>9, <1>10 DEF CollectionNext
<1>11. ASSUME RefundingNext PROVE Goal
  <2>1. CASE UNCHANGED <<invoice, payment, refund>>
    BY <1>6, <2>1
  <2>2. ASSUME NEW r \in RefundIds, Shelved(r) PROVE Goal
    BY <1>6, <2>2 DEF Shelved
  <2>3. ASSUME NEW r \in RefundIds, NEW p \in PaymentIds, NEW i \in Invoices, Booked(r, p, i)
        PROVE  Goal
    BY <1>a, <1>b, <2>3 DEF Booked
  <2> QED BY <1>11, <2>1, <2>2, <2>3, KindsOfRefunding DEF Standing
<1>12. ASSUME UNCHANGED vars PROVE Goal
  BY <1>6, <1>12 DEF vars, ledgerVars
<1> QED BY <1>10, <1>11, <1>12 DEF Next, Goal

\* An order is opened for what is due.
LEMMA OrdersOpen ==
    ASSUME Standing, [Next]_vars, NEW o \in Orders, order[o].status = "absent",
           order'[o].status # "absent"
    PROVE  \E i \in Invoices : PayInvoiceViaPaypal(i, o)
<1> DEFINE Goal == \E i \in Invoices : PayInvoiceViaPaypal(i, o)
<1>a. order \in [Orders -> OrderRow]
  BY DEF Standing, IInv, TypeOK, CollectionTypeOK
<1>1. ASSUME UNCHANGED order PROVE Goal
  BY <1>1
<1>2. ASSUME NEW i \in Invoices, NEW x \in Orders, PayInvoiceViaPaypal(i, x) PROVE Goal
  BY <1>2, <1>a DEF PayInvoiceViaPaypal
<1>3. ASSUME NEW i \in Invoices, NEW x \in Orders, CaptureInvoicePaypalPayment(i, x) PROVE Goal
  <2>1. PICK outcome \in CaptureOutcome(x), heard \in BOOLEAN :
          order' = AfterCapture(x, outcome, heard)
    BY <1>3 DEF CaptureInvoicePaypalPayment
  <2>2. outcome \in OrderStatus /\ order[x].status # "absent"
    BY <1>3, <1>a, <2>1 DEF CaptureOutcome, CaptureInvoicePaypalPayment, OrderRow, OrderStatus
  <2> QED BY <1>a, <2>1, <2>2, CaptureMovesOrder
<1>4. ASSUME NEW x \in Orders, ReviewEnds(x) PROVE Goal
  BY <1>4, <1>a DEF ReviewEnds
<1>5. ASSUME NEW i \in Invoices,
             \/ CreateInvoice(i) \/ VoidInvoice(i)
             \/ \E acknowledged \in BOOLEAN : SendInvoice(i, acknowledged)
             \/ \E m \in ManualPayments, a \in Amounts : RecordManualPayment(i, m, a)
             \/ \E n \in Intents : PayInvoice(i, n)
             \/ PayInvoiceCreateFails(i)
      PROVE  Goal
  BY <1>1, <1>5 DEF CreateInvoice, VoidInvoice, SendInvoice, RecordManualPayment, PayInvoice,
     PayInvoiceCreateFails, collectionVars
<1>6. ASSUME \/ SweepWrite \/ (\E due \in SUBSET Invoices : SweepRead(due))
             \/ \E x \in Orders : ReconcilePaypalCapture(x)
             \/ \E n \in Intents :
                   \/ ConfirmIntent(n) \/ DeclineIntent(n)
                   \/ PaymentIntentSucceeded(n) \/ PaymentIntentFailed(n)
                   \/ \E kind \in {"payment_intent.succeeded", "payment_intent.payment_failed"} :
                         UnmatchedIntentEvent(n, kind)
      PROVE  Goal
  BY <1>1, <1>6 DEF SweepWrite, SweepRead, ReconcilePaypalCapture, ConfirmIntent, DeclineIntent,
     PaymentIntentSucceeded, PaymentIntentFailed, UnmatchedIntentEvent, collectionVars
<1> HIDE DEF Goal
<1>7. ASSUME CollectionNext PROVE Goal
  BY <1>2, <1>3, <1>4, <1>5, <1>6, <1>7 DEF CollectionNext
<1> QED BY <1>1, <1>7 DEF Next, vars, collectionVars, Goal

\* Every step keeps sums among those billed and entered.
LEMMA NextKeepsPriced ==
    ASSUME MinorUnit = 1, Standing, Standing', WithinReceipts, Priced, [Next]_vars PROVE Priced'
<1>a. RowsStand
  BY NothingVanishes
<1>b. ProvidersGrow
  BY NextKeepsBacked DEF Standing
<1>c. ASSUME NEW i \in Invoices, MayStartPayment(i)
      PROVE  Charge(AmountDue(i)) \in Moneys
  <2>1. invoice[i].total \in Totals
    BY <1>c DEF MayStartPayment, Payable, Priced
  <2>2. /\ Charge(AmountDue(i)) \in Nat /\ Charge(AmountDue(i)) <= invoice[i].total
    BY DueFits DEF Standing, IInv, TypeOK, LedgerTypeOK, InvoiceRow
  <2> QED BY <2>1, <2>2, PartsAreMoneys
<1>1. ASSUME NEW i \in Invoices, invoice'[i].status # "absent" PROVE invoice'[i].total \in Totals
  <2>1. CASE invoice[i].status # "absent"
    BY <1>a, <2>1 DEF RowsStand, Priced
  <2>2. CASE invoice[i].status = "absent"
    <3>1. \A p \in PaymentIds, j \in Invoices : ~Credited(p, j) \/ invoice'[i] = invoice[i]
      BY <2>2 DEF Credited, Later
    <3>2. \A r \in RefundIds, p \in PaymentIds, j \in Invoices :
             ~Booked(r, p, j) \/ invoice'[i] = invoice[i]
      BY <2>2 DEF Booked, Later
    <3>3. Quiet
      BY <1>1, <2>2, <3>1, <3>2, KindOfStep DEF Sidelined, Shelved
    <3> QED BY <1>1, <2>2, <3>3 DEF Quiet, Created, LivesOn
  <2> QED BY <2>1, <2>2
<1>2. ASSUME NEW m \in ManualPayments, payment'[m].status # "absent"
      PROVE  payment'[m].amount \in Moneys
  <2>1. CASE payment[m].status # "absent"
    BY <1>a, <2>1 DEF RowsStand, Priced, PaymentIds
  <2>2. CASE payment[m].status = "absent"
    BY <1>2, <2>2, ManualIsEntered, PartsAreMoneys
  <2> QED BY <2>1, <2>2
<1>3. ASSUME NEW n \in Intents, intent'[n].status \in {"live", "succeeded"}
      PROVE  intent'[n].amount \in Moneys
  <2>1. CASE intent[n].status \in {"live", "succeeded"}
    BY <1>b, <2>1 DEF ProvidersGrow, Priced
  <2>2. CASE intent[n].status \notin {"live", "succeeded"}
    <3>1. PICK i \in Invoices, m \in Intents : PayInvoice(i, m)
      BY <1>3, <2>2, IntentsOfStripe
    <3>2. /\ MayStartPayment(i)
          /\ intent' = [StaleIntentCanceled(i) EXCEPT ![m] =
                [status |-> "live", invoice |-> i, amount |-> Charge(AmountDue(i))]]
      BY <3>1 DEF PayInvoice
    <3>3. StaleIntentCanceled(i) \in [Intents -> IntentRow]
      BY <3>1 DEF StaleIntentCanceled, IntentStatus, Standing, IInv, TypeOK, LedgerTypeOK,
         CollectionTypeOK, InvoiceRow, IntentRow
    <3>4. CASE n = m
      BY <1>c, <3>2, <3>3, <3>4
    <3>5. CASE n # m
      <4>1. intent'[n].status = StaleIntentCanceled(i)[n].status
        BY <3>2, <3>3, <3>5
      <4>2. StaleIntentCanceled(i)[n].status \in {intent[n].status, "canceled"}
        BY DEF StaleIntentCanceled, IntentStatus, Standing, IInv, TypeOK, LedgerTypeOK,
           CollectionTypeOK, InvoiceRow, IntentRow
      <4> QED BY <1>3, <2>2, <4>1, <4>2
    <3> QED BY <3>4, <3>5
  <2> QED BY <2>1, <2>2
<1>4. ASSUME NEW o \in Orders, order'[o].status # "absent" PROVE order'[o].amount \in Moneys
  <2>1. CASE order[o].status # "absent"
    BY <1>b, <2>1 DEF ProvidersGrow, Priced
  <2>2. CASE order[o].status = "absent"
    <3>1. PICK i \in Invoices : PayInvoiceViaPaypal(i, o)
      BY <1>4, <2>2, OrdersOpen
    <3>2. MayStartPayment(i) /\ order'[o].amount = Charge(AmountDue(i))
      BY <3>1 DEF PayInvoiceViaPaypal, Standing, IInv, TypeOK, CollectionTypeOK
    <3> QED BY <1>c, <3>2
  <2> QED BY <2>1, <2>2
<1> QED BY <1>1, <1>2, <1>3, <1>4 DEF Priced

-----------------------------------------------------------------------------
(***************************************************************************)
(* What a step does at the providers: nothing; it collects there, and the  *)
(* ledger does not know yet; or it collects and credits at once.           *)
(***************************************************************************)
LEMMA BankSteps ==
    ASSUME Standing, Standing', Priced, [Next]_vars
    PROVE  \/ Charged' = Charged
           \/ /\ UNCHANGED <<invoice, payment, refund>>
              /\ \E p \in Intents \cup Orders, a \in Moneys :
                    Charged[p] = 0 /\ Charged' = [Charged EXCEPT ![p] = a]
           \/ \E o \in Orders :
                 /\ payment[o].status # "succeeded" /\ payment'[o].status = "succeeded"
                 /\ Charged[o] = 0
                 /\ \A x \in PaymentIds : x # o => Charged'[x] = Charged[x]
<1> USE LedgerConstants
<1> DEFINE Collects ==
             /\ UNCHANGED <<invoice, payment, refund>>
             /\ \E p \in Intents \cup Orders, a \in Moneys :
                   Charged[p] = 0 /\ Charged' = [Charged EXCEPT ![p] = a]
           Captures ==
             \E o \in Orders :
                 /\ payment[o].status # "succeeded" /\ payment'[o].status = "succeeded"
                 /\ Charged[o] = 0
                 /\ \A x \in PaymentIds : x # o => Charged'[x] = Charged[x]
           Goal == Charged' = Charged \/ Collects \/ Captures
<1>a. /\ intent \in [Intents -> IntentRow] /\ order \in [Orders -> OrderRow]
      /\ invoice \in [Invoices -> InvoiceRow] /\ payment \in [PaymentIds -> PaymentRow]
  BY DEF Standing, IInv, TypeOK, LedgerTypeOK, CollectionTypeOK
<1>b. ASSUME \A p \in PaymentIds : AtProvider(p)' = AtProvider(p) PROVE Goal
  BY <1>b DEF Charged
<1>c. ASSUME NEW p \in Intents \cup Orders, AtProvider(p) = 0,
             \A x \in PaymentIds : x # p => AtProvider(x)' = AtProvider(x),
             AtProvider(p)' \in Moneys, UNCHANGED <<invoice, payment, refund>>
      PROVE  Goal
  <2>1. p \in PaymentIds
    BY DEF PaymentIds
  <2>2. Charged[p] = 0 /\ Charged' = [Charged EXCEPT ![p] = AtProvider(p)']
    BY <1>c, <2>1 DEF Charged
  <2> QED BY <1>c, <2>2
<1>1. ASSUME UNCHANGED <<intent, order>> PROVE Goal
  <2>1. \A p \in PaymentIds : AtProvider(p)' = AtProvider(p)
    BY <1>1 DEF AtProvider
  <2> QED BY <1>b, <2>1
<1>2. ASSUME NEW i \in Invoices, NEW n \in Intents, PayInvoice(i, n) PROVE Goal
  <2>1. \A m \in Intents : intent[m].status = "succeeded" <=> intent'[m].status = "succeeded"
    <3>1. /\ intent[n].status = "absent"
          /\ intent' = [StaleIntentCanceled(i) EXCEPT ![n] =
                [status |-> "live", invoice |-> i, amount |-> Charge(AmountDue(i))]]
      BY <1>2 DEF PayInvoice
    <3>2. /\ StaleIntentCanceled(i) \in [Intents -> IntentRow]
          /\ \A m \in Intents :
                StaleIntentCanceled(i)[m].status = "succeeded" <=> intent[m].status = "succeeded"
      BY <1>a DEF StaleIntentCanceled, IntentStatus, InvoiceRow, IntentRow
    <3> QED BY <3>1, <3>2
  <2>2. ProvidersGrow
    BY NextKeepsBacked DEF Standing
  <2>3. \A p \in PaymentIds : AtProvider(p)' = AtProvider(p)
    BY <1>2, <2>1, <2>2 DEF PayInvoice, AtProvider, ProvidersGrow
  <2> QED BY <1>b, <2>3
<1>3. ASSUME NEW i \in Invoices, PayInvoiceCreateFails(i) PROVE Goal
  <2>1. \A m \in Intents : intent[m].status = "succeeded" <=> intent'[m].status = "succeeded"
    BY <1>3, <1>a DEF PayInvoiceCreateFails, StaleIntentCanceled, IntentStatus, InvoiceRow, IntentRow
  <2>2. ProvidersGrow
    BY NextKeepsBacked DEF Standing
  <2>3. \A p \in PaymentIds : AtProvider(p)' = AtProvider(p)
    BY <1>3, <2>1, <2>2 DEF PayInvoiceCreateFails, AtProvider, ProvidersGrow
  <2> QED BY <1>b, <2>3
<1>4. ASSUME NEW i \in Invoices, NEW o \in Orders, PayInvoiceViaPaypal(i, o) PROVE Goal
  <2>1. \A p \in PaymentIds : AtProvider(p)' = AtProvider(p)
    BY <1>4, <1>a DEF PayInvoiceViaPaypal, AtProvider
  <2> QED BY <1>b, <2>1
<1>5. ASSUME NEW n \in Intents, ConfirmIntent(n), UNCHANGED refund PROVE Goal
  <2>1. /\ intent[n].status = "live" /\ intent[n].amount \in Moneys
        /\ intent'[n].status = "succeeded" /\ intent'[n].amount = intent[n].amount
        /\ \A m \in Intents : m # n => intent'[m] = intent[m]
    BY <1>5, <1>a DEF ConfirmIntent, Priced
  <2>2. AtProvider(n) = 0 /\ AtProvider(n)' = intent[n].amount
    BY <2>1 DEF AtProvider
  <2>3. \A x \in PaymentIds : x # n => AtProvider(x)' = AtProvider(x)
    BY <1>5, <2>1 DEF ConfirmIntent, AtProvider
  <2>4. UNCHANGED <<invoice, payment, refund>>
    BY <1>5 DEF ConfirmIntent
  <2> QED BY <1>c, <2>1, <2>2, <2>3, <2>4
<1>6. ASSUME NEW o \in Orders, ReviewEnds(o) PROVE Goal
  <2>1. /\ order[o].status = "held" /\ order[o].amount \in Moneys
        /\ order'[o].status \in {"completed", "declined"} /\ order'[o].amount = order[o].amount
        /\ \A x \in Orders : x # o => order'[x] = order[x]
        /\ UNCHANGED <<invoice, payment, refund, intent>>
    BY <1>6, <1>a DEF ReviewEnds, Priced, ledgerVars
  <2>2. \A x \in PaymentIds : x # o => AtProvider(x)' = AtProvider(x)
    BY <2>1 DEF AtProvider
  <2>3. AtProvider(o) = 0 /\ AtProvider(o)' \in {0, order[o].amount}
    BY <2>1 DEF AtProvider
  <2>4. CASE AtProvider(o)' = 0
    BY <1>b, <2>2, <2>3, <2>4
  <2>5. CASE AtProvider(o)' = order[o].amount
    BY <1>c, <2>1, <2>2, <2>3, <2>5
  <2> QED BY <2>3, <2>4, <2>5
<1>7. ASSUME NEW i \in Invoices, NEW o \in Orders, CaptureInvoicePaypalPayment(i, o),
             UNCHANGED refund
      PROVE  Goal
  <2>a. PICK outcome \in CaptureOutcome(o), heard \in BOOLEAN :
          /\ order' = AfterCapture(o, outcome, heard)
          /\ \/ IsRecorded(i, o, outcome) /\ RecordCapture(i, o, outcome)
             \/ UNCHANGED <<invoice, payment>>
    BY <1>7 DEF CaptureInvoicePaypalPayment
  <2>b. /\ order'[o].status = IF Captured(o) THEN order[o].status ELSE outcome
        /\ order'[o].amount = order[o].amount
        /\ \A x \in Orders : x # o => order'[x] = order[x]
    <3>1. outcome \in OrderStatus
      BY <1>a, <2>a DEF CaptureOutcome, OrderRow, OrderStatus
    <3> QED BY <1>a, <2>a, <3>1, CaptureMovesOrder
  <2>1. CASE Captured(o)
    <3>1. /\ \A x \in Orders : order'[x].status = order[x].status
                                /\ order'[x].amount = order[x].amount
          /\ UNCHANGED intent
      BY <1>7, <2>1, <2>b DEF CaptureInvoicePaypalPayment
    <3>2. \A x \in PaymentIds : AtProvider(x)' = AtProvider(x)
      BY <3>1 DEF AtProvider
    <3> QED BY <1>b, <3>2
  <2>2. CASE ~Captured(o)
    <3>1. outcome \in {"completed", "held", "declined"}
      BY <2>2, <2>a DEF CaptureOutcome
    <3>2. /\ order[o].status \notin {"absent", "completed"} /\ order[o].amount \in Moneys
          /\ order'[o].status = outcome /\ order'[o].amount = order[o].amount
          /\ \A x \in Orders : x # o => order'[x] = order[x]
          /\ UNCHANGED intent
      BY <1>7, <1>a, <2>2, <2>b DEF CaptureInvoicePaypalPayment, Captured, Priced, OrderRow
    <3>3. \A x \in PaymentIds : x # o => AtProvider(x)' = AtProvider(x)
      BY <3>2 DEF AtProvider
    <3>4. AtProvider(o) = 0 /\ AtProvider(o)' = IF outcome = "completed" THEN order[o].amount ELSE 0
      BY <3>2 DEF AtProvider
    <3>5. CASE outcome # "completed"
      BY <1>b, <3>3, <3>4, <3>5
    <3>6. CASE outcome = "completed" /\ UNCHANGED <<invoice, payment>>
      BY <1>7, <1>c, <3>2, <3>3, <3>4, <3>6
    <3>7. ASSUME outcome = "completed", IsRecorded(i, o, outcome), RecordCapture(i, o, outcome)
          PROVE  Goal
      <4>1. o \in PaymentIds
        BY DEF PaymentIds
      <4>2. payment[o].status # "succeeded" /\ payment'[o].status = "succeeded"
        BY <1>a, <3>7, <4>1 DEF IsRecorded, RecordCapture, CaptureStatus
      <4>3. Charged[o] = 0 /\ \A x \in PaymentIds : x # o => Charged'[x] = Charged[x]
        BY <3>3, <3>4, <4>1 DEF Charged
      <4> QED BY <4>2, <4>3
    <3> QED BY <2>a, <3>5, <3>6, <3>7
  <2> QED BY <2>1, <2>2
<1>8. ASSUME NEW i \in Invoices,
             \/ CreateInvoice(i) \/ VoidInvoice(i)
             \/ \E acknowledged \in BOOLEAN : SendInvoice(i, acknowledged)
             \/ \E m \in ManualPayments, a \in Amounts : RecordManualPayment(i, m, a)
      PROVE  Goal
  BY <1>1, <1>8 DEF CreateInvoice, VoidInvoice, SendInvoice, RecordManualPayment, collectionVars
<1>9. ASSUME \/ SweepWrite \/ (\E due \in SUBSET Invoices : SweepRead(due))
             \/ \E x \in Orders : ReconcilePaypalCapture(x)
             \/ \E n \in Intents :
                   \/ DeclineIntent(n)
                   \/ PaymentIntentSucceeded(n) \/ PaymentIntentFailed(n)
                   \/ \E kind \in {"payment_intent.succeeded", "payment_intent.payment_failed"} :
                         UnmatchedIntentEvent(n, kind)
      PROVE  Goal
  BY <1>1, <1>9 DEF SweepWrite, SweepRead, ReconcilePaypalCapture, DeclineIntent,
     PaymentIntentSucceeded, PaymentIntentFailed, UnmatchedIntentEvent, collectionVars
<1>10. ASSUME UNCHANGED collectionVars PROVE Goal
  BY <1>1, <1>10 DEF collectionVars
<1> HIDE DEF Goal
<1>11. ASSUME CollectionNext, UNCHANGED refund PROVE Goal
  BY <1>2, <1>3, <1>4, <1>5, <1>6, <1>7, <1>8, <1>9, <1>11 DEF CollectionNext
<1> QED BY <1>10, <1>11 DEF Next, vars, Goal

-----------------------------------------------------------------------------
(***************************************************************************)
(* The till's variables, kind of step by kind of step.                     *)
(***************************************************************************)
Fits == \A p \in PaymentIds : RefundedSoFar(p, refund) <= payment[p].amount

TillSound == Standing /\ WithinReceipts /\ Fits /\ Owned /\ Priced

TillNext == AbstractTill!TillNext
TillVars == <<Billed, Charged, Credit, CreditedTo, Repaid, EverPaid>>

\* A payment that counted as received before and after, or neither, is
\* taken for the same, toward the same invoice.
LEMMA CreditStays ==
    ASSUME Standing, RowsStand, NEW p \in PaymentIds, Received(p)' <=> Received(p)
    PROVE  Credit'[p] = Credit[p] /\ CreditedTo'[p] = CreditedTo[p]
<1>1. CASE Received(p)
  <2>1. payment'[p].amount = payment[p].amount /\ payment'[p].invoice = payment[p].invoice
    BY <1>1, ReceivedHasRow DEF RowsStand
  <2> QED BY <1>1, <2>1 DEF Credit, CreditedTo
<1>2. CASE ~Received(p)
  BY <1>2 DEF Credit, CreditedTo
<1> QED BY <1>1, <1>2

\* As long as no refund goes through and no payment is newly received, what
\* is taken, toward which invoice, and what is returned, stay.
LEMMA MoneyStays ==
    ASSUME Standing, RowsStand,
           \A p \in PaymentIds : Received(p)' <=> Received(p),
           \A p \in PaymentIds : RefundedSoFar(p, refund') = RefundedSoFar(p, refund)
    PROVE  UNCHANGED <<Credit, CreditedTo, Repaid>>
<1>1. \A p \in PaymentIds : Credit'[p] = Credit[p] /\ CreditedTo'[p] = CreditedTo[p]
  BY CreditStays
<1>2. Credit' = Credit /\ CreditedTo' = CreditedTo
  BY <1>1 DEF Credit, CreditedTo
<1>3. Repaid' = Repaid
  BY DEF Repaid
<1> QED BY <1>2, <1>3

\* What the ledger counts as paid towards an invoice covers its bill.
LEMMA PaidCovers ==
    ASSUME MinorUnit = 1, TillSound, TillSound', UNCHANGED <<Repaid, Billed>>, NEW i \in Invoices,
           PaidSoFar(i, payment', refund') >= invoice[i].total
    PROVE  AbstractTill!Covered(i, Credit', CreditedTo')
<1> DEFINE f == [p \in PaymentIds |-> Credit'[p] - Repaid[p]]
           S == {p \in PaymentIds : i \in CreditedTo'[p]}
<1>1. payment' \in Ledgers /\ refund' \in Refunds /\ invoice[i].total \in Nat
  BY DEF TillSound, Standing, IInv, TypeOK, LedgerTypeOK, Ledgers, Refunds, InvoiceRow
<1>2. \A p \in PaymentIds : RefundedSoFar(p, refund') <= payment'[p].amount
  BY DEF TillSound, Fits
<1>3. f = Left(payment', refund') /\ S = For(i, payment', refund')
  <2>1. \A p \in PaymentIds : p \in Got(payment', refund') <=> Received(p)'
    BY DEF Got, Received
  <2>2. \A p \in PaymentIds : Repaid[p] = RefundedSoFar(p, refund')
    BY DEF Repaid
  <2> QED BY <2>1, <2>2 DEF Left, For, Credit, CreditedTo
<1> HIDE DEF f, S
<1>4. /\ SumFunctionOnSet(f, S) >= PaidSoFar(i, payment', refund')
      /\ SumFunctionOnSet(f, S) \in Int /\ PaidSoFar(i, payment', refund') \in Int
  <2> DEFINE P == payment'
             R == refund'
  <2>1. /\ P \in Ledgers /\ R \in Refunds
        /\ \A p \in PaymentIds : RefundedSoFar(p, R) <= P[p].amount
    BY <1>1, <1>2
  <2> HIDE DEF P, R
  <2>2. /\ SumFunctionOnSet(Left(P, R), For(i, P, R)) >= PaidSoFar(i, P, R)
        /\ SumFunctionOnSet(Left(P, R), For(i, P, R)) \in Int
        /\ PaidSoFar(i, P, R) \in Nat
    BY <2>1, CoverCounts
  <2> QED BY <1>3, <2>2 DEF P, R
<1>5. Billed[i] = invoice[i].total
  BY DEF Billed
<1>6. SumFunctionOnSet(f, S) >= Billed[i]
  BY <1>1, <1>4, <1>5
<1>7. AbstractTill!SumFunctionOnSet(f, S) = SumFunctionOnSet(f, S)
  BY DEF AbstractTill!SumFunctionOnSet, AbstractTill!FoldFunctionOnSet, AbstractTill!MapThenFoldSet,
     SumFunctionOnSet, FoldFunctionOnSet, MapThenFoldSet
<1> QED BY <1>6, <1>7 DEF AbstractTill!Covered, f, S

\* A payment credited now is money taken, if it was not before; either way
\* the invoice it is for may be settled.
LEMMA CreditedIsTaken ==
    ASSUME MinorUnit = 1, TillSound, TillSound', [Next]_vars, NEW p \in PaymentIds,
           NEW i \in Invoices, Credited(p, i),
           \A x \in PaymentIds : x # p => Charged'[x] = Charged[x],
           Charged' = Charged \/ Charged[p] = 0
    PROVE  TillNext \/ UNCHANGED TillVars
<1>a. /\ invoice \in [Invoices -> InvoiceRow] /\ invoice' \in [Invoices -> InvoiceRow]
      /\ payment' \in [PaymentIds -> PaymentRow]
  BY DEF TillSound, Standing, IInv, TypeOK, LedgerTypeOK
<1>b. RowsStand
  BY NothingVanishes DEF TillSound
<1>c. UNCHANGED refund /\ UNCHANGED Repaid
  BY DEF Credited, Repaid
<1>d. /\ payment'[p].status = "succeeded" /\ payment'[p].invoice = i
      /\ payment[p].status # "absent" => payment'[p].amount = payment[p].amount
      /\ Received(p)'
  BY DEF Credited, Received, Collected
<1>e. UNCHANGED Billed
  BY <1>a DEF Credited, Later, Billed
<1>f. EverPaid' = EverPaid \/ (EverPaid' = EverPaid \cup {i}
                               /\ PaidSoFar(i, payment', refund') >= invoice[i].total)
  <2>1. \A j \in Invoices : j # i => invoice'[j] = invoice[j]
    BY DEF Credited
  <2>2. CASE invoice'[i].paidAt = invoice[i].paidAt
    BY <2>1, <2>2 DEF EverPaid
  <2>3. CASE invoice'[i].paidAt # invoice[i].paidAt
    <3>1. /\ invoice[i].paidAt # "unset" => invoice'[i].paidAt # "unset"
          /\ PaidSoFar(i, payment', refund') >= invoice[i].total
      BY <1>c, <2>3 DEF Credited, Later
    <3> QED BY <2>1, <3>1 DEF EverPaid
  <2> QED BY <2>2, <2>3
<1>g. \/ UNCHANGED EverPaid
      \/ AbstractTill!Covered(i, Credit', CreditedTo') /\ EverPaid' = EverPaid \cup {i}
  BY <1>c, <1>e, <1>f, PaidCovers
<1>h. \A x \in PaymentIds : x # p => (Received(x)' <=> Received(x))
  BY <1>c DEF Credited, Received
<1>1. CASE Received(p)
  <2>1. UNCHANGED <<Credit, CreditedTo, Repaid>>
    BY <1>b, <1>c, <1>d, <1>h, <1>1, MoneyStays DEF TillSound
  <2>2. Charged' = Charged
    <3>1. CASE p \in ManualPayments
      BY <3>1, LedgerConstants DEF Charged, AtProvider
    <3>2. CASE p \notin ManualPayments
      <4>1. Provided(p) /\ Matches(p) /\ payment[p].amount > 0
        BY <1>1, ReceivedHasRow, ReceivedIsProvided
        DEF TillSound, Standing, Backed, IInv, TypeOK, LedgerTypeOK
      <4>2. Charged[p] = payment[p].amount
        BY <3>2, <4>1, LedgerConstants DEF Provided, Matches, Charged, AtProvider, PaymentIds
      <4>3. payment[p].amount \in Nat
        BY DEF TillSound, Standing, IInv, TypeOK, LedgerTypeOK, PaymentRow
      <4> QED BY <4>1, <4>2, <4>3
    <3> QED BY <3>1, <3>2
  <2>3. CASE UNCHANGED EverPaid
    BY <1>e, <2>1, <2>2, <2>3 DEF TillVars
  <2>4. CASE AbstractTill!Covered(i, Credit', CreditedTo') /\ EverPaid' = EverPaid \cup {i}
    <3>1. AbstractTill!Settle(i)
      BY <1>e, <2>1, <2>2, <2>4 DEF AbstractTill!Settle
    <3> QED BY <3>1 DEF TillNext, AbstractTill!TillNext
  <2> QED BY <1>g, <2>3, <2>4
<1>2. CASE ~Received(p)
  <2> DEFINE a == payment'[p].amount
  <2>1. Credit[p] = 0
    BY <1>2 DEF Credit
  <2>2. Credit' = [Credit EXCEPT ![p] = a] /\ CreditedTo' = [CreditedTo EXCEPT ![p] = {i}]
    <3>1. Credit'[p] = a /\ CreditedTo'[p] = {i}
      BY <1>d DEF Credit, CreditedTo
    <3>2. \A x \in PaymentIds : x # p => Credit'[x] = Credit[x] /\ CreditedTo'[x] = CreditedTo[x]
      BY <1>b, <1>h, CreditStays DEF TillSound
    <3> HIDE DEF a
    <3> QED BY <3>1, <3>2 DEF Credit, CreditedTo
  <2>3. /\ p \in Intents \cup Orders => Charged'[p] = a /\ Charged[p] \in {0, a}
        /\ a \in Moneys
    <3>1. CASE p \in ManualPayments
      <4>1. a \in Moneys
        BY <1>d, <3>1 DEF TillSound, Priced
      <4> QED BY <3>1, <4>1, LedgerConstants
    <3>2. CASE p \in Intents
      <4>1. intent'[p].status = "succeeded" /\ intent'[p].amount = a
        BY <1>d, <3>2 DEF TillSound, Standing, Backed, Provided, Matches, Collected
      <4>2. Charged'[p] = a
        BY <3>2, <4>1 DEF Charged, AtProvider
      <4>3. a \in Moneys
        BY <3>2, <4>1 DEF TillSound, Priced
      <4> QED BY <4>2, <4>3
    <3>3. CASE p \in Orders
      <4>1. order'[p].status = "completed" /\ order'[p].amount = a /\ p \notin Intents
        BY <1>d, <3>3, LedgerConstants DEF TillSound, Standing, Backed, Provided, Matches, Collected
      <4>2. Charged'[p] = a
        BY <3>3, <4>1 DEF Charged, AtProvider
      <4>3. a \in Moneys
        BY <3>3, <4>1 DEF TillSound, Priced
      <4> QED BY <4>2, <4>3
    <3> QED BY <3>1, <3>2, <3>3 DEF PaymentIds
  <2>4. CASE p \in ManualPayments
    <3>1. Charged'[p] = Charged[p]
      BY <2>4, LedgerConstants DEF Charged, AtProvider
    <3>2. UNCHANGED Charged
      BY <3>1 DEF Charged
    <3>3. AbstractTill!Take(p, i, a)
      <4> HIDE DEF a
      <4> QED BY <1>c, <1>e, <1>g, <2>1, <2>2, <2>4, <3>2 DEF AbstractTill!Take
    <3> QED BY <2>3, <3>3 DEF TillNext, AbstractTill!TillNext
  <2>5. CASE p \notin ManualPayments
    <3>1. p \in Intents \cup Orders
      BY <2>5 DEF PaymentIds
    <3>2. Charged' = [Charged EXCEPT ![p] = a]
      <4> HIDE DEF a
      <4> QED BY <2>3, <3>1 DEF Charged
    <3>3. AbstractTill!Take(p, i, a)
      <4> HIDE DEF a
      <4> QED BY <1>c, <1>e, <1>g, <2>1, <2>2, <2>3, <2>5, <3>1, <3>2 DEF AbstractTill!Take
    <3> QED BY <2>3, <3>3 DEF TillNext, AbstractTill!TillNext
  <2> QED BY <2>4, <2>5
<1> QED BY <1>1, <1>2

\* A refund that goes through returns its amount, of what was taken.
LEMMA BookedIsReturned ==
    ASSUME TillSound, TillSound', [Next]_vars, NEW r \in RefundIds, NEW p \in PaymentIds,
           NEW i \in Invoices, Booked(r, p, i), UNCHANGED Charged
    PROVE  TillNext \/ UNCHANGED TillVars
<1> DEFINE a == refund'[r].amount
<1>a. RowsStand
  BY NothingVanishes DEF TillSound
<1>b. /\ refund \in Refunds /\ refund' \in Refunds /\ invoice' \in [Invoices -> InvoiceRow]
      /\ payment \in Ledgers /\ payment' \in Ledgers
  BY DEF TillSound, Standing, IInv, TypeOK, LedgerTypeOK, Refunds, Ledgers
<1>1. UNCHANGED <<Billed, EverPaid>>
  BY DEF Booked, Later, Billed, EverPaid
<1>2. \A x \in PaymentIds : RefundedSoFar(x, refund')
                              = RefundedSoFar(x, refund) + (IF x = p THEN a ELSE 0)
  <2>1. /\ \A x \in RefundIds : x # r => refund'[x] = refund[x]
        /\ refund'[r].status = "succeeded" /\ refund[r].status # "succeeded"
        /\ refund'[r].payment = p
    BY DEF Booked
  <2> QED BY <1>b, <2>1, RefundedWithOneMore
<1>3. Received(p)
  <2>1. CASE refund[r].status # "absent"
    BY <2>1 DEF Booked, TillSound, Owned
  <2>2. CASE refund[r].status = "absent"
    <3>1. refund'[r].status # "absent" /\ refund'[r].payment = p
      BY DEF Booked
    <3> QED BY <2>2, <3>1, RefundsComeFromRequests DEF TillSound, Owned
  <2> QED BY <2>1, <2>2
<1>4. Received(p)'
  BY <1>3, ReceivedStays DEF TillSound
<1>5. \A x \in PaymentIds : Received(x)' <=> Received(x)
  <2>1. \A x \in PaymentIds : RefundedSoFar(x, refund) \in Nat /\ a \in Nat
    BY <1>b, RefundedIsNat DEF Refunds, RefundRow
  <2>2. \A x \in PaymentIds : x # p =>
           /\ payment'[x] = payment[x]
           /\ RefundedSoFar(x, refund') = RefundedSoFar(x, refund)
    BY <1>2, <2>1 DEF Booked
  <2> QED BY <1>3, <1>4, <2>2 DEF Received
<1>6. UNCHANGED <<Credit, CreditedTo>>
  <2>1. \A x \in PaymentIds : Credit'[x] = Credit[x] /\ CreditedTo'[x] = CreditedTo[x]
    BY <1>a, <1>5, CreditStays DEF TillSound
  <2> QED BY <2>1 DEF Credit, CreditedTo
<1>7. Repaid' = [Repaid EXCEPT ![p] = Repaid[p] + a]
  <2>1. \A x \in PaymentIds : RefundedSoFar(x, refund) \in Nat /\ a \in Nat
    BY <1>b, RefundedIsNat DEF Refunds, RefundRow
  <2>2. \A x \in PaymentIds : Repaid'[x] = Repaid[x] + (IF x = p THEN a ELSE 0)
    BY <1>2 DEF Repaid
  <2>3. \A x \in PaymentIds : Repaid[x] \in Nat
    BY <2>1 DEF Repaid
  <2> HIDE DEF a
  <2>4. Repaid'[p] = Repaid[p] + a /\ \A x \in PaymentIds : x # p => Repaid'[x] = Repaid[x]
    BY <2>1, <2>2, <2>3
  <2> QED BY <2>4 DEF Repaid
<1>8. Repaid[p] + a <= Credit[p] /\ a \in Moneys
  <2>1. RefundedSoFar(p, refund') <= payment'[p].amount
    BY DEF TillSound, Fits
  <2>2. payment'[p].amount = payment[p].amount /\ Credit[p] = payment[p].amount
    BY <1>3 DEF Booked, Credit
  <2>3. Repaid[p] + a = RefundedSoFar(p, refund')
    BY <1>2 DEF Repaid
  <2>4. RefundedSoFar(p, refund) \in Nat /\ a \in Nat /\ payment[p].amount \in Nat
    BY <1>b, RefundedIsNat DEF Refunds, RefundRow, Ledgers, PaymentRow
  <2>5. payment[p].amount \in Moneys
    <3>1. payment[p].status # "absent" /\ Provided(p) /\ Matches(p)
      BY <1>3, ReceivedHasRow, ReceivedIsProvided DEF TillSound, Standing, Backed
    <3> QED BY <3>1, LedgerConstants DEF TillSound, Priced, Provided, Matches, PaymentIds
  <2>6. a <= payment[p].amount
    BY <1>2, <2>1, <2>2, <2>4
  <2> QED BY <2>1, <2>2, <2>3, <2>4, <2>5, <2>6, PartsAreMoneys
<1>9. AbstractTill!Return(p, a)
  <2> HIDE DEF a
  <2> QED BY <1>1, <1>6, <1>7, <1>8 DEF AbstractTill!Return
<1> QED BY <1>8, <1>9 DEF TillNext, AbstractTill!TillNext

\* Every step of the ledger is a step of the till, or none.
LEMMA NextIsTill ==
    ASSUME MinorUnit = 1, TillSound, TillSound', [Next]_vars
    PROVE  TillNext \/ UNCHANGED TillVars
<1> DEFINE Goal == TillNext \/ UNCHANGED TillVars
<1>a. RowsStand
  BY NothingVanishes DEF TillSound
<1>b. refund \in Refunds /\ refund' \in Refunds
  BY DEF TillSound, Standing, IInv, TypeOK, LedgerTypeOK, Refunds
<1>c. ASSUME UNCHANGED <<payment, refund>> PROVE UNCHANGED <<Credit, CreditedTo, Repaid>>
  BY <1>c DEF Credit, CreditedTo, Repaid, Received
<1>1. ASSUME UNCHANGED <<invoice, payment, refund>>, NEW p \in Intents \cup Orders,
             NEW a \in Moneys, Charged[p] = 0, Charged' = [Charged EXCEPT ![p] = a]
      PROVE  Goal
  <2>1. UNCHANGED <<Billed, Credit, CreditedTo, Repaid, EverPaid>>
    BY <1>1, <1>c DEF Billed, EverPaid
  <2>2. p \in PaymentIds /\ p \notin ManualPayments
    BY LedgerConstants DEF PaymentIds
  <2>3. AbstractTill!Collect(p, a)
    BY <1>1, <2>1, <2>2 DEF AbstractTill!Collect
  <2> QED BY <2>2, <2>3 DEF TillNext, AbstractTill!TillNext
<1>2. ASSUME Quiet, UNCHANGED Charged PROVE Goal
  <2>1. UNCHANGED <<Credit, CreditedTo, Repaid>>
    BY <1>2, <1>c DEF Quiet
  <2>2. CASE \A i \in Invoices : LivesOn(i)
    <3>1. UNCHANGED <<Billed, EverPaid>>
      BY <2>2 DEF LivesOn, Billed, EverPaid
    <3> QED BY <1>2, <2>1, <3>1 DEF TillVars
  <2>3. ASSUME NEW i \in Invoices, Created(i) PROVE Goal
    <3> DEFINE a == invoice'[i].total
    <3>1. \A j \in Invoices : j # i => invoice'[j] = invoice[j]
      BY <1>2, <2>3 DEF Quiet
    <3>2. /\ invoice[i].total = 0 /\ invoice[i].paidAt = "unset" /\ invoice'[i].paidAt = "unset"
          /\ a \in Totals
      BY <2>3 DEF Created, TillSound, Standing, Founded
    <3>3. Billed[i] = 0 /\ Billed'[i] = a /\ \A j \in Invoices : j # i => Billed'[j] = Billed[j]
      BY <3>1, <3>2 DEF Billed
    <3>4. UNCHANGED EverPaid
      BY <3>1, <3>2 DEF EverPaid
    <3>5. a \in Moneys
      BY <3>2, PartsAreMoneys
    <3> HIDE DEF a
    <3>6. Billed' = [Billed EXCEPT ![i] = a]
      BY <3>3 DEF Billed
    <3>7. AbstractTill!Bill(i, a)
      BY <1>2, <2>1, <3>3, <3>4, <3>6 DEF AbstractTill!Bill
    <3> QED BY <3>5, <3>7 DEF TillNext, AbstractTill!TillNext
  <2> QED BY <1>2, <2>2, <2>3 DEF Quiet
<1>3. ASSUME NEW p \in PaymentIds, Sidelined(p), UNCHANGED Charged PROVE Goal
  <2>1. UNCHANGED <<invoice, refund>>
    BY <1>3 DEF Sidelined
  <2>2. \A x \in PaymentIds : Received(x)' <=> Received(x)
    <3>1. Received(p)' <=> Received(p)
      <4>1. /\ payment'[p].status \notin Collected
            /\ payment[p].status \in Collected => RefundedSoFar(p, refund) > 0
        BY <1>3 DEF Sidelined, TillSound, Owned, Collected
      <4> QED BY <2>1, <4>1 DEF Received
    <3>2. \A x \in PaymentIds : x # p => (Received(x)' <=> Received(x))
      BY <1>3, <2>1 DEF Sidelined, Received
    <3> QED BY <3>1, <3>2
  <2>3. UNCHANGED <<Credit, CreditedTo, Repaid>>
    BY <1>a, <2>1, <2>2, MoneyStays DEF TillSound
  <2> QED BY <1>3, <2>1, <2>3 DEF TillVars, Billed, EverPaid
<1>4. ASSUME NEW r \in RefundIds, Shelved(r), UNCHANGED Charged PROVE Goal
  <2>1. UNCHANGED <<invoice, payment>>
    BY <1>4 DEF Shelved
  <2>2. \A p \in PaymentIds : RefundedSoFar(p, refund') = RefundedSoFar(p, refund)
    <3>1. \A x \in RefundIds : refund[x].status = "succeeded" \/ refund'[x].status = "succeeded" =>
             refund'[x] = refund[x]
      BY <1>4 DEF Shelved
    <3> QED BY <1>b, <3>1, RefundedStays
  <2>3. \A p \in PaymentIds : Received(p)' <=> Received(p)
    BY <2>1, <2>2 DEF Received
  <2>4. UNCHANGED <<Credit, CreditedTo, Repaid>>
    BY <1>a, <2>2, <2>3, MoneyStays DEF TillSound
  <2> QED BY <1>4, <2>1, <2>4 DEF TillVars, Billed, EverPaid
<1>5. ASSUME NEW o \in Orders, payment[o].status # "succeeded", payment'[o].status = "succeeded",
             Charged[o] = 0, \A x \in PaymentIds : x # o => Charged'[x] = Charged[x]
      PROVE  Goal
  <2>1. o \in PaymentIds
    BY DEF PaymentIds
  <2>2. ~Quiet /\ \A r \in RefundIds : ~Shelved(r)
    BY <1>5 DEF Quiet, Shelved
  <2>3. /\ \A p \in PaymentIds : ~Sidelined(p)
        /\ \A r \in RefundIds, p \in PaymentIds, i \in Invoices : ~Booked(r, p, i)
    BY <1>5, <2>1 DEF Sidelined, Booked
  <2>4. PICK p \in PaymentIds, i \in Invoices : Credited(p, i)
    BY <2>2, <2>3, KindOfStep DEF TillSound
  <2>5. p = o
    BY <1>5, <2>1, <2>4 DEF Credited
  <2> QED BY <1>5, <2>4, <2>5, CreditedIsTaken
<1>6. ASSUME NEW p \in PaymentIds, NEW i \in Invoices, Credited(p, i), UNCHANGED Charged
      PROVE  Goal
  BY <1>6, CreditedIsTaken
<1>7. ASSUME NEW r \in RefundIds, NEW p \in PaymentIds, NEW i \in Invoices, Booked(r, p, i),
             UNCHANGED Charged
      PROVE  Goal
  BY <1>7, BookedIsReturned
<1> HIDE DEF Goal
<1>8. ASSUME UNCHANGED Charged PROVE Goal
  BY <1>2, <1>3, <1>4, <1>6, <1>7, <1>8, KindOfStep DEF TillSound
<1>9. Goal
  BY <1>1, <1>5, <1>8, BankSteps DEF TillSound
<1> QED BY <1>9 DEF Goal

-----------------------------------------------------------------------------
\* The empty tables are an empty till.
LEMMA InitIsTill == ASSUME Init PROVE AbstractTill!TillInit /\ Owned /\ Priced
<1>1. \A p \in PaymentIds : RefundedSoFar(p, refund) = 0
  BY InitStanding, NoRowNoRefund DEF Init, LedgerInit, NoPayment
<1>2. \A p \in PaymentIds : ~Received(p) /\ AtProvider(p) = 0
  BY <1>1 DEF Init, LedgerInit, CollectionInit, NoPayment, NoIntent, NoOrder, Received, AtProvider,
     Collected
<1>3. AbstractTill!TillInit
  BY <1>1, <1>2 DEF AbstractTill!TillInit, Billed, Charged, Credit, CreditedTo, Repaid, EverPaid,
     Init, LedgerInit, NoInvoice
<1>4. Owned
  BY DEF Init, LedgerInit, RefundingInit, NoPayment, NoRefund, Idle, Owned
<1>5. Priced
  BY DEF Init, LedgerInit, CollectionInit, NoInvoice, NoPayment, NoIntent, NoOrder, Priced, PaymentIds
<1> QED BY <1>3, <1>4, <1>5

(* As long as amounts are entered in whole minor units, the ledger is a    *)
(* till: nothing is taken twice, taken without being collected, given back *)
(* beyond what was taken, or settled without being covered, whatever       *)
(* webhooks, captures, polls, refunds and retries interleave.              *)
THEOREM LedgerIsTill == ASSUME MinorUnit = 1 PROVE Spec => ImplementsTill
<1>1. Init => AbstractTill!TillInit /\ Owned /\ Priced
  BY InitIsTill
<1>2. Standing /\ WithinReceipts => Fits
  BY RefundsFit DEF Fits
<1>3. ASSUME Standing, Standing', WithinReceipts, Owned, Priced, [Next]_vars PROVE Owned' /\ Priced'
  BY <1>3, NextKeepsOwned, NextKeepsPriced
<1>4. Spec => []TillSound
  BY <1>1, <1>2, <1>3, WithinReceiptsHolds, PTL DEF Spec, TillSound
<1>5. TillSound /\ TillSound' /\ [Next]_vars => [AbstractTill!TillNext]_AbstractTill!tillVars
  BY NextIsTill DEF TillNext, TillVars, AbstractTill!tillVars
<1>6. ImplementsTill <=> AbstractTill!TillInit /\ [][AbstractTill!TillNext]_AbstractTill!tillVars
  BY DEF ImplementsTill, AbstractTill!TillSpec
<1> QED BY <1>1, <1>4, <1>5, <1>6, PTL DEF Spec

=============================================================================
