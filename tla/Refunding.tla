------------------------------ MODULE Refunding ------------------------------
(***************************************************************************)
(* Refunds.  A refund request runs in two transactions with a provider     *)
(* call between them: it validates against the remaining balance under the *)
(* invoice lock, commits (releasing the lock), calls Stripe or PayPal with *)
(* an idempotency key made of the caller's client_request_id, and then     *)
(* records the refund under a fresh lock.  A manual payment's refund skips *)
(* only the call.  A refund the provider left pending settles later, from  *)
(* a Stripe webhook or the daily PayPal poll: that transaction locks the   *)
(* refund row, sums and updates the payment, and takes the invoice lock    *)
(* last, so other transactions commit between its sum and its commit.      *)
(*                                                                         *)
(* The session is opened with expire_on_commit=False and a locking SELECT  *)
(* does not overwrite attributes already loaded: what the second           *)
(* transaction of a request sees of the payment's and the invoice's status *)
(* is what the first one saw.  A request keeps both.                       *)
(***************************************************************************)
EXTENDS LedgerState

CONSTANTS Requests   \* refund requests the server may be working on at once

VARIABLES
    ask,        \* what each client_request_id asks for (fixed by the client)
    req,        \* refund requests in progress
    moved,      \* external: the refund the provider holds under each key
    settling    \* settlements between their sum and their commit

refundingVars == <<ask, req, moved, settling>>

NoAsk == [payment |-> None, amount |-> 0]     \* amount 0: "the remainder"
Idle == [step |-> "idle", id |-> None, amount |-> 0, status |-> "absent",
         seenPayment |-> "absent", seenInvoice |-> "absent"]
NotMoved == [status |-> "absent", reply |-> "absent", amount |-> 0]
NotSettling == [computed |-> "absent", seenPayment |-> "absent"]

AskRow == [payment: PaymentIds \cup {None}, amount: Nat]
RequestRow == [step: {"idle", "validated", "answered"}, id: RefundIds \cup {None},
               amount: Nat, status: RefundStatus,
               seenPayment: PaymentStatus, seenInvoice: InvoiceStatus]
MovedRow == [status: RefundStatus, reply: RefundStatus, amount: Nat]
SettlingRow == [computed: PaymentStatus, seenPayment: PaymentStatus]

RefundingTypeOK ==
    /\ ask \in [RefundIds -> AskRow]
    /\ req \in [Requests -> RequestRow]
    /\ moved \in [RefundIds -> MovedRow]
    /\ settling \in [RefundIds -> SettlingRow]
    /\ \A q \in Requests : req[q].step # "idle" =>
           /\ req[q].id \in RefundIds /\ req[q].amount > 0
           /\ ask[req[q].id].payment \in PaymentIds
    /\ \A q \in Requests : req[q].step = "answered" => req[q].status # "absent"

RefundingInit ==
    /\ ask = [r \in RefundIds |-> NoAsk]
    /\ req = [q \in Requests |-> Idle]
    /\ moved = [r \in RefundIds |-> NotMoved]
    /\ settling = [r \in RefundIds |-> NotSettling]

IsProviderPayment(p) == p \in Intents \cup Orders

-----------------------------------------------------------------------------
(***************************************************************************)
(* refund_payment, first transaction: validate and reserve nothing.        *)
(***************************************************************************)
Refundable(p) == payment[p].status \in {"succeeded", "partially_refunded"}

Remaining(p, R) == payment[p].amount - ReservedSoFar(p, R)

\* A request that finds its refund already recorded returns that outcome,
\* which changes nothing.
RefundPayment(q, r) ==
    /\ req[q].step = "idle"
    /\ refund[r].status = "absent"
    /\ \E p \in PaymentIds, a \in Amounts \cup {0} :
         LET asked == [payment |-> p, amount |-> a]
             amount == IF a = 0 THEN Remaining(p, refund) ELSE a
         IN  /\ ask[r] \in {NoAsk, asked}
             /\ Refundable(p)
             /\ amount \in Nat \ {0}
             /\ amount <= Remaining(p, refund)
             /\ ask' = [ask EXCEPT ![r] = asked]
             /\ req' = [req EXCEPT ![q] =
                   [step |-> "validated", id |-> r, amount |-> amount,
                    status |-> "absent", seenPayment |-> payment[p].status,
                    seenInvoice |-> invoice[payment[p].invoice].status]]
    /\ UNCHANGED <<ledgerVars, moved, settling>>

(***************************************************************************)
(* The provider call.  External: the provider refuses to refund more than  *)
(* it holds, and answers a repeated key with its first answer.             *)
(***************************************************************************)
ProviderRefunded(p) ==
    SumFunctionOnSet([r \in RefundIds |-> moved[r].amount],
        {r \in RefundIds : ask[r].payment = p /\ moved[r].status \in {"pending", "succeeded"}})

Answered(q) ==
    req' = [req EXCEPT ![q].step = "answered",
                       ![q].status = moved'[req[q].id].reply]

CallProvider(q) ==
    LET r == req[q].id
        p == ask[r].payment
        charge == Charge(req[q].amount)
    IN  /\ req[q].step = "validated"
        /\ IsProviderPayment(p)
        /\ \/ /\ moved[r].status = "absent"
              /\ charge > 0
              /\ ProviderRefunded(p) + charge <= payment[p].amount
              /\ \E s \in {"pending", "succeeded", "failed"} :
                     moved' = [moved EXCEPT ![r] =
                                  [status |-> s, reply |-> s, amount |-> charge]]
              \* the reply may never arrive: the request dies, the money moved
              /\ Answered(q) \/ req' = [req EXCEPT ![q] = Idle]
           \/ /\ moved[r].amount = charge
              /\ moved[r].status # "absent"
              /\ UNCHANGED moved
              /\ Answered(q)
        /\ UNCHANGED <<ledgerVars, ask, settling>>

\* The request fails (provider error, crash, timeout) at any point.
DropRequest(q) ==
    /\ req[q].step # "idle"
    /\ req' = [req EXCEPT ![q] = Idle]
    /\ UNCHANGED <<ledgerVars, ask, moved, settling>>

\* External: the provider resolves a pending refund.  Stripe says so once.
RefundResolves(r) ==
    /\ moved[r].status = "pending"
    /\ \E s \in {"succeeded", "failed"} : moved' = [moved EXCEPT ![r].status = s]
    /\ inbox' = IF ask[r].payment \in Intents
                THEN inbox \cup {<<"charge.refund.updated", r>>} ELSE inbox
    /\ UNCHANGED <<invoice, payment, refund, ask, req, settling>>

-----------------------------------------------------------------------------
(***************************************************************************)
(* _record_refund, second transaction.                                     *)
(***************************************************************************)

\* An ORM attribute is written only if it differs from what was loaded.
Written(row, seen, new) == IF new = seen THEN row ELSE [row EXCEPT !.status = new]

\* Mutant: one payment fully refunded is enough.
AnyFullRefund(i, status, P, R) ==
    IF status = "paid" /\ \E p \in PaymentIds :
           P[p].invoice = i /\ P[p].status # "absent" /\ RefundedSoFar(p, R) >= P[p].amount
    THEN [invoice[i] EXCEPT !.status = "refunded"] ELSE invoice[i]

\* The invoice once the refund is recorded: refunded when its payments'
\* refunds cover its total.  status is what the transaction believes.
AfterRefund(i, status, P, R) ==
    IF status = "paid" /\ RefundedOnInvoice(i, P, R) >= invoice[i].total
    THEN [invoice[i] EXCEPT !.status = "refunded"] ELSE invoice[i]

\* Mutant: the balance read before the lock was released is trusted.
TrustsFirstBalance(q, p) == TRUE

\* A manual refund is validated again: another may have landed meanwhile.
StillFits(q, p) == IsProviderPayment(p) \/ req[q].amount <= Remaining(p, refund)

\* Mutant: whatever the provider answered is taken for a success.
AssumesSuccess(q) == "succeeded"

\* What the refund row will say: the provider's answer, if one was asked.
Outcome(q) == IF req[q].step = "answered" THEN req[q].status ELSE "succeeded"

RecordRefund(q) ==
    LET r == req[q].id
        p == ask[r].payment
        i == payment[p].invoice
        s == Outcome(q)
    IN  /\ req[q].step # "idle"
        /\ req[q].step = IF IsProviderPayment(p) THEN "answered" ELSE "validated"
        /\ IF refund[r].status = "absent" /\ StillFits(q, p)
           THEN /\ refund' = [refund EXCEPT ![r] =
                       [status |-> s, payment |-> p, amount |-> req[q].amount]]
                /\ payment' = IF s = "succeeded"
                     THEN [payment EXCEPT ![p] =
                              Written(@, req[q].seenPayment,
                                      RefundedStatus(p, payment, refund'))]
                     ELSE payment
                /\ invoice' = IF s = "succeeded"
                     THEN [invoice EXCEPT ![i] =
                              AfterRefund(i, req[q].seenInvoice, payment, refund')]
                     ELSE invoice
           ELSE UNCHANGED <<refund, payment, invoice>>
        /\ req' = [req EXCEPT ![q] = Idle]
        /\ UNCHANGED <<inbox, ask, moved, settling>>

-----------------------------------------------------------------------------
(***************************************************************************)
(* apply_refund_settlement, for both of its callers.                       *)
(***************************************************************************)
RefundEvent(r) == <<"charge.refund.updated", r>>

\* Mutant: no scheduler polls PayPal.
OnlyWebhooks(r) == RefundEvent(r) \in inbox

\* The Stripe webhook has the event in hand; the PayPal poll asks.
Reported(r) ==
    \/ RefundEvent(r) \in inbox
    \/ refund[r].payment \in Orders /\ moved[r].status \in {"succeeded", "failed"}

\* Answering the webhook; the poll has nothing to answer.
Answer(r) == IF RefundEvent(r) \in inbox THEN Acked(RefundEvent(r)) ELSE UNCHANGED inbox

\* No row carries this refund id yet (or it has already settled): the
\* webhook answers 200 and does nothing.
RefundEventIgnored(r) ==
    /\ RefundEvent(r) \in inbox
    /\ refund[r].status # "pending"
    /\ Acked(RefundEvent(r))
    /\ UNCHANGED <<invoice, payment, refund, refundingVars>>

\* The provider gave up: only the refund row changes.
SettleFailed(r) ==
    /\ refund[r].status = "pending" /\ settling[r] = NotSettling
    /\ Reported(r) /\ moved[r].status = "failed"
    /\ refund' = [refund EXCEPT ![r].status = "failed"]
    /\ Answer(r)
    /\ UNCHANGED <<invoice, payment, refundingVars>>

\* The refund row is locked and flushed; the payment's new status is
\* computed from it and from the refunds committed by others so far.
SettlementSums(r) ==
    LET p == refund[r].payment
    IN  /\ refund[r].status = "pending" /\ settling[r] = NotSettling
        /\ Reported(r) /\ moved[r].status = "succeeded"
        /\ settling' = [settling EXCEPT ![r] =
              [computed |-> RefundedStatus(p, payment,
                               [refund EXCEPT ![r].status = "succeeded"]),
               seenPayment |-> payment[p].status]]
        /\ UNCHANGED <<ledgerVars, ask, req, moved>>

\* The invoice lock is granted, its status read fresh, and all committed.
SettlementCommits(r) ==
    LET p == refund[r].payment
        i == payment[p].invoice
    IN  /\ settling[r] # NotSettling
        /\ refund' = [refund EXCEPT ![r].status = "succeeded"]
        /\ payment' = [payment EXCEPT ![p] =
              Written(@, settling[r].seenPayment, settling[r].computed)]
        /\ invoice' = [invoice EXCEPT ![i] = AfterRefund(i, invoice[i].status, payment, refund')]
        /\ settling' = [settling EXCEPT ![r] = NotSettling]
        /\ Answer(r)
        /\ UNCHANGED <<ask, req, moved>>

\* The transaction aborts: a deadlock Postgres broke, or a crash.
SettlementAborts(r) ==
    /\ settling[r] # NotSettling
    /\ settling' = [settling EXCEPT ![r] = NotSettling]
    /\ UNCHANGED <<ledgerVars, ask, req, moved>>

-----------------------------------------------------------------------------
RefundingNext ==
    \/ \E q \in Requests :
          \/ \E r \in RefundIds : RefundPayment(q, r)
          \/ CallProvider(q) \/ RecordRefund(q) \/ DropRequest(q)
    \/ \E r \in RefundIds :
          \/ RefundResolves(r) \/ RefundEventIgnored(r) \/ SettleFailed(r)
          \/ SettlementSums(r) \/ SettlementCommits(r) \/ SettlementAborts(r)

=============================================================================
