------------------------------- MODULE Disputes -------------------------------
(***************************************************************************)
(* A card payment the cardholder disputes.  Stripe decides the dispute and *)
(* reports each of its steps with an event, delivered at least once, in no *)
(* order; the handler records the last status it was told under the row    *)
(* lock of the payment, commits, and only then writes to the admins, each  *)
(* delivery in a request of its own.                                       *)
(***************************************************************************)
EXTENDS Integers, FiniteSets

CONSTANTS
    Deliveries,     \* webhook requests in progress at once
    MaxDeliveries,  \* bound on webhook requests
    Undisputed      \* NULL

ASSUME DisputesConstants == IsFiniteSet(Deliveries) /\ MaxDeliveries \in Nat

VARIABLES
    outcome,     \* external: Stripe's status of the dispute
    reported,    \* external: statuses Stripe has sent an event for
    recorded,    \* payments.dispute_status
    delivery,    \* [Deliveries -> [step, status, prior]]
    delivered,   \* deliveries so far
    changes,     \* history: how often a status was recorded in place of another
    mails        \* how often the admins were written to about a status

disputeVars == <<outcome, reported, recorded, delivery, delivered, changes, mails>>

OpenStatuses == {"warning_needs_response", "needs_response", "warning_under_review", "under_review"}
ClosedStatuses == {"won", "lost", "warning_closed", "charge_refunded"}
StripeStatuses == OpenStatuses \cup ClosedStatuses

\* Stripe's statuses, by the one that is recorded for them; an event with
\* any other is acknowledged and dropped.
StatusMap == [needs_response |-> {"warning_needs_response", "needs_response"},
              under_review |-> {"warning_under_review", "under_review"},
              won |-> {"won", "warning_closed"},
              lost |-> {"lost"}]

Recordable == DOMAIN StatusMap

NoDelivery == [step |-> "idle", status |-> Undisputed, prior |-> Undisputed]

DisputesInit ==
    /\ outcome = Undisputed
    /\ reported = {}
    /\ recorded = Undisputed
    /\ delivery = [d \in Deliveries |-> NoDelivery]
    /\ delivered = 0
    /\ changes = [s \in Recordable |-> 0]
    /\ mails = [s \in Recordable |-> 0]

\* Stripe opens, advances or closes the dispute, and has an event for it.
DisputeMoves(status) ==
    /\ outcome \notin ClosedStatuses
    /\ status \in StripeStatuses
    /\ status # outcome
    /\ outcome' = status
    /\ reported' = reported \cup {status}
    /\ UNCHANGED <<recorded, delivery, delivered, changes, mails>>

\* Mutant: the payment is read without FOR UPDATE.
ReadsWithoutLock(d) == TRUE

\* FOR UPDATE: no other delivery holds the row.
RowIsFree(d) == \A e \in Deliveries : delivery[e].step # "locked"

DisputeEvent(d, status) ==
    /\ delivery[d] = NoDelivery
    /\ delivered < MaxDeliveries
    /\ status \in reported
    /\ RowIsFree(d)
    /\ delivered' = delivered + 1
    /\ \/ \E to \in Recordable :
             /\ status \in StatusMap[to]
             /\ delivery' = [delivery EXCEPT ![d] =
                                [step |-> "locked", status |-> to, prior |-> recorded]]
       \/ /\ \A to \in Recordable : status \notin StatusMap[to]
          /\ UNCHANGED delivery
    /\ UNCHANGED <<outcome, reported, recorded, changes, mails>>

\* The commit releases the row before anyone is written to.
RecordsDispute(d) ==
    LET row == delivery[d]
    IN  /\ row.step = "locked"
        /\ recorded' = row.status
        /\ changes' = IF recorded # row.status THEN [changes EXCEPT ![row.status] = @ + 1] ELSE changes
        /\ delivery' = [delivery EXCEPT ![d] =
              IF row.prior # row.status THEN [@ EXCEPT !.step = "notify"] ELSE NoDelivery]
        /\ UNCHANGED <<outcome, reported, delivered, mails>>

\* The payment is not there yet, the commit fails, or the process dies
\* before the mail: Stripe delivers the event again, or not.
AbandonsDispute(d) ==
    /\ delivery[d].step \in {"locked", "notify"}
    /\ delivery' = [delivery EXCEPT ![d] = NoDelivery]
    /\ UNCHANGED <<outcome, reported, recorded, delivered, changes, mails>>

NotifyAdmins(d) ==
    /\ delivery[d].step = "notify"
    /\ mails' = [mails EXCEPT ![delivery[d].status] = @ + 1]
    /\ delivery' = [delivery EXCEPT ![d] = NoDelivery]
    /\ UNCHANGED <<outcome, reported, recorded, delivered, changes>>

DisputesNext ==
    \/ \E status \in StripeStatuses : DisputeMoves(status)
    \/ \E d \in Deliveries : RecordsDispute(d) \/ AbandonsDispute(d) \/ NotifyAdmins(d)
    \/ \E d \in Deliveries, status \in reported : DisputeEvent(d, status)

DisputesSpec == DisputesInit /\ [][DisputesNext]_disputeVars

-----------------------------------------------------------------------------
(* Redelivered and concurrent events do not write to the admins twice: the *)
(* mails and those still to be sent about a status are no more than the    *)
(* times the recorded status changed to it, and what is recorded is        *)
(* something Stripe did report.                                            *)
MailsAreChanges ==
    /\ \A s \in Recordable :
          mails[s] + Cardinality({d \in Deliveries : delivery[d].step = "notify"
                                                   /\ delivery[d].status = s})
              <= changes[s]
    /\ recorded # Undisputed => reported \cap StatusMap[recorded] # {}

=============================================================================
