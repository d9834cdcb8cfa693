---------------------------- MODULE MCInvoiceLedger ----------------------------
(***************************************************************************)
(* Instances of InvoiceLedger for TLC.  The ids of one kind are            *)
(* interchangeable.                                                        *)
(***************************************************************************)
EXTENDS Statistics, TLC

Symmetric == Permutations(ManualPayments) \cup Permutations(Intents)
                \cup Permutations(Orders) \cup Permutations(RefundIds)
                \cup Permutations(Requests) \cup Permutations(Invoices)

\* Bound: mark_overdue_invoices reads and writes between refund requests.
SweepsBetweenRequests ==
    sweep # {} => \A q \in Requests : req[q].step = "idle"

=============================================================================
