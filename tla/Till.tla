--------------------------------- MODULE Till ---------------------------------
(***************************************************************************)
(* What the invoice ledger promises, with no webhook, lock, poll, retry or *)
(* request in sight: money is taken once for each payment, for the sum the *)
(* provider collected; it is given back in steps that never add up to      *)
(* more; and an invoice is settled only at a moment when what was taken    *)
(* and not given back covers its total.                                    *)
(***************************************************************************)
EXTENDS Integers, Functions

CONSTANTS Bills, Payments,
          ByHand,         \* \subseteq Payments: recorded on an admin's word
          Sums            \* the sums of money that occur

VARIABLES
    total,       \* [Bills -> Nat]: what was billed
    collected,   \* [Payments -> Nat]: what a provider holds for us
    taken,       \* [Payments -> Nat]: what has been credited
    toward,      \* [Payments -> SUBSET Bills]: the bill it was credited to
    returned,    \* [Payments -> Nat]: what has been given back
    settled      \* bills that have been covered in full

tillVars == <<total, collected, taken, toward, returned, settled>>

TillInit ==
    /\ total = [i \in Bills |-> 0]
    /\ collected = [p \in Payments |-> 0]
    /\ taken = [p \in Payments |-> 0]
    /\ toward = [p \in Payments |-> {}]
    /\ returned = [p \in Payments |-> 0]
    /\ settled = {}

Covered(i, T, W) ==
    SumFunctionOnSet([p \in Payments |-> T[p] - returned[p]], {p \in Payments : i \in W[p]})
        >= total[i]

Bill(i, a) ==
    /\ total[i] = 0
    /\ total' = [total EXCEPT ![i] = a]
    /\ UNCHANGED <<collected, taken, toward, returned, settled>>

Collect(p, a) ==
    /\ p \notin ByHand /\ collected[p] = 0
    /\ collected' = [collected EXCEPT ![p] = a]
    /\ UNCHANGED <<total, taken, toward, returned, settled>>

\* Taking money may settle the bill it is for, and no other.  A provider
\* may be made to collect it on the spot.
Take(p, i, a) ==
    /\ taken[p] = 0
    /\ IF p \in ByHand THEN UNCHANGED collected
       ELSE collected[p] \in {0, a} /\ collected' = [collected EXCEPT ![p] = a]
    /\ taken' = [taken EXCEPT ![p] = a]
    /\ toward' = [toward EXCEPT ![p] = {i}]
    /\ \/ UNCHANGED settled
       \/ Covered(i, taken', toward') /\ settled' = settled \cup {i}
    /\ UNCHANGED <<total, returned>>

\* A bill may be covered for a while before it is noticed.
Settle(i) ==
    /\ Covered(i, taken, toward)
    /\ settled' = settled \cup {i}
    /\ UNCHANGED <<total, collected, taken, toward, returned>>

Return(p, a) ==
    /\ returned[p] + a <= taken[p]
    /\ returned' = [returned EXCEPT ![p] = @ + a]
    /\ UNCHANGED <<total, collected, taken, toward, settled>>

TillNext ==
    \/ \E i \in Bills : Settle(i) \/ \E a \in Sums : Bill(i, a)
    \/ \E p \in Payments, a \in Sums :
          \/ Collect(p, a) \/ Return(p, a)
          \/ \E i \in Bills : Take(p, i, a)

TillSpec == TillInit /\ [][TillNext]_tillVars

=============================================================================
