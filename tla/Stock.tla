--------------------------------- MODULE Stock ---------------------------------
(***************************************************************************)
(* Inventory items, the audit trail of their quantities, and the bills of  *)
(* materials that consume them.                                            *)
(*                                                                         *)
(* A request is one READ COMMITTED transaction.  Those that change a       *)
(* quantity are taken apart: they begin (their reads without locks), take  *)
(* the row locks they need one at a time, in whatever order the database   *)
(* visits the rows, and commit.  The others are one action each.  Postgres *)
(* resolves a deadlock by failing one of the transactions in it.           *)
(***************************************************************************)
EXTENDS Integers, Sequences, FiniteSets, SequencesExt

CONSTANTS
    Items,           \* inventory item ids
    Boms,            \* bill of materials ids
    Requests,        \* requests in progress at once
    Quantities,      \* quantities an admin may enter
    Deltas,          \* adjustments an admin may enter
    PerUnit,         \* quantities per unit of a material line
    Builds,          \* build quantities the form may send, bad ones too
    MaxAdjustments   \* bound on the audit rows of one item

ASSUME StockConstants ==
    /\ Quantities \subseteq Int /\ Deltas \subseteq Int /\ Builds \subseteq Int
    /\ PerUnit \subseteq Nat \ {0}
    /\ IsFiniteSet(Items) /\ MaxAdjustments \in Nat

VARIABLES
    item,         \* [Items -> ItemRow]
    adjustment,   \* [Items -> Seq(AdjustmentRow)], in the order of their commits
    boms,         \* the bills of materials that exist
    line,         \* [Boms \X Items -> Nat]: quantity_per_unit, 0 without a line
    request       \* [Requests -> RequestRow]

stockVars == <<item, adjustment, boms, line, request>>

\* edited is history: the quantity was entered, not counted up or down.
ItemRow == [exists: BOOLEAN, quantity: Int, edited: BOOLEAN]
AdjustmentRow == [before: Int, after: Int]
\* queue: rows still to be locked, in order.  change: what to add to each
\* row, or (set) the new quantity.  seen: quantities as read with the lock.
StockRequestRow == [op: {"idle", "adjust", "consume", "set"}, queue: Seq(Items),
                    locks: SUBSET Items, change: [Items -> Int],
                    seen: [Items -> Int]]

NoItem == [exists |-> FALSE, quantity |-> 0, edited |-> FALSE]
NoRequest == [op |-> "idle", queue |-> <<>>, locks |-> {},
              change |-> [i \in Items |-> 0], seen |-> [i \in Items |-> 0]]

StockInit ==
    /\ item = [i \in Items |-> NoItem]
    /\ adjustment = [i \in Items |-> <<>>]
    /\ boms = {}
    /\ line = [x \in Boms \X Items |-> 0]
    /\ request = [t \in Requests |-> NoRequest]

Holder(i) == {t \in Requests : i \in request[t].locks}

-----------------------------------------------------------------------------
(***************************************************************************)
(* Items and bills of materials.                                           *)
(***************************************************************************)
CreateItem(i, q) ==
    /\ ~item[i].exists
    /\ item' = [item EXCEPT ![i] = [exists |-> TRUE, quantity |-> q, edited |-> q < 0]]
    /\ UNCHANGED <<adjustment, boms, line, request>>

\* A line that mentions the item forbids it; its audit rows go with it.
DeleteItem(i) ==
    /\ item[i].exists /\ Holder(i) = {}
    /\ \A b \in Boms : line[<<b, i>>] = 0
    /\ item' = [item EXCEPT ![i] = NoItem]
    /\ adjustment' = [adjustment EXCEPT ![i] = <<>>]
    /\ UNCHANGED <<boms, line, request>>

CreateBom(b) ==
    /\ b \notin boms
    /\ boms' = boms \cup {b}
    /\ UNCHANGED <<item, adjustment, line, request>>

DeleteBom(b) ==
    /\ b \in boms
    /\ boms' = boms \ {b}
    /\ line' = [x \in Boms \X Items |-> IF x[1] = b THEN 0 ELSE line[x]]
    /\ UNCHANGED <<item, adjustment, request>>

\* The new row's reference to the item waits for whoever has it locked.
AddMaterialLine(b, i, n) ==
    /\ b \in boms /\ item[i].exists /\ Holder(i) = {}
    /\ line[<<b, i>>] = 0
    /\ line' = [line EXCEPT ![<<b, i>>] = n]
    /\ UNCHANGED <<item, adjustment, boms, request>>

RemoveMaterialLine(b, i) ==
    /\ line[<<b, i>>] # 0
    /\ line' = [line EXCEPT ![<<b, i>>] = 0]
    /\ UNCHANGED <<item, adjustment, boms, request>>

-----------------------------------------------------------------------------
(***************************************************************************)
(* Requests that change quantities.                                        *)
(***************************************************************************)
BeginRequest(t, op, queue, change) ==
    /\ request[t] = NoRequest
    /\ request' = [request EXCEPT ![t] =
           [NoRequest EXCEPT !.op = op, !.queue = queue, !.change = change]]
    /\ UNCHANGED <<item, adjustment, boms, line>>

\* The bound: room for the audit rows of every request under way.
HasRoom(i) ==
    Len(adjustment[i]) + Cardinality({t \in Requests : request[t].change[i] # 0})
        < MaxAdjustments

On(i, n) == [NoRequest.change EXCEPT ![i] = n]

AdjustItemQuantity(t, i, delta) ==
    item[i].exists /\ HasRoom(i) /\ BeginRequest(t, "adjust", <<i>>, On(i, delta))

\* The row is read, not locked; the UPDATE is sent only if it would change
\* what was read.
UpdateItemQuantity(t, i, q) ==
    /\ item[i].exists /\ item[i].quantity # q
    /\ BeginRequest(t, "set", <<i>>, On(i, q))

LinesOf(b) == {i \in Items : line[<<b, i>>] # 0}

ValidBuild(n) == n > 0

ConsumeBom(t, b, n) ==
    /\ b \in boms /\ ValidBuild(n)
    /\ \A i \in LinesOf(b) : HasRoom(i)
    /\ \E queue \in SetToSeqs(LinesOf(b)) :
           BeginRequest(t, "consume", queue, [i \in Items |-> -(line[<<b, i>>] * n)])

\* Mutant: a plain SELECT, which waits for nobody.
ReadsUnlockedItem(t, i) == TRUE

\* SELECT ... FOR UPDATE, and the UPDATE of a setter, wait for the holder.
MayLock(t, i) == Holder(i) \ {t} = {}

\* A row that was deleted meanwhile is passed over.
LockRow(t) ==
    /\ request[t].queue # <<>>
    /\ LET i == Head(request[t].queue)
       IN  /\ MayLock(t, i)
           /\ request' = [request EXCEPT
                  ![t].queue = Tail(@),
                  ![t].seen[i] = item[i].quantity,
                  ![t].locks = IF item[i].exists THEN @ \cup {i} ELSE @]
    /\ UNCHANGED <<item, adjustment, boms, line>>

\* What request t makes of the quantity it read.
Result(t, i) == request[t].seen[i] + request[t].change[i]

\* Mutant: stock is checked line by line, as it is taken.
TakesWhatItCan(t) ==
    {i \in request[t].locks : Result(t, i) >= 0}

\* The rows request t changes by a delta: all it has locked, or none if one
\* of them has too little.
Adjusted(t) ==
    IF \A i \in request[t].locks : Result(t, i) >= 0
    THEN request[t].locks ELSE {}

Ready(t) == request[t] # NoRequest /\ request[t].queue = <<>>

\* adjust_item_quantity once per row: the quantity and its audit row.
AdjustCommits(t) ==
    /\ Ready(t) /\ request[t].op \in {"adjust", "consume"}
    /\ item' = [i \in Items |-> IF i \in Adjusted(t)
                                THEN [item[i] EXCEPT !.quantity = Result(t, i)]
                                ELSE item[i]]
    /\ adjustment' = [i \in Items |->
           IF i \in Adjusted(t)
           THEN Append(adjustment[i], [before |-> request[t].seen[i],
                                       after |-> Result(t, i)])
           ELSE adjustment[i]]
    /\ request' = [request EXCEPT ![t] = NoRequest]
    /\ UNCHANGED <<boms, line>>

\* No audit row, and no look at what the quantity is by now.
SetCommits(t) ==
    /\ Ready(t) /\ request[t].op = "set"
    /\ item' = [i \in Items |-> IF i \in request[t].locks
                                THEN [item[i] EXCEPT !.quantity = request[t].change[i],
                                                     !.edited = TRUE]
                                ELSE item[i]]
    /\ request' = [request EXCEPT ![t] = NoRequest]
    /\ UNCHANGED <<adjustment, boms, line>>

\* Requests t waits for.
WaitsFor(t) == IF request[t].queue = <<>> THEN {} ELSE Holder(Head(request[t].queue)) \ {t}

Deadlocked(t) ==
    \E C \in SUBSET Requests :
        t \in C /\ \A x \in C : (\E y \in C : y \in WaitsFor(x))
                             /\ (\E y \in C : x \in WaitsFor(y))

\* Mutant: the failed request keeps its transaction, and so its locks.
KeepsTransaction(t) == request[t]

\* get_db rolls back: the locks go, and nothing was written.
RolledBack(t) == NoRequest

\* External: the database picks a victim.
DeadlockVictim(t) ==
    /\ Deadlocked(t)
    /\ request' = [request EXCEPT ![t] = RolledBack(t)]
    /\ UNCHANGED <<item, adjustment, boms, line>>

-----------------------------------------------------------------------------
StockNext ==
    \/ \E i \in Items :
          \/ \E q \in Quantities : CreateItem(i, q)
          \/ DeleteItem(i)
          \/ \E b \in Boms, n \in PerUnit : AddMaterialLine(b, i, n)
          \/ \E b \in Boms : RemoveMaterialLine(b, i)
    \/ \E b \in Boms : CreateBom(b) \/ DeleteBom(b)
    \/ \E t \in Requests :
          \/ \E i \in Items, d \in Deltas : AdjustItemQuantity(t, i, d)
          \/ \E i \in Items, q \in Quantities : UpdateItemQuantity(t, i, q)
          \/ \E b \in Boms, n \in Builds : ConsumeBom(t, b, n)
          \/ LockRow(t) \/ AdjustCommits(t) \/ SetCommits(t) \/ DeadlockVictim(t)

(***************************************************************************)
(* Fairness: a request that has begun goes on, and the row lock it waits   *)
(* for comes to it, for the database queues the waiters (SF).              *)
(***************************************************************************)
StockFairness ==
    \A t \in Requests :
        /\ SF_stockVars(LockRow(t))
        /\ WF_stockVars(AdjustCommits(t) \/ SetCommits(t))
        /\ WF_stockVars(DeadlockVictim(t))

StockSpec == StockInit /\ [][StockNext]_stockVars
StockFairSpec == StockSpec /\ StockFairness

-----------------------------------------------------------------------------
(* The audit trail and the quantity never drift apart, whatever runs       *)
(* beside what: each row starts from what the one before left, and the     *)
(* last one leaves the quantity, of which no more is taken than there is.  *)
(* (Not of an item whose quantity was entered by hand: that route writes   *)
(* no row.)                                                                *)
TrailExplainsQuantity ==
    \A i \in Items : adjustment[i] # <<>> /\ ~item[i].edited =>
        /\ Last(adjustment[i]).after = item[i].quantity
        /\ item[i].quantity >= 0
        /\ \A k \in 1..(Len(adjustment[i]) - 1) :
               adjustment[i][k].after = adjustment[i][k + 1].before

(* A rejected build changed nothing, and an accepted one took every line,  *)
(* never "everything except the one line that failed"; none adds stock.    *)
BuildsAreWhole ==
    [][\A t \in Requests : AdjustCommits(t) /\ request[t].op = "consume" =>
          \/ item' = item
          \/ \A i \in request[t].locks :
                 item'[i].quantity < item[i].quantity
                    /\ item'[i].quantity = item[i].quantity + request[t].change[i]]_stockVars

(* Every request ends, also two builds that lock shared items in opposite  *)
(* orders.                                                                 *)
RequestsEnd ==
    \A t \in Requests : request[t] # NoRequest ~> request[t] = NoRequest

=============================================================================
