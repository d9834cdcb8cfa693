------------------------------ MODULE TaxReview -------------------------------
(***************************************************************************)
(* Automatic sales tax on a new invoice.  Each kind of item has one        *)
(* classification; a kind nobody has seen is sent to Claude, and what it   *)
(* answers stays pending until an admin confirms or overrides it.  Only a  *)
(* decided classification charges money; any other line flags the invoice, *)
(* and a flagged draft is sent only when the admin acknowledges it.        *)
(*                                                                         *)
(* The call to Claude takes seconds inside the transaction that creates    *)
(* the invoice, so other requests classify, confirm and override           *)
(* meanwhile.  Transactions are READ COMMITTED: what is written and not    *)
(* yet committed is in `bill`, and locks its row.                          *)
(***************************************************************************)
EXTENDS Integers, FiniteSets

CONSTANTS
    Keys,        \* kinds of item
    Decisions,   \* a category of the knowledge base, and taxable or not
    Exempt,      \* those that charge nothing
    Invoices,    \* requests that create an invoice
    Reviewers,   \* admin requests in progress at once
    Nothing

ASSUME TaxReviewConstants == Exempt \subseteq Decisions /\ Nothing \notin Decisions \cup Keys

VARIABLES
    class,   \* [Keys -> ClassRow], committed
    bill,    \* [Invoices -> the invoice and the request that creates it]
    desk,    \* [Reviewers -> what an admin request is about to write]
    ruled,   \* history: [Keys -> decisions taken by admins; a confirm takes the one it read]
    crossed  \* history: keys of which an UPDATE met a row changed since it was loaded

taxReviewVars == <<class, bill, desk, ruled, crossed>>

Decided == {"confirmed", "overridden"}
NoClass == [status |-> "absent", decision |-> Nothing]

\* seen: the rows as the session holds them.  todo: answers not yet stored.
\* loaded: the row an upsert has read and not yet written, with its key.
\* wrote: rows written and not committed.  failed, acked: history.
NewBill == [step |-> "new", lines |-> {}, seen |-> [k \in Keys |-> NoClass],
            answer |-> [k \in Keys |-> Nothing], todo |-> {}, key |-> Nothing, loaded |-> NoClass,
            wrote |-> [k \in Keys |-> NoClass], charged |-> [k \in Keys |-> Nothing],
            tax |-> 0, flagged |-> FALSE, failed |-> FALSE, acked |-> FALSE]
NoDesk == [key |-> Nothing, want |-> Nothing, loaded |-> NoClass]

TaxReviewInit ==
    /\ class = [k \in Keys |-> NoClass]
    /\ bill = [i \in Invoices |-> NewBill]
    /\ desk = [a \in Reviewers |-> NoDesk]
    /\ ruled = [k \in Keys |-> {}]
    /\ crossed = {}

Committed(i) == bill[i].step \in {"draft", "sent"}

\* Rows that request i has written and not committed.
HeldBy(i) == {k \in Keys : bill[i].wrote[k] # NoClass}

\* The unit of work: an UPDATE carries the attributes that differ from what
\* was loaded, and the row keeps the others as they are now.
Flushed(current, loaded, new) ==
    [f \in DOMAIN new |-> IF new[f] # loaded[f] THEN new[f] ELSE current[f]]

\* What a write over a row that was loaded as `loaded` adds to `crossed`.
Crossing(k, loaded) ==
    IF loaded \in {NoClass, class[k]} THEN crossed ELSE crossed \cup {k}

-----------------------------------------------------------------------------
(***************************************************************************)
(* Creating an invoice.                                                    *)
(***************************************************************************)

\* create_invoice, and the batched lookup of what is stored already.
CreateInvoice(i) ==
    /\ bill[i].step = "new"
    /\ \E lines \in SUBSET Keys \ {{}} :
          bill' = [bill EXCEPT ![i] = [NewBill EXCEPT !.step = "asking", !.lines = lines,
                      !.seen = [k \in Keys |-> IF k \in lines THEN class[k] ELSE NoClass]]]
    /\ UNCHANGED <<class, desk, ruled, crossed>>

Unknown(i) == {k \in bill[i].lines : bill[i].seen[k] = NoClass}

\* external: Claude decides any of the lines it is asked about; none when it
\* fails, is rate limited or answers nonsense.
CallClaude(i) ==
    /\ bill[i].step = "asking"
    /\ \E known \in SUBSET Unknown(i) : \E d \in [known -> Decisions] :
          bill' = [bill EXCEPT ![i].step = "storing", ![i].todo = known,
                      ![i].answer = [k \in Keys |-> IF k \in known THEN d[k] ELSE Nothing]]
    /\ UNCHANGED <<class, desk, ruled, crossed>>

\* upsert_pending, its SELECT: a human decision is left alone.
UpsertReads(i, k) ==
    /\ bill[i].step = "storing" /\ bill[i].key = Nothing
    /\ k \in bill[i].todo
    /\ bill' = [bill EXCEPT ![i].todo = @ \ {k},
                  ![i].seen[k] = class[k],
                  ![i].key = IF class[k].status \in Decided THEN Nothing ELSE k,
                  ![i].loaded = IF class[k].status \in Decided THEN NoClass ELSE class[k]]
    /\ UNCHANGED <<class, desk, ruled, crossed>>

\* A flush that fails outside a savepoint leaves the session nothing to
\* commit.  The request has swallowed the error and answers with an id.
Lost == [NewBill EXCEPT !.step = "lost"]

\* Its flush, which waits for whoever has written the row.
UpsertWrites(i) ==
    LET b == bill[i]
        k == b.key
        new == [status |-> "pending", decision |-> b.answer[k]]
    IN  /\ k # Nothing
        /\ \A j \in Invoices \ {i} : k \notin HeldBy(j)
        /\ bill' = [bill EXCEPT ![i] =
              IF b.loaded = NoClass /\ class[k] # NoClass THEN Lost    \* unique violation
              ELSE [b EXCEPT !.key = Nothing, !.loaded = NoClass, !.seen[k] = new,
                             !.wrote[k] = IF b.loaded = NoClass THEN new
                                          ELSE Flushed(class[k], b.loaded, new)]]
        /\ crossed' = Crossing(k, b.loaded)
        /\ UNCHANGED <<class, desk, ruled>>

\* Two requests wait for each other's rows; the database fails one.
Deadlocked(i) ==
    /\ \E j \in Invoices : bill[i].key \in HeldBy(j) /\ bill[j].key \in HeldBy(i)
    /\ bill' = [bill EXCEPT ![i] = Lost]
    /\ UNCHANGED <<class, desk, ruled, crossed>>

\* Mutant: whatever is classified is charged.
ChargesPending(row) == row.status \in Decided \cup {"pending"}

MayCharge(row) == row.status \in Decided

\* Mutant: with nothing priced there is nothing to flag.
FlagsPartial(b, priced) == priced # {} /\ priced # b.lines

NeedsReview(b, priced) == priced # b.lines

TaxOf(charged) == Cardinality({k \in Keys : charged[k] \notin Exempt \cup {Nothing}})

\* The charges, the totals and the flag.
ApplyTax(i) ==
    LET b == bill[i]
        priced == {k \in b.lines : MayCharge(b.seen[k])}
        charged == [k \in Keys |-> IF k \in priced THEN b.seen[k].decision ELSE Nothing]
    IN  /\ b.step = "storing" /\ b.todo = {} /\ b.key = Nothing
        /\ bill' = [bill EXCEPT ![i].step = "priced", ![i].charged = charged,
                      ![i].seen = NewBill.seen, ![i].answer = NewBill.answer,
                      ![i].tax = TaxOf(charged), ![i].flagged = NeedsReview(b, priced)]
        /\ UNCHANGED <<class, desk, ruled, crossed>>

\* Mutant: no savepoint, what was written before the failure stays.
KeepsPartialCharges(b, done) == [k \in Keys |-> IF k \in done THEN b.seen[k].decision ELSE Nothing]

\* The charges left when writing them fails after those of the lines `done`.
AfterFailure(b, done) == b.charged

ApplyTaxFails(i) ==
    LET b == bill[i]
    IN  /\ b.step = "storing" /\ b.todo = {} /\ b.key = Nothing
        /\ \E done \in SUBSET {k \in b.lines : MayCharge(b.seen[k])} :
              bill' = [bill EXCEPT ![i].step = "priced", ![i].failed = TRUE,
                          ![i].seen = NewBill.seen, ![i].answer = NewBill.answer,
                          ![i].charged = AfterFailure(b, done)]
        /\ UNCHANGED <<class, desk, ruled, crossed>>

CreateCommits(i) ==
    /\ bill[i].step = "priced"
    /\ class' = [k \in Keys |-> IF k \in HeldBy(i) THEN bill[i].wrote[k] ELSE class[k]]
    /\ bill' = [bill EXCEPT ![i].step = "draft", ![i].wrote = NewBill.wrote]
    /\ UNCHANGED <<desk, ruled, crossed>>

\* send_invoice
SendDraft(i, acknowledge) ==
    /\ bill[i].step = "draft"
    /\ bill[i].flagged => acknowledge
    /\ bill' = [bill EXCEPT ![i].step = "sent", ![i].acked = acknowledge]
    /\ UNCHANGED <<class, desk, ruled, crossed>>

-----------------------------------------------------------------------------
(***************************************************************************)
(* An admin confirms a classification (Nothing) or replaces it.            *)
(***************************************************************************)
AdminReads(a, k, want) ==
    /\ desk[a] = NoDesk
    /\ want = Nothing => class[k] # NoClass
    /\ desk' = [desk EXCEPT ![a] = [key |-> k, want |-> want, loaded |-> class[k]]]
    /\ UNCHANGED <<class, bill, ruled, crossed>>

Decision(d) ==
    IF d.want = Nothing THEN [status |-> "confirmed", decision |-> d.loaded.decision]
                     ELSE [status |-> "overridden", decision |-> d.want]

\* The flush waits for the row and commits; an INSERT that comes second fails.
AdminWrites(a) ==
    LET d == desk[a]
        k == d.key
    IN  /\ d # NoDesk
        /\ \A i \in Invoices : k \notin HeldBy(i)
        /\ class' = IF d.loaded # NoClass
                    THEN [class EXCEPT ![k] = Flushed(@, d.loaded, Decision(d))]
                    ELSE [class EXCEPT ![k] = IF @ = NoClass THEN Decision(d) ELSE @]
        /\ ruled' = IF d.loaded = NoClass /\ class[k] # NoClass THEN ruled
                    ELSE [ruled EXCEPT ![k] = @ \cup {Decision(d).decision}]
        /\ crossed' = Crossing(k, d.loaded)
        /\ desk' = [desk EXCEPT ![a] = NoDesk]
        /\ UNCHANGED bill

-----------------------------------------------------------------------------
TaxReviewNext ==
    \/ \E i \in Invoices :
          \/ CreateInvoice(i) \/ CallClaude(i) \/ UpsertWrites(i) \/ Deadlocked(i)
          \/ ApplyTax(i) \/ ApplyTaxFails(i) \/ CreateCommits(i)
          \/ \E k \in Keys : UpsertReads(i, k)
          \/ \E acknowledge \in BOOLEAN : SendDraft(i, acknowledge)
    \/ \E a \in Reviewers : AdminWrites(a)
    \/ \E a \in Reviewers, k \in Keys, want \in Decisions \cup {Nothing} : AdminReads(a, k, want)

TaxReviewSpec == TaxReviewInit /\ [][TaxReviewNext]_taxReviewVars

-----------------------------------------------------------------------------
(* An invoice whose tax was applied has every line priced by a decided     *)
(* classification, or is flagged (an outage of Claude fails closed); and   *)
(* what is flagged was sent only by an admin who said so.  A line is       *)
(* priced as some admin decided of its kind, and the kind stays decided:   *)
(* but where an UPDATE met a row changed since it was loaded, a row can    *)
(* say "confirmed" of what Claude answered (HumanDecisionStands), and such *)
(* a line is charged with nobody's decision and no flag.  That a decided   *)
(* line charges anything is not claimed: an exempt kind, and one whose     *)
(* category has no rate, charge nothing.                                   *)
UnreviewedTaxIsHeld ==
    \A i \in Invoices : Committed(i) =>
        /\ bill[i].failed \/ bill[i].flagged
           \/ \A k \in bill[i].lines : bill[i].charged[k] # Nothing
        /\ \A k \in Keys : bill[i].charged[k] # Nothing =>
               /\ bill[i].charged[k] \in ruled[k] \/ k \in crossed
               /\ class[k].status \in Decided
        /\ bill[i].step = "sent" /\ bill[i].flagged => bill[i].acked

(* The stored tax of an invoice is the sum of its charge rows, also when   *)
(* writing the charges failed half way and the request went on.            *)
TaxIsSumOfCharges ==
    \A i \in Invoices : Committed(i) => bill[i].tax = TaxOf(bill[i].charged)

(* classification_store.py:12: a human decision is NEVER silently          *)
(* overwritten by a later Claude result.                                   *)
HumanDecisionStands ==
    [][\A k \in Keys :
          class[k].status \in Decided /\ class'[k].decision # class[k].decision
              => \E a \in Reviewers : desk[a].key = k /\ desk'[a] = NoDesk]_taxReviewVars

=============================================================================
