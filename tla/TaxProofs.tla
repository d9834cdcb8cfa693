---------------------------- MODULE TaxProofs ----------------------------
(***************************************************************************)
(* Sales tax: what a charge rests on, and which rate it was priced with.   *)
(***************************************************************************)
EXTENDS TaxReview, TaxRates, Sums

-----------------------------------------------------------------------------
(***************************************************************************)
(* Why a charge always rests on a human decision.  Claude's answers are    *)
(* written over pending rows only, and a row decided meanwhile keeps its   *)
(* status, for the UPDATE does not carry an attribute that did not change; *)
(* so what a request has seen decided stays decided, and what it has       *)
(* written but not committed is no less decided than what it replaces.     *)
(***************************************************************************)
StoredRow == [status: {"pending", "confirmed", "overridden"}, decision: Decisions]
ClassRow == StoredRow \cup {NoClass}
Answers == Decisions \cup {Nothing}
Taxes == {TaxOf(c) : c \in [Keys -> Answers]}

BillRow == [step: {"new", "asking", "storing", "priced", "draft", "sent", "lost"},
            lines: SUBSET Keys, seen: [Keys -> ClassRow], answer: [Keys -> Answers],
            todo: SUBSET Keys, key: Keys \cup {Nothing}, loaded: ClassRow,
            wrote: [Keys -> ClassRow], charged: [Keys -> Answers], tax: Taxes,
            flagged: BOOLEAN, failed: BOOLEAN, acked: BOOLEAN]

DeskRow == [key: Keys \cup {Nothing}, want: Answers, loaded: ClassRow]

TaxReviewTypeOK ==
    /\ class \in [Keys -> ClassRow]
    /\ bill \in [Invoices -> BillRow]
    /\ desk \in [Reviewers -> DeskRow]

\* What a request holds, given the committed classifications C.
SeenStands(b, C) ==
    \A k \in Keys : b.seen[k].status \in Decided => C[k].status \in Decided

ChargesStand(b, C) ==
    \A k \in Keys : b.charged[k] # Nothing => C[k].status \in Decided

WroteStands(b, C) ==
    \A k \in Keys : b.wrote[k] # NoClass /\ C[k].status \in Decided
                        => b.wrote[k].status \in Decided

LoadedStands(b, C) ==
    /\ \A k \in b.todo : b.answer[k] \in Decisions
    /\ b.key # Nothing => b.step = "storing" /\ b.answer[b.key] \in Decisions
    /\ b.loaded # NoClass =>
           b.key # Nothing /\ b.loaded.status = "pending" /\ C[b.key] # NoClass

BillStands(b) ==
    /\ b.step \in {"priced", "draft", "sent"} =>
           b.failed \/ b.flagged \/ \A k \in b.lines : b.charged[k] # Nothing
    /\ b.step = "sent" /\ b.flagged => b.acked
    /\ b.tax = TaxOf(b.charged)

RowOK(b, C) ==
    SeenStands(b, C) /\ ChargesStand(b, C) /\ WroteStands(b, C) /\ LoadedStands(b, C)
        /\ BillStands(b)

DeskOK(d, C) ==
    d # NoDesk =>
        /\ d.key \in Keys
        /\ d.want = Nothing => d.loaded # NoClass
        /\ d.loaded # NoClass => C[d.key] # NoClass

OneWriter == \A i, j \in Invoices : i # j => HeldBy(i) \cap HeldBy(j) = {}

TaxReviewInv ==
    /\ TaxReviewTypeOK
    /\ \A i \in Invoices : RowOK(bill[i], class)
    /\ \A a \in Reviewers : DeskOK(desk[a], class)
    /\ OneWriter

-----------------------------------------------------------------------------
(* An UPDATE writes what differs from what was loaded, over a stored row.  *)
LEMMA FlushedRow ==
    ASSUME NEW current \in StoredRow, NEW loaded \in ClassRow, NEW new \in StoredRow
    PROVE  /\ Flushed(current, loaded, new) \in StoredRow
           /\ Flushed(current, loaded, new).status =
                  IF new.status # loaded.status THEN new.status ELSE current.status
  <1> DEFINE row == Flushed(current, loaded, new)
  <1>1. DOMAIN new = {"status", "decision"}
    BY DEF StoredRow
  <1>2. row = [f \in {"status", "decision"} |->
                  IF new[f] # loaded[f] THEN new[f] ELSE current[f]]
    BY <1>1 DEF Flushed
  <1>3. /\ row.status = IF new.status # loaded.status THEN new.status ELSE current.status
        /\ row.decision = IF new.decision # loaded.decision
                          THEN new.decision ELSE current.decision
    BY <1>2
  <1>4. row = [status |-> row.status, decision |-> row.decision]
    BY <1>2
  <1>5. /\ row.status \in {"pending", "confirmed", "overridden"}
        /\ row.decision \in Decisions
    BY <1>3 DEF StoredRow
  <1> QED
    BY <1>3, <1>4, <1>5 DEF StoredRow

(* A stored row is not the absent one.                                     *)
LEMMA StoredIsPresent ==
    /\ \A r \in StoredRow : r # NoClass /\ r.decision \in Decisions
    /\ \A r \in ClassRow : r # NoClass => r \in StoredRow
    /\ NoClass.status \notin Decided
    /\ Nothing \notin Decisions /\ Nothing \notin Keys
  BY TaxReviewConstants DEF StoredRow, ClassRow, NoClass, Decided

(* An invoice without charges bears no tax.                                *)
LEMMA NoTax ==
    LET none == [k \in Keys |-> Nothing]
    IN  none \in [Keys -> Answers] /\ TaxOf(none) = 0
  <1> DEFINE none == [k \in Keys |-> Nothing]
  <1>1. {k \in Keys : none[k] \notin Exempt \cup {Nothing}} = {}
    OBVIOUS
  <1>2. TaxOf(none) = 0
    BY <1>1, FS_EmptySet DEF TaxOf
  <1> QED
    BY <1>2 DEF Answers

(* A request that has only begun, or lost all, holds nothing.              *)
LEMMA NewRows ==
    ASSUME NEW C \in [Keys -> ClassRow]
    PROVE  /\ NewBill \in BillRow /\ RowOK(NewBill, C)
           /\ Lost \in BillRow /\ RowOK(Lost, C)
           /\ \A k \in Keys : NewBill.wrote[k] = NoClass /\ Lost.wrote[k] = NoClass
  <1>1. 0 \in Taxes
    BY NoTax DEF Taxes
  <1>2. NewBill \in BillRow /\ Lost \in BillRow
    BY <1>1, StoredIsPresent DEF NewBill, Lost, BillRow, ClassRow, Answers
  <1>3. NewBill.tax = TaxOf(NewBill.charged) /\ Lost.tax = TaxOf(Lost.charged)
    BY NoTax DEF NewBill, Lost
  <1>4. /\ \A k \in Keys : NewBill.wrote[k] = NoClass /\ Lost.wrote[k] = NoClass
        /\ \A k \in Keys : NewBill.seen[k] = NoClass /\ Lost.seen[k] = NoClass
        /\ \A k \in Keys : NewBill.charged[k] = Nothing /\ Lost.charged[k] = Nothing
        /\ NewBill.todo = {} /\ Lost.todo = {}
        /\ NewBill.key = Nothing /\ Lost.key = Nothing
        /\ NewBill.loaded = NoClass /\ Lost.loaded = NoClass
        /\ NewBill.step = "new" /\ Lost.step = "lost"
    BY DEF NewBill, Lost
  <1> HIDE DEF NewBill, Lost
  <1> QED
    BY <1>2, <1>3, <1>4, StoredIsPresent
       DEF RowOK, SeenStands, ChargesStand, WroteStands, LoadedStands, BillStands

(* Nothing is classified, billed or reviewed at the start.                 *)
LEMMA TaxReviewInitInv == TaxReviewInit => TaxReviewInv
  <1> SUFFICES ASSUME TaxReviewInit PROVE TaxReviewInv
    OBVIOUS
  <1>1. class \in [Keys -> ClassRow] /\ NoDesk \in DeskRow
    BY DEF TaxReviewInit, ClassRow, NoDesk, DeskRow, Answers
  <1>2. /\ bill \in [Invoices -> BillRow]
        /\ \A i \in Invoices : bill[i] = NewBill
        /\ \A a \in Reviewers : desk[a] = NoDesk
    BY <1>1, NewRows DEF TaxReviewInit
  <1>3. OneWriter
    BY <1>1, <1>2, NewRows DEF OneWriter, HeldBy
  <1>4. desk \in [Reviewers -> DeskRow]
    BY <1>1 DEF TaxReviewInit
  <1> QED
    BY <1>1, <1>2, <1>3, <1>4, NewRows DEF TaxReviewInv, TaxReviewTypeOK, DeskOK

-----------------------------------------------------------------------------
(* A request that changes its own row only, and takes no row that another  *)
(* one has written, keeps the invariant.                                   *)
LEMMA BillStep ==
    ASSUME TaxReviewInv, NEW i \in Invoices, NEW b \in BillRow,
           bill' = [bill EXCEPT ![i] = b], class' = class, desk' = desk,
           RowOK(b, class),
           \A k \in Keys, j \in Invoices \ {i} :
               b.wrote[k] # NoClass => k \notin HeldBy(j)
    PROVE  TaxReviewInv'
  <1>1. TaxReviewTypeOK'
    BY DEF TaxReviewInv, TaxReviewTypeOK
  <1>2. \A j \in Invoices : bill'[j] = IF j = i THEN b ELSE bill[j]
    BY DEF TaxReviewInv, TaxReviewTypeOK
  <1>3. \A j \in Invoices : RowOK(bill'[j], class')
    BY <1>2 DEF TaxReviewInv
  <1>4. \A a \in Reviewers : DeskOK(desk'[a], class')
    BY DEF TaxReviewInv
  <1>5. OneWriter'
    <2> SUFFICES ASSUME NEW j \in Invoices, NEW l \in Invoices, j # l, NEW k \in Keys,
                        bill'[j].wrote[k] # NoClass, bill'[l].wrote[k] # NoClass
                 PROVE  FALSE
      BY DEF OneWriter, HeldBy
    <2>1. CASE j = i
      BY <2>1, <1>2 DEF HeldBy
    <2>2. CASE l = i
      BY <2>2, <1>2 DEF HeldBy
    <2>3. CASE j # i /\ l # i
      BY <2>3, <1>2 DEF TaxReviewInv, OneWriter, HeldBy
    <2> QED
      BY <2>1, <2>2, <2>3
  <1> QED
    BY <1>1, <1>3, <1>4, <1>5 DEF TaxReviewInv

(* When the committed rows change and none is taken back or loses its      *)
(* decision, what other requests hold stands, but for rows they have       *)
(* written themselves.                                                     *)
LEMMA ClassStep ==
    ASSUME NEW C \in [Keys -> ClassRow], NEW D \in [Keys -> ClassRow],
           \A k \in Keys : C[k].status \in Decided => D[k].status \in Decided,
           \A k \in Keys : C[k] # NoClass => D[k] # NoClass
    PROVE  /\ \A b \in BillRow :
                  RowOK(b, C) /\ (\A k \in Keys : b.wrote[k] # NoClass => D[k] = C[k])
                      => RowOK(b, D)
           /\ \A d \in DeskRow : DeskOK(d, C) => DeskOK(d, D)
  <1>1. ASSUME NEW b \in BillRow, RowOK(b, C),
               \A k \in Keys : b.wrote[k] # NoClass => D[k] = C[k]
        PROVE  RowOK(b, D)
    <2>1. SeenStands(b, D) /\ ChargesStand(b, D)
      BY <1>1 DEF RowOK, SeenStands, ChargesStand
    <2>2. WroteStands(b, D)
      BY <1>1 DEF RowOK, WroteStands
    <2>3. LoadedStands(b, D)
      <3>1. b.key # Nothing => b.key \in Keys
        BY DEF BillRow
      <3> QED
        BY <3>1, <1>1 DEF RowOK, LoadedStands
    <2> QED
      BY <2>1, <2>2, <2>3, <1>1 DEF RowOK
  <1>2. ASSUME NEW d \in DeskRow, DeskOK(d, C) PROVE DeskOK(d, D)
    BY <1>2 DEF DeskOK
  <1> QED
    BY <1>1, <1>2

(* The request of invoice i does one of its steps.                         *)
LEMMA RequestStep ==
    ASSUME TaxReviewInv, NEW i \in Invoices,
           \/ CreateInvoice(i) \/ CallClaude(i) \/ UpsertWrites(i) \/ Deadlocked(i)
           \/ ApplyTax(i) \/ ApplyTaxFails(i)
           \/ \E k \in Keys : UpsertReads(i, k)
           \/ \E acknowledge \in BOOLEAN : SendDraft(i, acknowledge)
    PROVE  TaxReviewInv'
  <1> DEFINE b == bill[i]
  <1>type. /\ TaxReviewTypeOK /\ b \in BillRow /\ class \in [Keys -> ClassRow]
           /\ \A k \in Keys : class[k] \in ClassRow
    BY DEF TaxReviewInv, TaxReviewTypeOK
  <1>row. RowOK(b, class)
    BY DEF TaxReviewInv
  <1>lock. \A k \in Keys, j \in Invoices \ {i} : b.wrote[k] # NoClass => k \notin HeldBy(j)
    BY DEF TaxReviewInv, OneWriter, HeldBy
  <1> HIDE DEF b
  <1>1. CASE CreateInvoice(i)
    <2>1. PICK lines \in SUBSET Keys \ {{}} :
              bill' = [bill EXCEPT ![i] = [NewBill EXCEPT !.step = "asking", !.lines = lines,
                 !.seen = [k \in Keys |-> IF k \in lines THEN class[k] ELSE NoClass]]]
      BY <1>1 DEF CreateInvoice
    <2> DEFINE seen == [k \in Keys |-> IF k \in lines THEN class[k] ELSE NoClass]
               new == [NewBill EXCEPT !.step = "asking", !.lines = lines, !.seen = seen]
    <2>2. seen \in [Keys -> ClassRow] /\ \A k \in Keys : seen[k] \in {class[k], NoClass}
      BY <1>type DEF ClassRow
    <2>3. NewBill \in BillRow /\ RowOK(NewBill, class)
              /\ \A k \in Keys : NewBill.wrote[k] = NoClass
      BY <1>type, NewRows
    <2> HIDE DEF seen
    <2>4. /\ new \in BillRow /\ new.seen = seen /\ new.wrote = NewBill.wrote
          /\ new.charged = NewBill.charged /\ new.todo = NewBill.todo
          /\ new.answer = NewBill.answer /\ new.key = NewBill.key /\ new.loaded = NewBill.loaded
          /\ new.step = "asking" /\ new.tax = NewBill.tax
      BY <2>2, <2>3 DEF BillRow
    <2>5. bill' = [bill EXCEPT ![i] = new] /\ class' = class /\ desk' = desk
      BY <2>1, <1>1 DEF CreateInvoice, seen
    <2>6. NewBill.key = Nothing
      BY DEF NewBill
    <2> HIDE DEF new
    <2>7. RowOK(new, class)
      BY <2>2, <2>3, <2>4, <2>6, StoredIsPresent
         DEF RowOK, SeenStands, ChargesStand, WroteStands, LoadedStands, BillStands
    <2> QED
      BY <2>3, <2>4, <2>5, <2>7, BillStep
  <1>2. CASE CallClaude(i)
    <2>1. PICK known \in SUBSET Unknown(i) : \E d \in [known -> Decisions] :
              bill' = [bill EXCEPT ![i].step = "storing", ![i].todo = known,
                 ![i].answer = [k \in Keys |-> IF k \in known THEN d[k] ELSE Nothing]]
      BY <1>2 DEF CallClaude
    <2>2. PICK d \in [known -> Decisions] :
              bill' = [bill EXCEPT ![i].step = "storing", ![i].todo = known,
                 ![i].answer = [k \in Keys |-> IF k \in known THEN d[k] ELSE Nothing]]
      BY <2>1
    <2> DEFINE answer == [k \in Keys |-> IF k \in known THEN d[k] ELSE Nothing]
               new == [b EXCEPT !.step = "storing", !.todo = known, !.answer = answer]
    <2>3. /\ known \subseteq Keys /\ answer \in [Keys -> Answers]
          /\ \A k \in known : answer[k] \in Decisions
      BY <1>type DEF Unknown, BillRow, Answers, b
    <2>4. b.step = "asking"
      BY <1>2 DEF CallClaude, b
    <2> HIDE DEF answer
    <2>5. /\ new \in BillRow /\ new.step = "storing" /\ new.todo = known /\ new.answer = answer
          /\ new.seen = b.seen /\ new.wrote = b.wrote /\ new.charged = b.charged
          /\ new.key = b.key /\ new.loaded = b.loaded /\ new.tax = b.tax
      BY <2>3, <1>type DEF BillRow
    <2>6. bill' = [bill EXCEPT ![i] = new] /\ class' = class /\ desk' = desk
      BY <2>2, <1>2, <1>type DEF CallClaude, answer, b, TaxReviewTypeOK
    <2> HIDE DEF new
    <2>7. RowOK(new, class)
      BY <2>3, <2>4, <2>5, <1>row
         DEF RowOK, SeenStands, ChargesStand, WroteStands, LoadedStands, BillStands
    <2> QED
      BY <2>5, <2>6, <2>7, <1>lock, BillStep
  <1>3. ASSUME NEW k \in Keys, UpsertReads(i, k) PROVE TaxReviewInv'
    <2> DEFINE decided == class[k].status \in Decided
               seen == [b.seen EXCEPT ![k] = class[k]]
               key == IF decided THEN Nothing ELSE k
               loaded == IF decided THEN NoClass ELSE class[k]
               new == [b EXCEPT !.todo = b.todo \ {k}, !.seen = seen, !.key = key,
                                !.loaded = loaded]
    <2>1. /\ bill' = [bill EXCEPT ![i].todo = @ \ {k}, ![i].seen[k] = class[k],
                                  ![i].key = key, ![i].loaded = loaded]
          /\ b.step = "storing" /\ b.key = Nothing /\ k \in b.todo
          /\ class' = class /\ desk' = desk
      BY <1>3 DEF UpsertReads, b
    <2>2. /\ seen \in [Keys -> ClassRow]
          /\ \A x \in Keys : seen[x] = IF x = k THEN class[k] ELSE b.seen[x]
          /\ key \in {Nothing, k} /\ loaded \in {NoClass, class[k]}
          /\ loaded \in ClassRow
          /\ loaded # NoClass => key = k /\ loaded = class[k] /\ ~decided
      BY <1>type DEF BillRow, ClassRow
    <2>3. bill' = [bill EXCEPT ![i] = new]
      BY <2>1, <1>type DEF b, TaxReviewTypeOK, BillRow
    <2> HIDE DEF seen, key, loaded
    <2>4. /\ new \in BillRow /\ new.seen = seen /\ new.key = key /\ new.loaded = loaded
          /\ new.todo = b.todo \ {k} /\ new.answer = b.answer /\ new.step = b.step
          /\ new.wrote = b.wrote /\ new.charged = b.charged /\ new.tax = b.tax
      BY <2>2, <1>type DEF BillRow
    <2> HIDE DEF new
    <2>5. SeenStands(new, class) /\ ChargesStand(new, class) /\ WroteStands(new, class)
      BY <2>2, <2>4, <1>row DEF RowOK, SeenStands, ChargesStand, WroteStands
    <2>6. loaded # NoClass => loaded.status = "pending"
      BY <2>2, StoredIsPresent DEF StoredRow, Decided
    <2>7. LoadedStands(new, class) /\ BillStands(new)
      BY <2>1, <2>2, <2>4, <2>6, <1>row, StoredIsPresent DEF RowOK, LoadedStands, BillStands
    <2> QED
      BY <2>3, <2>4, <2>5, <2>7, <2>1, <1>lock, BillStep DEF RowOK
  <1>4. CASE UpsertWrites(i)
    <2> DEFINE k == b.key
               row == [status |-> "pending", decision |-> b.answer[k]]
               written == IF b.loaded = NoClass THEN row ELSE Flushed(class[k], b.loaded, row)
               new == [b EXCEPT !.key = Nothing, !.loaded = NoClass,
                                !.seen = [b.seen EXCEPT ![k] = row],
                                !.wrote = [b.wrote EXCEPT ![k] = written]]
    <2>1. /\ k # Nothing /\ k \in Keys
          /\ \A j \in Invoices \ {i} : k \notin HeldBy(j)
          /\ class' = class /\ desk' = desk
      BY <1>4, <1>type DEF UpsertWrites, b, BillRow
    <2>2. CASE b.loaded = NoClass /\ class[k] # NoClass
      <3>1. bill' = [bill EXCEPT ![i] = Lost]
        BY <2>2, <1>4 DEF UpsertWrites, b
      <3> QED
        BY <3>1, <2>1, <1>type, NewRows, BillStep
    <2>3. CASE ~(b.loaded = NoClass /\ class[k] # NoClass)
      <3>1. row \in StoredRow /\ row.status = "pending"
        BY <2>1, <1>row DEF RowOK, LoadedStands, StoredRow
      <3>2. /\ written \in StoredRow
            /\ class[k].status \in Decided => written.status \in Decided
        <4>1. CASE b.loaded = NoClass
          BY <4>1, <2>3, <3>1, StoredIsPresent
        <4>2. CASE b.loaded # NoClass
          <5>1. b.loaded.status = "pending" /\ class[k] # NoClass /\ b.loaded \in ClassRow
            BY <4>2, <1>row, <1>type DEF RowOK, LoadedStands, BillRow
          <5>2. class[k] \in StoredRow
            BY <5>1, <2>1, <1>type, StoredIsPresent
          <5> QED
            BY <5>1, <5>2, <4>2, <3>1, FlushedRow
        <4> QED
          BY <4>1, <4>2
      <3>3. bill' = [bill EXCEPT ![i] = new]
        BY <2>3, <1>4, <1>type DEF UpsertWrites, b, BillRow
      <3> HIDE DEF row, written
      <3>4. /\ new \in BillRow /\ new.key = Nothing /\ new.loaded = NoClass
            /\ new.seen = [b.seen EXCEPT ![k] = row]
            /\ new.wrote = [b.wrote EXCEPT ![k] = written]
            /\ new.todo = b.todo /\ new.answer = b.answer /\ new.step = b.step
            /\ new.charged = b.charged /\ new.tax = b.tax
        BY <2>1, <3>1, <3>2, <1>type DEF BillRow, ClassRow
      <3>5. /\ \A x \in Keys : new.seen[x] = IF x = k THEN row ELSE b.seen[x]
            /\ \A x \in Keys : new.wrote[x] = IF x = k THEN written ELSE b.wrote[x]
        BY <3>4, <1>type DEF BillRow
      <3> HIDE DEF new
      <3>6. SeenStands(new, class)
        BY <3>1, <3>5, <1>row DEF RowOK, SeenStands, Decided
      <3>7. ChargesStand(new, class) /\ WroteStands(new, class)
        BY <3>2, <3>4, <3>5, <1>row DEF RowOK, ChargesStand, WroteStands
      <3>8. b.step = "storing"
        BY <2>1, <1>row DEF RowOK, LoadedStands
      <3>9. LoadedStands(new, class) /\ BillStands(new)
        BY <3>4, <3>8, <1>row DEF RowOK, LoadedStands, BillStands
      <3>10. \A x \in Keys, j \in Invoices \ {i} : new.wrote[x] # NoClass => x \notin HeldBy(j)
        BY <3>5, <2>1, <1>lock
      <3> QED
        BY <3>3, <3>4, <3>6, <3>7, <3>9, <3>10, <2>1, BillStep DEF RowOK
    <2> QED
      BY <2>2, <2>3
  <1>5. CASE Deadlocked(i)
    BY <1>5, <1>type, NewRows, BillStep DEF Deadlocked
  <1>6. CASE ApplyTax(i)
    <2> DEFINE priced == {k \in b.lines : MayCharge(b.seen[k])}
               charged == [k \in Keys |-> IF k \in priced THEN b.seen[k].decision ELSE Nothing]
               new == [b EXCEPT !.step = "priced", !.charged = charged,
                                !.seen = NewBill.seen, !.answer = NewBill.answer,
                                !.tax = TaxOf(charged), !.flagged = NeedsReview(b, priced)]
    <2>1. /\ bill' = [bill EXCEPT ![i].step = "priced", ![i].charged = charged,
                 ![i].seen = NewBill.seen, ![i].answer = NewBill.answer,
                 ![i].tax = TaxOf(charged), ![i].flagged = NeedsReview(b, priced)]
          /\ b.step = "storing" /\ b.todo = {} /\ b.key = Nothing
          /\ class' = class /\ desk' = desk
      BY <1>6 DEF ApplyTax, b
    <2>2. bill' = [bill EXCEPT ![i] = new]
      <3> HIDE DEF charged, priced
      <3> QED
        BY <2>1, <1>type DEF b, TaxReviewTypeOK
    <2>3. \A k \in priced : /\ k \in Keys /\ b.seen[k].status \in Decided
                            /\ b.seen[k].decision \in Decisions
      <3>1. \A k \in priced : k \in Keys /\ b.seen[k] \in ClassRow /\ b.seen[k].status \in Decided
        BY <1>type DEF MayCharge, BillRow
      <3> QED
        BY <3>1, StoredIsPresent
    <2>4. /\ charged \in [Keys -> Answers]
          /\ \A k \in Keys : charged[k] # Nothing => k \in priced
          /\ \A k \in priced : charged[k] # Nothing
      BY <2>3, StoredIsPresent DEF Answers
    <2>5. /\ NewBill.seen \in [Keys -> ClassRow] /\ NewBill.answer \in [Keys -> Answers]
          /\ \A k \in Keys : NewBill.seen[k] = NoClass
      BY DEF NewBill, ClassRow, Answers
    <2>6. NeedsReview(b, priced) \in BOOLEAN /\ (NeedsReview(b, priced) <=> priced # b.lines)
      BY DEF NeedsReview
    <2> DEFINE review == NeedsReview(b, priced)
    <2> HIDE DEF charged, review, priced
    <2>7. /\ new \in BillRow /\ new.step = "priced" /\ new.charged = charged
          /\ new.seen = NewBill.seen /\ new.tax = TaxOf(charged)
          /\ new.flagged = review /\ new.lines = b.lines
          /\ new.todo = b.todo /\ new.key = b.key /\ new.loaded = b.loaded
          /\ new.wrote = b.wrote
      BY <2>4, <2>5, <2>6, <1>type DEF BillRow, Taxes, review
    <2> HIDE DEF new
    <2>8. SeenStands(new, class) /\ WroteStands(new, class)
      BY <2>5, <2>7, <1>row, StoredIsPresent DEF RowOK, SeenStands, WroteStands
    <2>9. ChargesStand(new, class)
      BY <2>3, <2>4, <2>7, <1>row DEF RowOK, SeenStands, ChargesStand
    <2>10. LoadedStands(new, class)
      BY <2>1, <2>7, <1>row DEF RowOK, LoadedStands
    <2>11. BillStands(new)
      <3>1. new.flagged \/ \A k \in new.lines : new.charged[k] # Nothing
        BY <2>4, <2>6, <2>7 DEF review
      <3> QED
        BY <3>1, <2>7 DEF BillStands
    <2> QED
      BY <2>1, <2>2, <2>7, <2>8, <2>9, <2>10, <2>11, <1>lock, BillStep DEF RowOK
  <1>7. CASE ApplyTaxFails(i)
    <2> DEFINE new == [b EXCEPT !.step = "priced", !.failed = TRUE, !.seen = NewBill.seen,
                                !.answer = NewBill.answer, !.charged = b.charged]
    <2>1. /\ bill' = [bill EXCEPT ![i].step = "priced", ![i].failed = TRUE,
                 ![i].seen = NewBill.seen, ![i].answer = NewBill.answer,
                 ![i].charged = b.charged]
          /\ b.step = "storing" /\ b.todo = {} /\ b.key = Nothing
          /\ class' = class /\ desk' = desk
      BY <1>7 DEF ApplyTaxFails, AfterFailure, b
    <2>2. bill' = [bill EXCEPT ![i] = new]
      BY <2>1, <1>type DEF b, TaxReviewTypeOK
    <2>3. /\ NewBill.seen \in [Keys -> ClassRow] /\ NewBill.answer \in [Keys -> Answers]
          /\ \A k \in Keys : NewBill.seen[k] = NoClass
      BY DEF NewBill, ClassRow, Answers
    <2>4. /\ new \in BillRow /\ new.step = "priced" /\ new.failed /\ new.charged = b.charged
          /\ new.seen = NewBill.seen /\ new.tax = b.tax
          /\ new.todo = b.todo /\ new.key = b.key /\ new.loaded = b.loaded
          /\ new.wrote = b.wrote
      BY <2>3, <1>type DEF BillRow
    <2> HIDE DEF new
    <2>5. SeenStands(new, class) /\ ChargesStand(new, class) /\ WroteStands(new, class)
      BY <2>3, <2>4, <1>row, StoredIsPresent DEF RowOK, SeenStands, ChargesStand, WroteStands
    <2>6. LoadedStands(new, class) /\ BillStands(new)
      BY <2>1, <2>4, <1>row DEF RowOK, LoadedStands, BillStands
    <2> QED
      BY <2>1, <2>2, <2>4, <2>5, <2>6, <1>lock, BillStep DEF RowOK
  <1>8. ASSUME NEW acknowledge \in BOOLEAN, SendDraft(i, acknowledge) PROVE TaxReviewInv'
    <2> DEFINE new == [b EXCEPT !.step = "sent", !.acked = acknowledge]
    <2>1. /\ bill' = [bill EXCEPT ![i].step = "sent", ![i].acked = acknowledge]
          /\ b.step = "draft" /\ (b.flagged => acknowledge)
          /\ class' = class /\ desk' = desk
      BY <1>8 DEF SendDraft, b
    <2>2. bill' = [bill EXCEPT ![i] = new]
      BY <2>1, <1>type DEF b, TaxReviewTypeOK
    <2>3. /\ new \in BillRow /\ new.step = "sent" /\ (new.flagged => new.acked)
          /\ new.charged = b.charged /\ new.seen = b.seen /\ new.tax = b.tax
          /\ new.todo = b.todo /\ new.key = b.key /\ new.loaded = b.loaded
          /\ new.answer = b.answer /\ new.wrote = b.wrote /\ new.lines = b.lines
          /\ new.failed = b.failed /\ new.flagged = b.flagged
      BY <2>1, <1>type DEF BillRow
    <2> HIDE DEF new
    <2>4. SeenStands(new, class) /\ ChargesStand(new, class) /\ WroteStands(new, class)
      BY <2>3, <1>row DEF RowOK, SeenStands, ChargesStand, WroteStands
    <2>5. LoadedStands(new, class) /\ BillStands(new)
      BY <2>1, <2>3, <1>row DEF RowOK, LoadedStands, BillStands
    <2> QED
      BY <2>1, <2>2, <2>3, <2>4, <2>5, <1>lock, BillStep DEF RowOK
  <1> QED
    BY <1>1, <1>2, <1>3, <1>4, <1>5, <1>6, <1>7, <1>8

(* A commit publishes what its request has written, and only that.         *)
LEMMA CommitStep ==
    ASSUME TaxReviewInv, NEW i \in Invoices, CreateCommits(i)
    PROVE  TaxReviewInv'
  <1> DEFINE b == bill[i]
             new == [b EXCEPT !.step = "draft", !.wrote = NewBill.wrote]
  <1>1. /\ class' = [k \in Keys |-> IF k \in HeldBy(i) THEN b.wrote[k] ELSE class[k]]
        /\ bill' = [bill EXCEPT ![i].step = "draft", ![i].wrote = NewBill.wrote]
        /\ b.step = "priced" /\ desk' = desk
    BY DEF CreateCommits
  <1>type. /\ class \in [Keys -> ClassRow] /\ bill \in [Invoices -> BillRow]
           /\ desk \in [Reviewers -> DeskRow]
           /\ b \in BillRow /\ RowOK(b, class)
    BY DEF TaxReviewInv, TaxReviewTypeOK
  <1>2. bill' = [bill EXCEPT ![i] = new]
    BY <1>1, <1>type
  <1>held. \A k \in Keys : k \in HeldBy(i) <=> b.wrote[k] # NoClass
    BY DEF HeldBy
  <1> HIDE DEF b
  <1>3. NewBill.wrote \in [Keys -> ClassRow] /\ \A k \in Keys : NewBill.wrote[k] = NoClass
    BY DEF NewBill, ClassRow
  <1>4. /\ new \in BillRow /\ new.step = "draft" /\ new.wrote = NewBill.wrote
        /\ new.charged = b.charged /\ new.seen = b.seen /\ new.tax = b.tax
        /\ new.todo = b.todo /\ new.key = b.key /\ new.loaded = b.loaded
        /\ new.answer = b.answer /\ new.lines = b.lines
        /\ new.failed = b.failed /\ new.flagged = b.flagged
    BY <1>3, <1>type DEF BillRow
  <1> HIDE DEF new
  <1>5. RowOK(new, class)
    BY <1>1, <1>3, <1>4, <1>type
       DEF RowOK, SeenStands, ChargesStand, WroteStands, LoadedStands, BillStands
  <1>6. /\ class' \in [Keys -> ClassRow]
        /\ \A k \in Keys : class[k].status \in Decided => class'[k].status \in Decided
        /\ \A k \in Keys : class[k] # NoClass => class'[k] # NoClass
    <2>1. \A k \in Keys : class'[k] = IF k \in HeldBy(i) THEN b.wrote[k] ELSE class[k]
      BY <1>1
    <2>2. \A k \in Keys : b.wrote[k] \in ClassRow
      BY <1>type DEF BillRow
    <2> QED
      BY <2>1, <2>2, <1>1, <1>held, <1>type DEF RowOK, WroteStands
  <1>7. ASSUME NEW j \in Invoices PROVE RowOK(bill'[j], class')
    <2>1. CASE j = i
      BY <2>1, <1>2, <1>3, <1>4, <1>5, <1>6, <1>type, ClassStep
    <2>2. CASE j # i
      <3>1. bill'[j] = bill[j] /\ bill[j] \in BillRow /\ RowOK(bill[j], class)
        BY <2>2, <1>2, <1>type DEF TaxReviewInv
      <3>2. \A k \in Keys : bill[j].wrote[k] # NoClass => class'[k] = class[k]
        BY <2>2, <1>1 DEF TaxReviewInv, OneWriter, HeldBy
      <3> QED
        BY <3>1, <3>2, <1>6, <1>type, ClassStep
    <2> QED
      BY <2>1, <2>2
  <1>8. \A a \in Reviewers : DeskOK(desk'[a], class')
    BY <1>1, <1>6, <1>type, ClassStep DEF TaxReviewInv
  <1>9. OneWriter'
    <2>1. \A j \in Invoices : bill'[j] = IF j = i THEN new ELSE bill[j]
      BY <1>2, <1>type
    <2>2. \A j \in Invoices, k \in Keys : bill'[j].wrote[k] # NoClass => bill[j].wrote[k] # NoClass
      BY <2>1, <1>3, <1>4
    <2> QED
      BY <2>2 DEF TaxReviewInv, OneWriter, HeldBy
  <1> QED
    BY <1>1, <1>2, <1>4, <1>6, <1>7, <1>8, <1>9, <1>type DEF TaxReviewInv, TaxReviewTypeOK

(* An admin's request decides a row; it never takes a decision back.       *)
LEMMA AdminStep ==
    ASSUME TaxReviewInv, NEW a \in Reviewers,
           \/ AdminWrites(a)
           \/ \E k \in Keys, want \in Decisions \cup {Nothing} : AdminReads(a, k, want)
    PROVE  TaxReviewInv'
  <1>type. /\ class \in [Keys -> ClassRow] /\ bill \in [Invoices -> BillRow]
           /\ desk \in [Reviewers -> DeskRow] /\ OneWriter
           /\ \A i \in Invoices : RowOK(bill[i], class)
           /\ \A x \in Reviewers : DeskOK(desk[x], class)
    BY DEF TaxReviewInv, TaxReviewTypeOK
  <1>1. ASSUME NEW k \in Keys, NEW want \in Decisions \cup {Nothing}, AdminReads(a, k, want)
        PROVE  TaxReviewInv'
    <2> DEFINE new == [key |-> k, want |-> want, loaded |-> class[k]]
    <2>1. /\ desk' = [desk EXCEPT ![a] = new] /\ class' = class /\ bill' = bill
          /\ want = Nothing => class[k] # NoClass
      BY <1>1 DEF AdminReads
    <2>2. new \in DeskRow /\ DeskOK(new, class)
      BY <2>1, <1>type DEF DeskRow, DeskOK, Answers
    <2> HIDE DEF new
    <2>3. /\ desk' \in [Reviewers -> DeskRow]
          /\ \A x \in Reviewers : DeskOK(desk'[x], class')
      BY <2>1, <2>2, <1>type
    <2>4. OneWriter'
      BY <2>1, <1>type DEF OneWriter, HeldBy
    <2> QED
      BY <2>1, <2>3, <2>4, <1>type DEF TaxReviewInv, TaxReviewTypeOK
  <1>2. CASE AdminWrites(a)
    <2> DEFINE d == desk[a]
               k == d.key
               row == IF d.loaded # NoClass THEN Flushed(class[k], d.loaded, Decision(d))
                      ELSE IF class[k] = NoClass THEN Decision(d) ELSE class[k]
    <2>1. /\ d # NoDesk /\ d \in DeskRow /\ DeskOK(d, class) /\ k \in Keys
          /\ \A i \in Invoices : k \notin HeldBy(i)
          /\ desk' = [desk EXCEPT ![a] = NoDesk] /\ bill' = bill
      BY <1>2, <1>type DEF AdminWrites, DeskOK
    <2>2. class' = [class EXCEPT ![k] = row]
      BY <1>2, <1>type DEF AdminWrites
    <2>3. Decision(d) \in StoredRow /\ Decision(d).status \in Decided
      <3>1. d.want = Nothing => d.loaded \in StoredRow
        BY <2>1, StoredIsPresent DEF DeskOK, DeskRow
      <3>2. d.want # Nothing => d.want \in Decisions
        BY <2>1 DEF DeskRow, Answers
      <3> QED
        BY <3>1, <3>2 DEF Decision, StoredRow, Decided
    <2>4. row \in StoredRow /\ (class[k].status \in Decided => row.status \in Decided)
      <3>1. CASE d.loaded # NoClass
        <4>1. d.loaded \in ClassRow /\ class[k] \in StoredRow
          BY <3>1, <2>1, <1>type, StoredIsPresent DEF DeskOK, DeskRow
        <4> QED
          BY <4>1, <3>1, <2>3, FlushedRow
      <3>2. CASE d.loaded = NoClass
        BY <3>2, <2>1, <2>3, <1>type, StoredIsPresent
      <3> QED
        BY <3>1, <3>2
    <2> HIDE DEF row, d
    <2>5. /\ class' \in [Keys -> ClassRow]
          /\ \A x \in Keys : class[x].status \in Decided => class'[x].status \in Decided
          /\ \A x \in Keys : class[x] # NoClass => class'[x] # NoClass
          /\ \A x \in Keys : x # k => class'[x] = class[x]
      BY <2>1, <2>2, <2>4, <1>type, StoredIsPresent DEF ClassRow
    <2>6. ASSUME NEW i \in Invoices PROVE RowOK(bill'[i], class')
      <3>1. \A x \in Keys : bill[i].wrote[x] # NoClass => class'[x] = class[x]
        BY <2>1, <2>5 DEF HeldBy
      <3> QED
        BY <3>1, <2>1, <2>5, <1>type, ClassStep
    <2>7. NoDesk \in DeskRow
      BY DEF NoDesk, DeskRow, ClassRow, Answers
    <2>8. /\ desk' \in [Reviewers -> DeskRow]
          /\ \A x \in Reviewers : desk'[x] = NoDesk \/ desk'[x] = desk[x]
      BY <2>1, <2>7, <1>type
    <2>9. \A x \in Reviewers : DeskOK(desk'[x], class')
      BY <2>5, <2>8, <1>type, ClassStep DEF DeskOK
    <2>10. OneWriter'
      BY <2>1, <1>type DEF OneWriter, HeldBy
    <2> QED
      BY <2>1, <2>5, <2>6, <2>8, <2>9, <2>10, <1>type DEF TaxReviewInv, TaxReviewTypeOK
  <1> QED
    BY <1>1, <1>2

(* Every step of every request keeps the invariant.                        *)
LEMMA TaxReviewStepInv == TaxReviewInv /\ [TaxReviewNext]_taxReviewVars => TaxReviewInv'
  <1> SUFFICES ASSUME TaxReviewInv, [TaxReviewNext]_taxReviewVars PROVE TaxReviewInv'
    OBVIOUS
  <1>1. CASE UNCHANGED taxReviewVars
    BY <1>1 DEF taxReviewVars, TaxReviewInv, TaxReviewTypeOK, OneWriter, HeldBy
  <1>2. CASE TaxReviewNext
    BY <1>2, RequestStep, CommitStep, AdminStep DEF TaxReviewNext
  <1> QED
    BY <1>1, <1>2

-----------------------------------------------------------------------------
(***************************************************************************)
(* Why a charge is what some admin decided.  A row becomes decided, or its *)
(* decision another one, by an admin's write of a decision of his own, or  *)
(* by an UPDATE over a row that changed since it was loaded; and the only  *)
(* rows a request charges from are those it has read decided.              *)
(* R, X: what admins have decided, and the keys whose rows were crossed.   *)
(***************************************************************************)
RowRuled(row, k, R, X) == row.status \in Decided => row.decision \in R[k] \/ k \in X

BillRuled(b, R, X) ==
    \A k \in Keys :
        /\ RowRuled(b.seen[k], k, R, X)
        /\ RowRuled(b.wrote[k], k, R, X)
        /\ b.charged[k] # Nothing => b.charged[k] \in R[k] \/ k \in X

RuledInv ==
    /\ ruled \in [Keys -> SUBSET Decisions]
    /\ \A k \in Keys : RowRuled(class[k], k, ruled, crossed)
    /\ \A i \in Invoices : BillRuled(bill[i], ruled, crossed)

(* What was decided stays known.                                           *)
LEMMA RulesGrow ==
    ASSUME NEW R, NEW X, NEW S, NEW Y,
           \A k \in Keys : R[k] \subseteq S[k], X \subseteq Y
    PROVE  /\ \A row, k : k \in Keys /\ RowRuled(row, k, R, X) => RowRuled(row, k, S, Y)
           /\ \A b : BillRuled(b, R, X) => BillRuled(b, S, Y)
  <1>1. \A row, k : k \in Keys /\ RowRuled(row, k, R, X) => RowRuled(row, k, S, Y)
    BY DEF RowRuled
  <1> QED
    BY <1>1 DEF BillRuled

(* A request that changes its own row only keeps RuledInv, if its new row  *)
(* fits in.                                                                *)
LEMMA RuledBillStep ==
    ASSUME TaxReviewInv, RuledInv, NEW i \in Invoices,
           bill' = [bill EXCEPT ![i] = bill'[i]], BillRuled(bill'[i], ruled', crossed'),
           class' = class, ruled' = ruled, crossed \subseteq crossed'
    PROVE  RuledInv'
  <1>1. \A k \in Keys : ruled[k] \subseteq ruled'[k]
    OBVIOUS
  <1>2. \A k \in Keys : RowRuled(class'[k], k, ruled', crossed')
    <2>1. \A k \in Keys : RowRuled(class[k], k, ruled', crossed')
      BY <1>1, RulesGrow DEF RuledInv
    <2> QED
      BY <2>1
  <1>3. ASSUME NEW j \in Invoices PROVE BillRuled(bill'[j], ruled', crossed')
    <2>1. CASE j = i
      BY <2>1
    <2>2. CASE j # i
      <3>1. bill'[j] = bill[j]
        BY <2>2 DEF TaxReviewInv, TaxReviewTypeOK
      <3>2. BillRuled(bill[j], ruled', crossed')
        BY <1>1, RulesGrow DEF RuledInv
      <3> QED
        BY <3>1, <3>2
    <2> QED
      BY <2>1, <2>2
  <1> QED
    BY <1>2, <1>3 DEF RuledInv

(* The request of invoice i does one of its steps.                         *)
LEMMA RuledRequestStep ==
    ASSUME TaxReviewInv, RuledInv, NEW i \in Invoices,
           \/ CreateInvoice(i) \/ CallClaude(i) \/ UpsertWrites(i) \/ Deadlocked(i)
           \/ ApplyTax(i) \/ ApplyTaxFails(i)
           \/ \E k \in Keys : UpsertReads(i, k)
           \/ \E acknowledge \in BOOLEAN : SendDraft(i, acknowledge)
    PROVE  RuledInv'
  <1>type. /\ bill \in [Invoices -> BillRow] /\ bill[i] \in BillRow
           /\ class \in [Keys -> ClassRow] /\ RowOK(bill[i], class)
    BY DEF TaxReviewInv, TaxReviewTypeOK
  <1>ruled. /\ BillRuled(bill[i], ruled, crossed)
            /\ \A k \in Keys : RowRuled(class[k], k, ruled, crossed)
            /\ \A k \in Keys : RowRuled(NoClass, k, ruled, crossed)
    BY StoredIsPresent DEF RuledInv, RowRuled
  <1>lost. ASSUME bill' = [bill EXCEPT ![i] = Lost] PROVE BillRuled(bill'[i], ruled, crossed)
    <2>1. bill'[i] = Lost
      BY <1>lost, <1>type
    <2>2. \A k \in Keys : /\ Lost.seen[k] = NoClass /\ Lost.wrote[k] = NoClass
                          /\ Lost.charged[k] = Nothing
      BY DEF Lost, NewBill
    <2> HIDE DEF Lost
    <2> QED
      BY <2>1, <2>2, <1>ruled DEF BillRuled
  <1>1. CASE CreateInvoice(i)
    <2>1. PICK lines \in SUBSET Keys \ {{}} :
              bill' = [bill EXCEPT ![i] = [NewBill EXCEPT !.step = "asking", !.lines = lines,
                 !.seen = [k \in Keys |-> IF k \in lines THEN class[k] ELSE NoClass]]]
      BY <1>1 DEF CreateInvoice
    <2>2. \A k \in Keys : /\ bill'[i].seen[k] \in {class[k], NoClass}
                          /\ bill'[i].wrote[k] = NoClass /\ bill'[i].charged[k] = Nothing
      BY <2>1, <1>type DEF NewBill
    <2>3. /\ class' = class /\ ruled' = ruled /\ crossed' = crossed
          /\ bill' = [bill EXCEPT ![i] = bill'[i]]
      BY <2>1, <1>1, <1>type DEF CreateInvoice
    <2>4. BillRuled(bill'[i], ruled, crossed)
      BY <2>2, <1>ruled DEF BillRuled
    <2> QED
      BY <2>3, <2>4, RuledBillStep
  <1>2. CASE CallClaude(i)
    <2>1. PICK todo, answer :
              bill' = [bill EXCEPT ![i].step = "storing", ![i].todo = todo, ![i].answer = answer]
      BY <1>2 DEF CallClaude
    <2>2. /\ bill'[i].seen = bill[i].seen /\ bill'[i].wrote = bill[i].wrote
          /\ bill'[i].charged = bill[i].charged
          /\ bill' = [bill EXCEPT ![i] = bill'[i]]
      BY <2>1, <1>type DEF BillRow
    <2>3. class' = class /\ ruled' = ruled /\ crossed' = crossed
      BY <1>2 DEF CallClaude
    <2>4. BillRuled(bill'[i], ruled, crossed)
      BY <2>2, <1>ruled DEF BillRuled
    <2> QED
      BY <2>2, <2>3, <2>4, RuledBillStep
  <1>3. ASSUME NEW k \in Keys, UpsertReads(i, k) PROVE RuledInv'
    <2>1. /\ bill'[i].seen = [bill[i].seen EXCEPT ![k] = class[k]]
          /\ bill'[i].wrote = bill[i].wrote /\ bill'[i].charged = bill[i].charged
          /\ bill' = [bill EXCEPT ![i] = bill'[i]]
          /\ class' = class /\ ruled' = ruled /\ crossed' = crossed
      BY <1>3, <1>type DEF UpsertReads, BillRow
    <2>2. \A x \in Keys : bill'[i].seen[x] \in {class[x], bill[i].seen[x]}
      BY <2>1, <1>type DEF BillRow
    <2>3. BillRuled(bill'[i], ruled, crossed)
      BY <2>1, <2>2, <1>ruled DEF BillRuled
    <2> QED
      BY <2>1, <2>3, RuledBillStep
  <1>4. CASE UpsertWrites(i)
    <2> DEFINE b == bill[i]
               k == b.key
               row == [status |-> "pending", decision |-> b.answer[k]]
               written == IF b.loaded = NoClass THEN row ELSE Flushed(class[k], b.loaded, row)
    <2>1. /\ k \in Keys /\ class' = class /\ ruled' = ruled
          /\ crossed' = Crossing(k, b.loaded) /\ crossed \subseteq crossed'
      BY <1>4, <1>type DEF UpsertWrites, BillRow, Crossing
    <2>2. \A x \in Keys : ruled[x] \subseteq ruled'[x]
      BY <2>1
    <2>3. CASE b.loaded = NoClass /\ class[k] # NoClass
      <3>1. bill' = [bill EXCEPT ![i] = Lost]
        BY <2>3, <1>4 DEF UpsertWrites
      <3>2. BillRuled(bill'[i], ruled, crossed) /\ bill' = [bill EXCEPT ![i] = bill'[i]]
        BY <3>1, <1>lost, <1>type
      <3>3. BillRuled(bill'[i], ruled', crossed')
        BY <3>2, <2>1, <2>2, RulesGrow
      <3> QED
        BY <3>2, <3>3, <2>1, RuledBillStep
    <2>4. CASE ~(b.loaded = NoClass /\ class[k] # NoClass)
      <3>1. bill' = [bill EXCEPT ![i] = [b EXCEPT !.key = Nothing, !.loaded = NoClass,
                        !.seen[k] = row, !.wrote[k] = written]]
        BY <2>4, <1>4 DEF UpsertWrites
      <3>2. row \in StoredRow /\ row.status = "pending"
        BY <2>1, <1>type, StoredIsPresent DEF RowOK, LoadedStands, StoredRow
      <3>3. RowRuled(written, k, ruled, crossed')
        <4>1. CASE b.loaded = NoClass
          BY <4>1, <3>2 DEF RowRuled, Decided
        <4>2. CASE b.loaded # NoClass /\ b.loaded = class[k]
          <5>1. class[k] \in StoredRow /\ class[k].status = "pending"
            BY <4>2, <2>1, <1>type, StoredIsPresent DEF RowOK, LoadedStands
          <5>2. written.status = "pending"
            BY <5>1, <4>2, <3>2, FlushedRow DEF ClassRow
          <5> QED
            BY <5>2 DEF RowRuled, Decided
        <4>3. CASE b.loaded # NoClass /\ b.loaded # class[k]
          BY <4>3, <2>1 DEF Crossing, RowRuled
        <4> QED
          BY <4>1, <4>2, <4>3
      <3> HIDE DEF row, written
      <3>4. /\ bill' = [bill EXCEPT ![i] = bill'[i]] /\ bill'[i].charged = b.charged
            /\ \A x \in Keys : bill'[i].seen[x] = IF x = k THEN row ELSE b.seen[x]
            /\ \A x \in Keys : bill'[i].wrote[x] = IF x = k THEN written ELSE b.wrote[x]
        BY <3>1, <2>1, <1>type DEF BillRow
      <3>5. RowRuled(row, k, ruled, crossed')
        BY <3>2 DEF RowRuled, Decided
      <3>6. BillRuled(b, ruled, crossed')
        BY <1>ruled, <2>1 DEF BillRuled, RowRuled
      <3>7. BillRuled(bill'[i], ruled, crossed')
        BY <3>3, <3>4, <3>5, <3>6 DEF BillRuled
      <3>8. BillRuled(bill'[i], ruled', crossed')
        BY <3>7, <2>1
      <3> QED
        BY <3>4, <3>8, <2>1, RuledBillStep
    <2> QED
      BY <2>3, <2>4
  <1>5. CASE Deadlocked(i)
    <2>1. /\ bill' = [bill EXCEPT ![i] = Lost] /\ bill' = [bill EXCEPT ![i] = bill'[i]]
          /\ class' = class /\ ruled' = ruled /\ crossed' = crossed
      BY <1>5, <1>type DEF Deadlocked
    <2> QED
      BY <2>1, <1>lost, RuledBillStep
  <1>6. CASE ApplyTax(i)
    <2> DEFINE b == bill[i]
               priced == {k \in b.lines : MayCharge(b.seen[k])}
               charged == [k \in Keys |-> IF k \in priced THEN b.seen[k].decision ELSE Nothing]
    <2>1. /\ bill' = [bill EXCEPT ![i].step = "priced", ![i].charged = charged,
                 ![i].seen = NewBill.seen, ![i].answer = NewBill.answer,
                 ![i].tax = TaxOf(charged), ![i].flagged = NeedsReview(b, priced)]
          /\ class' = class /\ ruled' = ruled /\ crossed' = crossed
      BY <1>6 DEF ApplyTax
    <2>2. \A k \in Keys : charged[k] # Nothing =>
              b.seen[k].status \in Decided /\ charged[k] = b.seen[k].decision
      BY DEF MayCharge
    <2>3. \A k \in Keys : NewBill.seen[k] = NoClass
      BY DEF NewBill
    <2> HIDE DEF charged, priced
    <2>4. /\ bill' = [bill EXCEPT ![i] = bill'[i]] /\ bill'[i].charged = charged
          /\ bill'[i].seen = NewBill.seen /\ bill'[i].wrote = b.wrote
      BY <2>1, <1>type DEF BillRow
    <2>5. BillRuled(bill'[i], ruled, crossed)
      BY <2>2, <2>3, <2>4, <1>ruled DEF BillRuled, RowRuled
    <2> QED
      BY <2>1, <2>4, <2>5, RuledBillStep
  <1>7. CASE ApplyTaxFails(i)
    <2>1. /\ bill' = [bill EXCEPT ![i].step = "priced", ![i].failed = TRUE,
                 ![i].seen = NewBill.seen, ![i].answer = NewBill.answer,
                 ![i].charged = bill[i].charged]
          /\ class' = class /\ ruled' = ruled /\ crossed' = crossed
      BY <1>7 DEF ApplyTaxFails, AfterFailure
    <2>2. \A k \in Keys : NewBill.seen[k] = NoClass
      BY DEF NewBill
    <2>3. /\ bill'[i].seen = NewBill.seen /\ bill'[i].wrote = bill[i].wrote
          /\ bill'[i].charged = bill[i].charged
          /\ bill' = [bill EXCEPT ![i] = bill'[i]]
      BY <2>1, <1>type DEF BillRow
    <2>4. BillRuled(bill'[i], ruled, crossed)
      BY <2>2, <2>3, <1>ruled DEF BillRuled
    <2> QED
      BY <2>1, <2>3, <2>4, RuledBillStep
  <1>8. ASSUME NEW acknowledge \in BOOLEAN, SendDraft(i, acknowledge) PROVE RuledInv'
    <2>1. /\ bill'[i].seen = bill[i].seen /\ bill'[i].wrote = bill[i].wrote
          /\ bill'[i].charged = bill[i].charged
          /\ bill' = [bill EXCEPT ![i] = bill'[i]]
          /\ class' = class /\ ruled' = ruled /\ crossed' = crossed
      BY <1>8, <1>type DEF SendDraft, BillRow
    <2>2. BillRuled(bill'[i], ruled, crossed)
      BY <2>1, <1>ruled DEF BillRuled
    <2> QED
      BY <2>1, <2>2, RuledBillStep
  <1> QED
    BY <1>1, <1>2, <1>3, <1>4, <1>5, <1>6, <1>7, <1>8

(* A commit publishes rows that fit in.                                    *)
LEMMA RuledCommitStep ==
    ASSUME TaxReviewInv, RuledInv, NEW i \in Invoices, CreateCommits(i)
    PROVE  RuledInv'
  <1>1. /\ bill \in [Invoices -> BillRow] /\ ruled' = ruled /\ crossed' = crossed
        /\ class' = [k \in Keys |-> IF k \in HeldBy(i) THEN bill[i].wrote[k] ELSE class[k]]
        /\ bill' = [bill EXCEPT ![i].step = "draft", ![i].wrote = NewBill.wrote]
    BY DEF CreateCommits, TaxReviewInv, TaxReviewTypeOK
  <1>2. \A k \in Keys : class'[k] \in {bill[i].wrote[k], class[k]}
    BY <1>1
  <1>3. \A k \in Keys : RowRuled(class'[k], k, ruled, crossed)
    BY <1>2 DEF RuledInv, BillRuled
  <1>4. \A k \in Keys : NewBill.wrote[k] = NoClass /\ RowRuled(NoClass, k, ruled, crossed)
    BY StoredIsPresent DEF NewBill, RowRuled
  <1>5. ASSUME NEW j \in Invoices PROVE BillRuled(bill'[j], ruled, crossed)
    <2>1. /\ bill'[j].seen = bill[j].seen /\ bill'[j].charged = bill[j].charged
          /\ bill'[j].wrote \in {bill[j].wrote, NewBill.wrote}
      BY <1>1 DEF BillRow
    <2> QED
      BY <2>1, <1>4 DEF RuledInv, BillRuled
  <1> QED
    BY <1>1, <1>3, <1>5 DEF RuledInv

(* An admin's write decides as the admin said, or crosses another one's.   *)
LEMMA RuledAdminStep ==
    ASSUME TaxReviewInv, RuledInv, NEW a \in Reviewers, AdminWrites(a)
    PROVE  RuledInv'
  <1> DEFINE d == desk[a]
             k == d.key
  <1>type. /\ class \in [Keys -> ClassRow] /\ d \in DeskRow /\ DeskOK(d, class)
           /\ d # NoDesk /\ k \in Keys /\ bill' = bill
           /\ ruled \in [Keys -> SUBSET Decisions] /\ class[k] \in ClassRow
    BY DEF AdminWrites, TaxReviewInv, TaxReviewTypeOK, DeskOK, RuledInv
  <1>1. Decision(d) \in StoredRow
    <2>1. d.want = Nothing => d.loaded \in StoredRow
      BY <1>type, StoredIsPresent DEF DeskOK, DeskRow
    <2>2. d.want # Nothing => d.want \in Decisions
      BY <1>type DEF DeskRow, Answers
    <2> QED
      BY <2>1, <2>2 DEF Decision, StoredRow
  <1>2. crossed' = Crossing(k, d.loaded) /\ crossed \subseteq crossed'
    BY DEF AdminWrites, Crossing
  <1>3. CASE d.loaded = NoClass /\ class[k] # NoClass
    <2>1. class' = class /\ ruled' = ruled
      BY <1>3, <1>type DEF AdminWrites
    <2>2. /\ \A x \in Keys : RowRuled(class[x], x, ruled, crossed')
          /\ \A i \in Invoices : BillRuled(bill[i], ruled, crossed')
      BY <1>2 DEF RuledInv, BillRuled, RowRuled
    <2> QED
      BY <2>1, <2>2, <1>type DEF RuledInv
  <1>4. CASE ~(d.loaded = NoClass /\ class[k] # NoClass)
    <2> DEFINE row == IF d.loaded # NoClass THEN Flushed(class[k], d.loaded, Decision(d))
                      ELSE Decision(d)
    <2>1. class' = [class EXCEPT ![k] = row]
      BY <1>4, <1>type DEF AdminWrites
    <2>2. ruled' = [ruled EXCEPT ![k] = @ \cup {Decision(d).decision}]
      BY <1>4 DEF AdminWrites
    <2>3. /\ ruled' \in [Keys -> SUBSET Decisions] /\ Decision(d).decision \in ruled'[k]
          /\ \A x \in Keys : ruled[x] \subseteq ruled'[x]
      BY <2>2, <1>1, <1>type DEF StoredRow
    <2>4. RowRuled(row, k, ruled', crossed')
      <3>1. CASE d.loaded = NoClass
        BY <3>1, <2>3 DEF RowRuled
      <3>2. CASE d.loaded # NoClass /\ d.loaded = class[k]
        <4>1. class[k] \in StoredRow
          BY <3>2, <1>type, StoredIsPresent
        <4>2. row = Flushed(class[k], class[k], Decision(d))
          BY <3>2
        <4>3. row.decision = Decision(d).decision
          BY <4>1, <4>2, <1>1 DEF Flushed, StoredRow
        <4> QED
          BY <4>3, <2>3 DEF RowRuled
      <3>3. CASE d.loaded # NoClass /\ d.loaded # class[k]
        BY <3>3, <1>2 DEF Crossing, RowRuled
      <3> QED
        BY <3>1, <3>2, <3>3
    <2> HIDE DEF row, d
    <2>5. /\ \A x \in Keys : RowRuled(class[x], x, ruled', crossed')
          /\ \A i \in Invoices : BillRuled(bill[i], ruled', crossed')
      BY <1>2, <2>3, RulesGrow DEF RuledInv
    <2>6. \A x \in Keys : class'[x] = IF x = k THEN row ELSE class[x]
      BY <2>1, <1>type
    <2>7. \A x \in Keys : RowRuled(class'[x], x, ruled', crossed')
      BY <2>4, <2>5, <2>6
    <2> QED
      BY <2>3, <2>5, <2>7, <1>type DEF RuledInv
  <1> QED
    BY <1>3, <1>4

(* Every step keeps RuledInv.                                              *)
LEMMA RuledStepInv == TaxReviewInv /\ RuledInv /\ [TaxReviewNext]_taxReviewVars => RuledInv'
  <1> SUFFICES ASSUME TaxReviewInv, RuledInv, [TaxReviewNext]_taxReviewVars PROVE RuledInv'
    OBVIOUS
  <1>1. CASE UNCHANGED taxReviewVars
    BY <1>1 DEF taxReviewVars, RuledInv
  <1>2. ASSUME NEW a \in Reviewers, NEW k \in Keys, NEW want \in Decisions \cup {Nothing},
               AdminReads(a, k, want)
        PROVE  RuledInv'
    BY <1>2 DEF AdminReads, RuledInv
  <1>3. CASE TaxReviewNext
    BY <1>2, <1>3, RuledRequestStep, RuledCommitStep, RuledAdminStep DEF TaxReviewNext
  <1> QED
    BY <1>1, <1>3

(* However requests, admins and Claude interleave: what is charged is what *)
(* some admin decided of that kind of item, unless an UPDATE crossed       *)
(* another writer's; what is not priced flags the invoice; and a flagged   *)
(* invoice leaves only when an admin says so                               *)
(* (domain/invoices/tax/apply.py, classification_store.py).                *)
THEOREM UnreviewedTaxIsAlwaysHeld == TaxReviewSpec => []UnreviewedTaxIsHeld
  <1>1. TaxReviewInv /\ RuledInv => UnreviewedTaxIsHeld
    <2> SUFFICES ASSUME TaxReviewInv, RuledInv, NEW i \in Invoices, Committed(i)
                 PROVE  /\ bill[i].failed \/ bill[i].flagged
                             \/ \A k \in bill[i].lines : bill[i].charged[k] # Nothing
                        /\ \A k \in Keys : bill[i].charged[k] # Nothing =>
                               /\ bill[i].charged[k] \in ruled[k] \/ k \in crossed
                               /\ class[k].status \in Decided
                        /\ bill[i].step = "sent" /\ bill[i].flagged => bill[i].acked
      BY DEF UnreviewedTaxIsHeld
    <2>1. RowOK(bill[i], class) /\ BillRuled(bill[i], ruled, crossed)
      BY DEF TaxReviewInv, RuledInv
    <2> QED
      BY <2>1 DEF Committed, RowOK, ChargesStand, BillStands, BillRuled
  <1>2. TaxReviewInit => RuledInv
    <2> SUFFICES ASSUME TaxReviewInit PROVE RuledInv
      OBVIOUS
    <2>1. \A k \in Keys : class[k] = NoClass /\ RowRuled(NoClass, k, ruled, crossed)
      BY StoredIsPresent DEF TaxReviewInit, RowRuled
    <2>2. \A i \in Invoices, k \in Keys :
              /\ bill[i].seen[k] = NoClass /\ bill[i].wrote[k] = NoClass
              /\ bill[i].charged[k] = Nothing
      BY DEF TaxReviewInit, NewBill
    <2>3. ruled \in [Keys -> SUBSET Decisions]
      BY DEF TaxReviewInit
    <2> QED
      BY <2>1, <2>2, <2>3 DEF RuledInv, BillRuled
  <1> QED
    BY <1>1, <1>2, TaxReviewInitInv, TaxReviewStepInv, RuledStepInv, PTL DEF TaxReviewSpec

(* The tax of an invoice is the sum of its charges, also when writing them *)
(* failed half way and the request went on (apply.py, its savepoint).      *)
THEOREM TaxIsAlwaysSumOfCharges == TaxReviewSpec => []TaxIsSumOfCharges
  <1>1. TaxReviewInv => TaxIsSumOfCharges
    BY DEF TaxReviewInv, TaxIsSumOfCharges, RowOK, BillStands
  <1> QED
    BY <1>1, TaxReviewInitInv, TaxReviewStepInv, PTL DEF TaxReviewSpec

-----------------------------------------------------------------------------
(***************************************************************************)
(* Why no invoice finds a day without a rate.  Transactions overlap, read  *)
(* without locks and close rows of instants later than their own; still,   *)
(* whoever closes rows of a topic brings a rate in force from the instant  *)
(* at which it closes them, and closes rows of the topics it brings only.  *)
(***************************************************************************)
RuleRow == [topic: Topics, rate: Rates, from: Nat, to: Nat]
Wanted == [topic: Topics, rate: Rates]
Found == [topic: Topics, rate: Rates, current: SUBSET RuleRow]

AddingRow == [wanted: SUBSET Wanted, read: SUBSET Found, now: Nat]

TaxRatesTypeOK ==
    /\ rules \subseteq RuleRow
    /\ adding \in [Requests -> AddingRow]
    /\ clock \in Nat

\* A transaction has its instant, and has read rows of its topics only.
KnowsItsTopics(q) ==
    /\ adding[q] = Idle \/ adding[q].now > 0
    /\ \A f \in adding[q].read : \A c \in f.current : c.topic = f.topic

\* RatesHaveNoGap, of all the time to come as well.
Covered(r, at) == \E s \in InEffect(at) : s.topic = r.topic

NoGap == \A r \in rules : \A at \in Nat : r.from <= at => Covered(r, at)

TaxRatesInv ==
    /\ TaxRatesTypeOK
    /\ \A q \in Requests : KnowsItsTopics(q)
    /\ NoGap

-----------------------------------------------------------------------------
(* A row is in effect from its instant until the one that closes it.       *)
LEMMA InEffectRow ==
    ASSUME NEW s \in RuleRow, NEW at \in Nat
    PROVE  s \in InEffect(at) <=> s \in rules /\ s.from <= at /\ (s.to = 0 \/ at < s.to)
  BY DEF InEffect

(* A file of rates has rates of known topics.                              *)
LEMMA FilesAreWanted == \A wanted \in RateFiles : wanted \subseteq Wanted
  BY TaxRatesConstants DEF RateFiles, Wanted

(* There is neither a rate nor a transaction at the start.                 *)
LEMMA TaxRatesInitInv == TaxRatesInit => TaxRatesInv
  BY DEF TaxRatesInit, TaxRatesInv, TaxRatesTypeOK, KnowsItsTopics, NoGap, Idle, AddingRow

(* The commit of a transaction leaves every instant covered.               *)
LEMMA WritesCovered ==
    ASSUME TaxRatesInv, NEW q \in Requests, Writes(q)
    PROVE  rules' \subseteq RuleRow /\ NoGap'
  <1> DEFINE a == adding[q]
             n == a.now
             closed == {r \in rules : \E f \in a.read : \E c \in f.current :
                                         c.topic = r.topic /\ c.from = r.from}
             shut == {[r EXCEPT !.to = n] : r \in closed}
             new == {[topic |-> f.topic, rate |-> f.rate, from |-> n, to |-> 0] : f \in a.read}
  <1>1. rules' = (rules \ closed) \cup shut \cup new
    BY DEF Writes, EffectiveFrom
  <1>2. /\ n \in Nat /\ n > 0
        /\ a.read \subseteq Found
        /\ \A f \in a.read : \A c \in f.current : c.topic = f.topic
    BY DEF Writes, TaxRatesInv, TaxRatesTypeOK, AddingRow, KnowsItsTopics
  <1>3. rules \subseteq RuleRow
    BY DEF TaxRatesInv, TaxRatesTypeOK
  <1>4. ASSUME NEW r \in closed
        PROVE  /\ [r EXCEPT !.to = n] \in RuleRow
               /\ [r EXCEPT !.to = n].topic = r.topic
               /\ [r EXCEPT !.to = n].from = r.from
               /\ [r EXCEPT !.to = n].to = n
               /\ \E f \in a.read : f.topic = r.topic
    BY <1>2, <1>3 DEF RuleRow
  <1>5. ASSUME NEW r \in new
        PROVE  r \in RuleRow /\ r.from = n /\ r.to = 0 /\ \E f \in a.read : f.topic = r.topic
    BY <1>2 DEF RuleRow, Found
  <1>6. rules' \subseteq RuleRow
    BY <1>1, <1>3, <1>4, <1>5
  \* Before its instant, the transaction takes nothing out of effect.
  <1>7. ASSUME NEW s \in rules, NEW at \in Nat, s \in InEffect(at), at < n
        PROVE  \E t \in rules' : t.topic = s.topic /\ t.from <= at /\ (t.to = 0 \/ at < t.to)
    <2>1. s \in RuleRow /\ s.from <= at /\ (s.to = 0 \/ at < s.to)
      BY <1>3, <1>7 DEF InEffect
    <2>2. CASE s \in closed
      <3> DEFINE t == [s EXCEPT !.to = n]
      <3>1. t \in rules'
        BY <2>2, <1>1
      <3>2. t.topic = s.topic /\ t.from = s.from /\ t.to = n
        BY <2>2, <1>4
      <3> HIDE DEF t
      <3> QED
        BY <3>1, <3>2, <2>1, <1>7
    <2>3. CASE s \notin closed
      BY <2>1, <2>3, <1>1
    <2> QED
      BY <2>2, <2>3
  \* Of a topic it brings no rate for, it takes nothing out of effect at all.
  <1>8. ASSUME NEW s \in rules, ~ \E f \in a.read : f.topic = s.topic
        PROVE  s \in rules'
    BY <1>8, <1>1, <1>4
  <1>9. ASSUME NEW r \in rules', NEW at \in Nat, r.from <= at
        PROVE  \E t \in rules' : t.topic = r.topic /\ t.from <= at /\ (t.to = 0 \/ at < t.to)
    <2>1. CASE (\E f \in a.read : f.topic = r.topic) /\ n <= at
      <3>1. PICK f \in a.read : f.topic = r.topic
        BY <2>1
      <3> DEFINE t == [topic |-> f.topic, rate |-> f.rate, from |-> n, to |-> 0]
      <3>2. t \in rules' /\ t.topic = r.topic /\ t.from = n /\ t.to = 0
        BY <3>1, <1>1
      <3> HIDE DEF t
      <3> QED
        BY <3>2, <2>1
    <2>2. CASE ~((\E f \in a.read : f.topic = r.topic) /\ n <= at)
      <3>1. PICK r0 \in rules : r0.topic = r.topic /\ r0.from = r.from
        <4>1. r \notin new
          BY <2>2, <1>5, <1>9
        <4>2. CASE r \in rules
          BY <4>2
        <4>3. CASE r \in shut
          BY <4>3, <1>4
        <4> QED
          BY <4>1, <4>2, <4>3, <1>1
      <3>2. PICK s \in InEffect(at) : s.topic = r.topic
        BY <3>1, <1>9 DEF TaxRatesInv, NoGap, Covered
      <3>3. s \in rules /\ s.from <= at /\ (s.to = 0 \/ at < s.to)
        BY DEF InEffect
      <3>4. CASE \E f \in a.read : f.topic = r.topic
        <4>1. at < n
          BY <3>4, <2>2, <1>2
        <4> QED
          BY <4>1, <3>2, <3>3, <1>7
      <3>5. CASE ~ \E f \in a.read : f.topic = r.topic
        BY <3>5, <3>2, <3>3, <1>8
      <3> QED
        BY <3>4, <3>5
    <2> QED
      BY <2>1, <2>2
  <1>10. NoGap'
    BY <1>9 DEF NoGap, Covered, InEffect
  <1> QED
    BY <1>6, <1>10

(* Every step keeps the invariant.                                         *)
LEMMA TaxRatesStepInv == TaxRatesInv /\ [TaxRatesNext]_taxRatesVars => TaxRatesInv'
  <1> SUFFICES ASSUME TaxRatesInv, [TaxRatesNext]_taxRatesVars PROVE TaxRatesInv'
    OBVIOUS
  <1>type. /\ TaxRatesTypeOK /\ NoGap
           /\ \A q \in Requests : adding[q] \in AddingRow /\ KnowsItsTopics(q)
    BY DEF TaxRatesInv, TaxRatesTypeOK
  \* What one transaction does to its own row.
  <1>own. ASSUME NEW q \in Requests, NEW row \in AddingRow,
                 adding' = [adding EXCEPT ![q] = row], clock' \in Nat,
                 row = Idle \/ row.now > 0,
                 \A f \in row.read : \A c \in f.current : c.topic = f.topic
          PROVE  adding' \in [Requests -> AddingRow] /\ \A p \in Requests : KnowsItsTopics(p)'
    BY <1>own, <1>type DEF TaxRatesTypeOK, KnowsItsTopics
  <1>same. ASSUME rules' = rules PROVE rules' \subseteq RuleRow /\ NoGap'
    BY <1>same, <1>type DEF TaxRatesTypeOK, NoGap, Covered, InEffect
  <1>1. CASE UNCHANGED taxRatesVars
    BY <1>1, <1>type DEF taxRatesVars, TaxRatesInv, TaxRatesTypeOK, KnowsItsTopics, NoGap, Covered,
                         InEffect
  <1>2. ASSUME NEW q \in Requests, NEW wanted \in RateFiles, NEW government \in BOOLEAN,
               Begin(q, wanted, government)
        PROVE  TaxRatesInv'
    <2> DEFINE row == [wanted |-> wanted, read |-> {}, now |-> clock + 1]
    <2>1. row \in AddingRow /\ row.now > 0 /\ row.read = {} /\ clock + 1 \in Nat
      BY <1>type, FilesAreWanted DEF AddingRow, TaxRatesTypeOK
    <2>2. adding' = [adding EXCEPT ![q] = row] /\ clock' = clock + 1 /\ rules' = rules
      BY <1>2 DEF Begin
    <2> HIDE DEF row
    <2>3. adding' \in [Requests -> AddingRow] /\ \A p \in Requests : KnowsItsTopics(p)'
      BY <2>1, <2>2, <1>own
    <2> QED
      BY <2>1, <2>2, <2>3, <1>same DEF TaxRatesInv, TaxRatesTypeOK
  <1>3. ASSUME NEW q \in Requests, NEW w \in adding[q].wanted, LooksUp(q, w)
        PROVE  TaxRatesInv'
    <2> DEFINE current == Current(w.topic)
               found == IF \E c \in current : c.rate = w.rate THEN {}
                        ELSE {[topic |-> w.topic, rate |-> w.rate, current |-> current]}
               row == [adding[q] EXCEPT !.wanted = adding[q].wanted \ {w},
                                        !.read = adding[q].read \cup found]
    <2>1. w \in Wanted /\ current \subseteq rules /\ \A c \in current : c.topic = w.topic
      BY <1>type DEF AddingRow, Current
    <2>2. found \subseteq Found /\ \A f \in found : \A c \in f.current : c.topic = f.topic
      BY <2>1, <1>type DEF Found, Wanted, TaxRatesTypeOK
    <2>3. adding[q] # Idle
      BY DEF Idle
    <2> HIDE DEF found
    <2>4. /\ row \in AddingRow /\ row.now = adding[q].now
          /\ row.read = adding[q].read \cup found
      BY <2>2, <1>type DEF AddingRow
    <2>5. adding' = [adding EXCEPT ![q] = row]
      BY <1>3 DEF LooksUp, found
    <2>6. rules' = rules /\ clock' = clock
      BY <1>3 DEF LooksUp
    <2> HIDE DEF row
    <2>7. adding' \in [Requests -> AddingRow] /\ \A p \in Requests : KnowsItsTopics(p)'
      <3>1. row.now > 0 /\ \A f \in row.read : \A c \in f.current : c.topic = f.topic
        BY <2>2, <2>3, <2>4, <1>type DEF KnowsItsTopics
      <3> QED
        BY <3>1, <2>4, <2>5, <2>6, <1>type, <1>own DEF TaxRatesTypeOK
    <2> QED
      BY <2>6, <2>7, <1>same, <1>type DEF TaxRatesInv, TaxRatesTypeOK
  <1>4. ASSUME NEW q \in Requests, Writes(q) PROVE TaxRatesInv'
    <2>1. Idle \in AddingRow /\ Idle.read = {}
      BY DEF Idle, AddingRow
    <2>2. adding' = [adding EXCEPT ![q] = Idle] /\ clock' = clock
      BY <1>4 DEF Writes
    <2>3. adding' \in [Requests -> AddingRow] /\ \A p \in Requests : KnowsItsTopics(p)'
      BY <2>1, <2>2, <1>type, <1>own DEF TaxRatesTypeOK
    <2> QED
      BY <2>2, <2>3, <1>4, <1>type, WritesCovered DEF TaxRatesInv, TaxRatesTypeOK
  <1> QED
    BY <1>1, <1>2, <1>3, <1>4 DEF TaxRatesNext

(* Whoever changes a rate beside whom, and whatever the loader brings: a   *)
(* topic that has had a rate has one at every later instant                *)
(* (scripts/fetch_tax_rules.py, _upsert_one_rule).                         *)
THEOREM RatesNeverHaveAGap == TaxRatesSpec => []RatesHaveNoGap
  <1>1. TaxRatesInv => RatesHaveNoGap
    BY DEF TaxRatesInv, TaxRatesTypeOK, RuleRow, NoGap, Covered, RatesHaveNoGap
  <1> QED
    BY <1>1, TaxRatesInitInv, TaxRatesStepInv, PTL DEF TaxRatesSpec

-----------------------------------------------------------------------------
(***************************************************************************)
(* Why a line is priced at the rate that lookup_rate would find.  The two  *)
(* rank rows differently, by the instant alone or by a query's ORDER BY,   *)
(* and agree because a topic has one rate per instant: every transaction   *)
(* has an instant of its own and brings one rate of a topic.               *)
(***************************************************************************)
OneRateAtATime ==
    \A r, s \in rules : r.topic = s.topic /\ r.from = s.from => r.rate = s.rate

\* A transaction brings one rate of a topic, looked up already or not.
OneRateOfATopic(q) ==
    /\ \A v, w \in adding[q].wanted : v.topic = w.topic => v.rate = w.rate
    /\ \A f, g \in adding[q].read : f.topic = g.topic => f.rate = g.rate
    /\ \A w \in adding[q].wanted, f \in adding[q].read : w.topic # f.topic

\* Its instant has come, and no row has it yet.
HasItsInstant(q) ==
    adding[q] # Idle => /\ adding[q].now <= clock
                        /\ \A r \in rules : r.from # adding[q].now
                        /\ \A p \in Requests \ {q} : adding[p].now # adding[q].now

RatesInv ==
    /\ TaxRatesInv
    /\ OneRateAtATime
    /\ \A r \in rules : r.from <= clock
    /\ \A q \in Requests : OneRateOfATopic(q) /\ HasItsInstant(q)

-----------------------------------------------------------------------------
(* A file of rates, or the form, brings one rate of a topic.               *)
LEMMA FilesHaveOneRate ==
    \A wanted \in RateFiles : \A v, w \in wanted : v.topic = w.topic => v.rate = w.rate
  BY DEF RateFiles

(* There is nothing to tell apart at the start.                            *)
LEMMA RatesInitInv == TaxRatesInit => RatesInv
  BY TaxRatesInitInv
     DEF TaxRatesInit, RatesInv, OneRateAtATime, OneRateOfATopic, HasItsInstant, Idle

(* A request changes its own row only, keeps its instant and its one rate  *)
(* of a topic, and no row is written.                                      *)
LEMMA LocalRateStep ==
    ASSUME RatesInv, NEW q \in Requests, NEW a \in AddingRow,
           adding' = [adding EXCEPT ![q] = a], rules' = rules,
           clock' \in Nat, clock <= clock', a.now <= clock',
           \A r \in rules : r.from # a.now,
           \A p \in Requests \ {q} : adding[p].now # a.now,
           \A v, w \in a.wanted : v.topic = w.topic => v.rate = w.rate,
           \A f, g \in a.read : f.topic = g.topic => f.rate = g.rate,
           \A w \in a.wanted, f \in a.read : w.topic # f.topic
    PROVE  /\ OneRateAtATime'
           /\ \A r \in rules' : r.from <= clock'
           /\ \A p \in Requests : OneRateOfATopic(p)' /\ HasItsInstant(p)'
  <1>1. /\ \A p \in Requests : adding'[p] = IF p = q THEN a ELSE adding[p]
        /\ \A p \in Requests : adding[p].now \in Nat
        /\ \A r \in rules : r.from \in Nat
        /\ clock \in Nat
    BY DEF RatesInv, TaxRatesInv, TaxRatesTypeOK, AddingRow, RuleRow
  <1>2. OneRateAtATime' /\ \A r \in rules' : r.from <= clock'
    BY <1>1 DEF RatesInv, OneRateAtATime
  <1>3. ASSUME NEW p \in Requests PROVE OneRateOfATopic(p)' /\ HasItsInstant(p)'
    <2>1. OneRateOfATopic(p)'
      BY <1>1 DEF RatesInv, OneRateOfATopic
    <2>2. HasItsInstant(p)'
      BY <1>1 DEF RatesInv, HasItsInstant, AddingRow
    <2> QED
      BY <2>1, <2>2
  <1> QED
    BY <1>2, <1>3

(* A commit writes one rate of a topic from its instant on, which no row   *)
(* has had; a row that it closes keeps its rate and its instant.           *)
LEMMA WritesOneRate ==
    ASSUME RatesInv, NEW q \in Requests, Writes(q)
    PROVE  /\ OneRateAtATime'
           /\ \A r \in rules' : r.from <= clock'
           /\ \A p \in Requests : OneRateOfATopic(p)' /\ HasItsInstant(p)'
  <1> DEFINE a == adding[q]
             closed == {r \in rules : \E f \in a.read : \E c \in f.current :
                                         c.topic = r.topic /\ c.from = r.from}
             shut == {[r EXCEPT !.to = a.now] : r \in closed}
             new == {[topic |-> f.topic, rate |-> f.rate,
                      from |-> a.now, to |-> 0] : f \in a.read}
  <1>1. /\ rules' = (rules \ closed) \cup shut \cup new
        /\ adding' = [adding EXCEPT ![q] = Idle] /\ clock' = clock /\ a # Idle
    BY DEF Writes, EffectiveFrom
  <1>type. /\ rules \subseteq RuleRow /\ clock \in Nat
           /\ \A p \in Requests : adding[p] \in AddingRow
           /\ adding \in [Requests -> AddingRow]
    BY DEF RatesInv, TaxRatesInv, TaxRatesTypeOK
  <1>2. /\ a.now \in Nat /\ a.now <= clock /\ \A r \in rules : r.from # a.now
        /\ \A f, g \in a.read : f.topic = g.topic => f.rate = g.rate
        /\ \A p \in Requests \ {q} : adding[p].now # a.now
    BY <1>1, <1>type DEF RatesInv, HasItsInstant, OneRateOfATopic, AddingRow
  \* Where the rows come from.
  <1>3. ASSUME NEW r \in rules'
        PROVE  \/ \E s \in rules : r.topic = s.topic /\ r.rate = s.rate /\ r.from = s.from
               \/ \E f \in a.read : r.topic = f.topic /\ r.rate = f.rate /\ r.from = a.now
    <2>1. CASE r \in rules
      BY <2>1
    <2>2. CASE r \in shut
      <3>1. PICK s \in closed : r = [s EXCEPT !.to = a.now]
        BY <2>2
      <3>2. s \in RuleRow /\ s \in rules
        BY <1>type
      <3>3. r.topic = s.topic /\ r.rate = s.rate /\ r.from = s.from
        BY <3>1, <3>2 DEF RuleRow
      <3> QED
        BY <3>2, <3>3
    <2>3. CASE r \in new
      BY <2>3
    <2> QED
      BY <2>1, <2>2, <2>3, <1>1
  <1> HIDE DEF closed, shut, new
  <1>4. OneRateAtATime'
    <2> SUFFICES ASSUME NEW r \in rules', NEW s \in rules', r.topic = s.topic, r.from = s.from
                 PROVE  r.rate = s.rate
      BY DEF OneRateAtATime
    <2>1. CASE r.from = a.now
      <3>0. \A t \in rules' : t.from = a.now =>
                \E f \in a.read : t.topic = f.topic /\ t.rate = f.rate
        BY <1>2, <1>3
      <3>1. PICK f \in a.read : r.topic = f.topic /\ r.rate = f.rate
        BY <3>0, <2>1
      <3>2. PICK g \in a.read : s.topic = g.topic /\ s.rate = g.rate
        BY <3>0, <2>1
      <3> QED
        BY <3>1, <3>2, <1>2
    <2>2. CASE r.from # a.now
      <3>1. PICK t \in rules : r.topic = t.topic /\ r.rate = t.rate /\ r.from = t.from
        BY <2>2, <1>3
      <3>2. PICK u \in rules : s.topic = u.topic /\ s.rate = u.rate /\ s.from = u.from
        BY <2>2, <1>3
      <3> QED
        BY <3>1, <3>2 DEF RatesInv, OneRateAtATime
    <2> QED
      BY <2>1, <2>2
  <1>5. \A r \in rules' : /\ r.from <= clock'
                          /\ r.from = a.now \/ \E s \in rules : r.from = s.from
    BY <1>1, <1>2, <1>3 DEF RatesInv
  <1>6. ASSUME NEW p \in Requests PROVE OneRateOfATopic(p)' /\ HasItsInstant(p)'
    <2>1. \A x \in Requests : adding'[x] = IF x = q THEN Idle ELSE adding[x]
      BY <1>1, <1>type
    <2>2. CASE p = q
      BY <2>1, <2>2 DEF OneRateOfATopic, HasItsInstant, Idle
    <2>3. CASE p # q
      <3>1. OneRateOfATopic(p)'
        BY <2>1, <2>3 DEF RatesInv, OneRateOfATopic
      <3>2. ASSUME adding[p] # Idle
            PROVE  /\ adding[p].now <= clock'
                   /\ \A r \in rules' : r.from # adding[p].now
                   /\ \A x \in Requests \ {p} : adding'[x].now # adding[p].now
        <4>1. /\ adding[p].now <= clock /\ \A r \in rules : r.from # adding[p].now
              /\ \A x \in Requests \ {p} : adding[x].now # adding[p].now
          BY <3>2 DEF RatesInv, HasItsInstant
        <4>2. adding[p].now > 0 /\ Idle.now = 0
          BY <3>2, <1>type DEF RatesInv, TaxRatesInv, KnowsItsTopics, Idle
        <4>3. \A r \in rules' : r.from # adding[p].now
          BY <4>1, <2>3, <1>2, <1>5
        <4>4. \A x \in Requests \ {p} : adding'[x].now # adding[p].now
          BY <4>1, <4>2, <2>1
        <4> QED
          BY <4>1, <4>3, <4>4, <1>1
      <3> QED
        BY <3>1, <3>2, <2>1, <2>3 DEF HasItsInstant
    <2> QED
      BY <2>2, <2>3
  <1> QED
    BY <1>4, <1>5, <1>6

(* Every step keeps the invariant.                                         *)
LEMMA RatesStepInv == RatesInv /\ [TaxRatesNext]_taxRatesVars => RatesInv'
  <1> SUFFICES ASSUME RatesInv, [TaxRatesNext]_taxRatesVars PROVE RatesInv'
    OBVIOUS
  <1>0. TaxRatesInv'
    BY TaxRatesStepInv DEF RatesInv
  <1>type. /\ rules \subseteq RuleRow /\ clock \in Nat /\ adding \in [Requests -> AddingRow]
           /\ \A p \in Requests : adding[p] \in AddingRow /\ KnowsItsTopics(p)
           /\ \A p \in Requests : OneRateOfATopic(p) /\ HasItsInstant(p)
           /\ \A r \in rules : r.from <= clock
    BY DEF RatesInv, TaxRatesInv, TaxRatesTypeOK
  <1>1. CASE UNCHANGED taxRatesVars
    BY <1>0, <1>1 DEF taxRatesVars, RatesInv, OneRateAtATime, OneRateOfATopic, HasItsInstant
  <1>2. ASSUME NEW q \in Requests, NEW wanted \in RateFiles, NEW government \in BOOLEAN,
               Begin(q, wanted, government)
        PROVE  RatesInv'
    <2> DEFINE a == [wanted |-> wanted, read |-> {}, now |-> clock + 1]
    <2>1. /\ a \in AddingRow /\ a.now = clock + 1 /\ a.wanted = wanted /\ a.read = {}
          /\ clock + 1 \in Nat /\ clock <= clock + 1
      BY <1>type, FilesAreWanted DEF AddingRow
    <2>2. adding' = [adding EXCEPT ![q] = a] /\ clock' = clock + 1 /\ rules' = rules
      BY <1>2 DEF Begin
    <2> HIDE DEF a
    <2>3. \A r \in rules : r.from # a.now
      BY <2>1, <1>type DEF RuleRow
    <2>4. ASSUME NEW p \in Requests PROVE adding[p].now # a.now
      <3>1. adding[p].now \in Nat /\ adding[p].now <= clock
        BY <1>type DEF HasItsInstant, Idle, AddingRow
      <3> QED
        BY <3>1, <2>1, <1>type
    <2>5. \A v, w \in a.wanted : v.topic = w.topic => v.rate = w.rate
      BY <2>1, FilesHaveOneRate
    <2>6. /\ \A f, g \in a.read : f.topic = g.topic => f.rate = g.rate
          /\ \A w \in a.wanted, f \in a.read : w.topic # f.topic
          /\ clock' \in Nat /\ clock <= clock' /\ a.now <= clock'
      BY <2>1, <2>2
    <2> QED
      BY <1>0, <2>1, <2>2, <2>3, <2>4, <2>5, <2>6, LocalRateStep DEF RatesInv
  <1>3. ASSUME NEW q \in Requests, NEW w \in adding[q].wanted, LooksUp(q, w)
        PROVE  RatesInv'
    <2> DEFINE current == Current(w.topic)
               found == IF \E c \in current : c.rate = w.rate THEN {}
                        ELSE {[topic |-> w.topic, rate |-> w.rate, current |-> current]}
               a == [adding[q] EXCEPT !.wanted = adding[q].wanted \ {w},
                                      !.read = adding[q].read \cup found]
    <2>1. w \in Wanted /\ current \subseteq RuleRow /\ adding[q] # Idle
      BY <1>type DEF AddingRow, Current, Idle
    <2>2. /\ found \subseteq Found
          /\ \A f \in found : f.topic = w.topic /\ f.rate = w.rate
      BY <2>1 DEF Found, Wanted
    <2> HIDE DEF found
    <2>3. /\ a \in AddingRow /\ a.now = adding[q].now
          /\ a.wanted = adding[q].wanted \ {w} /\ a.read = adding[q].read \cup found
      BY <2>2, <1>type DEF AddingRow
    <2>4. /\ adding' = [adding EXCEPT ![q] = a] /\ rules' = rules /\ clock' = clock
      BY <1>3 DEF LooksUp, found
    <2> HIDE DEF a
    <2>5. /\ \A v, x \in adding[q].wanted : v.topic = x.topic => v.rate = x.rate
          /\ \A f, g \in adding[q].read : f.topic = g.topic => f.rate = g.rate
          /\ \A v \in adding[q].wanted, f \in adding[q].read : v.topic # f.topic
      BY <1>type DEF OneRateOfATopic
    <2>6. \A v, x \in a.wanted : v.topic = x.topic => v.rate = x.rate
      BY <2>3, <2>5
    <2>7. \A f, g \in a.read : f.topic = g.topic => f.rate = g.rate
      BY <2>2, <2>3, <2>5
    \* What is wanted still is of another topic: it has another rate or is another one.
    <2>8. \A v \in a.wanted, f \in a.read : v.topic # f.topic
      <3>1. ASSUME NEW v \in a.wanted PROVE v.topic # w.topic
        <4>1. v \in Wanted /\ v \in adding[q].wanted /\ v # w
          BY <2>3, <1>type DEF AddingRow
        <4>2. v.topic = w.topic => v.rate = w.rate
          BY <4>1, <2>5
        <4> QED
          BY <4>1, <4>2, <2>1 DEF Wanted
      <3> QED
        BY <3>1, <2>2, <2>3, <2>5
    <2>9. /\ clock' \in Nat /\ clock <= clock' /\ a.now <= clock'
          /\ \A r \in rules : r.from # a.now
          /\ \A p \in Requests \ {q} : adding[p].now # a.now
      BY <2>1, <2>3, <2>4, <1>type DEF HasItsInstant
    <2> QED
      BY <1>0, <2>3, <2>4, <2>6, <2>7, <2>8, <2>9, LocalRateStep DEF RatesInv
  <1>4. ASSUME NEW q \in Requests, Writes(q) PROVE RatesInv'
    BY <1>0, <1>4, WritesOneRate DEF RatesInv
  <1> QED
    BY <1>1, <1>2, <1>3, <1>4 DEF TaxRatesNext

-----------------------------------------------------------------------------
\* The rows among which a line's rate of a type is looked for: those of its
\* item, or else those of the catch-all.
RowsOf(topic, at) == {r \in InEffect(at) : r.topic = topic}

Candidates(j, type, item, at) ==
    IF RowsOf(<<j, type, item>>, at) # {} THEN RowsOf(<<j, type, item>>, at)
                                         ELSE RowsOf(<<j, type, CatchAll>>, at)

(* Rows in effect have a newest one, for they are not newer than the       *)
(* instant; of one topic, all the newest ones have the same rate.          *)
LEMMA NewestRow ==
    ASSUME RatesInv, NEW at \in Nat, NEW T \in SUBSET InEffect(at), T # {},
           \A r, s \in T : r.topic = s.topic
    PROVE  /\ Newest(T) \in T
           /\ \A r \in T : (\A s \in T : s.from <= r.from) => r.rate = Newest(T).rate
           /\ \A s \in T : s.from <= Newest(T).from
  <1>1. /\ T \subseteq rules
        /\ \A r \in T : r.from \in Nat /\ r.from <= at
    BY DEF InEffect, RatesInv, TaxRatesInv, TaxRatesTypeOK, RuleRow
  <1> DEFINE Bad == {r.from..at : r \in T}
  <1>2. Bad \in SUBSET SUBSET (0..at) /\ Bad # {} /\ IsFiniteSet(0..at)
    <2>1. \A r \in T : r.from..at \subseteq 0..at
      BY <1>1
    <2>2. IsFiniteSet(0..at)
      BY FS_Interval
    <2> QED
      BY <2>1, <2>2
  <1>3. PICK B \in Bad : \A U \in Bad : U \subseteq B => U = B
    <2> DEFINE S == 0..at
    <2>1. Bad \in SUBSET SUBSET S /\ Bad # {} /\ IsFiniteSet(S)
      BY <1>2
    <2> HIDE DEF Bad, S
    <2> QED
      BY <2>1, FiniteMinimum
  <1>4. PICK top \in T : B = top.from..at
    BY <1>3
  <1>5. ASSUME NEW s \in T PROVE s.from <= top.from
    <2>1. ASSUME top.from < s.from PROVE FALSE
      <3>1. s.from..at \subseteq B
        BY <2>1, <1>1, <1>4
      <3>2. s.from..at = B
        BY <3>1, <1>3
      <3>3. top.from \in B
        BY <1>1, <1>4
      <3> QED
        BY <3>2, <3>3, <2>1, <1>1
    <2> QED
      BY <2>1, <1>1
  <1>6. Newest(T) \in T /\ \A s \in T : s.from <= Newest(T).from
    BY <1>5 DEF Newest
  <1>7. ASSUME NEW r \in T, \A s \in T : s.from <= r.from PROVE r.rate = Newest(T).rate
    <2>1. r.from = Newest(T).from /\ r.topic = Newest(T).topic
      BY <1>1, <1>6, <1>7
    <2> QED
      BY <2>1, <1>1, <1>6 DEF RatesInv, OneRateAtATime
  <1> QED
    BY <1>6, <1>7

(* lookup_rate finds the rate of the newest candidate, if there is one.    *)
LEMMA LookupFindsNewest ==
    ASSUME RatesInv, NEW at \in Nat, NEW j, NEW type, NEW item
    PROVE  LET C == Candidates(j, type, item, at)
           IN  LookupRate(j, type, item, at) = IF C = {} THEN {} ELSE {Newest(C).rate}
  <1> DEFINE C == Candidates(j, type, item, at)
             first == {r \in InEffect(at) :
                /\ r.topic \in {<<j, type, item>>, <<j, type, CatchAll>>}
                /\ \A s \in InEffect(at) : /\ s.topic = <<j, type, item>> => r.topic = s.topic
                                           /\ s.topic = r.topic => s.from <= r.from}
  <1>1. C \in SUBSET InEffect(at) /\ \A r, s \in C : r.topic = s.topic
    BY DEF Candidates, RowsOf
  <1>2. first = {r \in C : \A s \in C : s.from <= r.from}
    <2>1. CASE RowsOf(<<j, type, item>>, at) # {}
      BY <2>1 DEF Candidates, RowsOf
    <2>2. CASE RowsOf(<<j, type, item>>, at) = {}
      <3>1. \A r \in InEffect(at) : r.topic # <<j, type, item>>
        BY <2>2 DEF RowsOf
      <3>2. C = {r \in InEffect(at) : r.topic = <<j, type, CatchAll>>}
        BY <2>2 DEF Candidates, RowsOf
      <3> HIDE DEF C
      <3>3. \A r \in first : r \in C /\ \A s \in C : s.from <= r.from
        BY <3>1, <3>2
      <3>4. \A r \in C : (\A s \in C : s.from <= r.from) => r \in first
        BY <3>1, <3>2
      <3> QED
        BY <3>2, <3>3, <3>4
    <2> QED
      BY <2>1, <2>2
  <1>3. LookupRate(j, type, item, at) = {r.rate : r \in first}
    BY DEF LookupRate
  <1> HIDE DEF C, first
  <1>4. CASE C = {}
    BY <1>2, <1>3, <1>4 DEF C
  <1>5. CASE C # {}
    <2>1. /\ Newest(C) \in first
          /\ \A r \in first : r.rate = Newest(C).rate
      BY <1>1, <1>2, <1>5, NewestRow
    <2>2. {r.rate : r \in first} = {Newest(C).rate}
      BY <2>1
    <2> QED
      BY <2>2, <1>3, <1>5 DEF C
  <1> QED
    BY <1>4, <1>5

(* What the resolver has for a type is what lookup_rate finds.             *)
LEMMA ResolvedRates ==
    ASSUME RatesInv, NEW at \in Nat, NEW j, NEW item, NEW type \in {"sales", "duty"}
    PROVE  /\ \A v : <<type, v>> \in Resolve(j, item, at) <=> v \in LookupRate(j, type, item, at)
           /\ {x[2] : x \in {y \in Resolve(j, item, at) : y[1] = type}}
                  = LookupRate(j, type, item, at)
           /\ (\E x \in Resolve(j, item, at) : x[1] = type) <=> LookupRate(j, type, item, at) # {}
  <1> DEFINE C(t) == Candidates(j, t, item, at)
             R == {<<t, Newest(C(t)).rate>> : t \in {t \in {"sales", "duty"} : C(t) # {}}}
  <1>1. Resolve(j, item, at) = R
    BY DEF Resolve, Candidates, RowsOf
  <1>2. \A t \in {"sales", "duty"} :
            LookupRate(j, t, item, at) = IF C(t) = {} THEN {} ELSE {Newest(C(t)).rate}
    BY LookupFindsNewest
  <1> HIDE DEF C
  <1>3. \A v : <<type, v>> \in R <=> v \in LookupRate(j, type, item, at)
    BY <1>2
  <1>4. \A y \in R : y = <<y[1], y[2]>>
    OBVIOUS
  <1> HIDE DEF R
  <1>5. {x[2] : x \in {y \in R : y[1] = type}} = LookupRate(j, type, item, at)
    <2>1. ASSUME NEW v \in LookupRate(j, type, item, at)
          PROVE  v \in {x[2] : x \in {y \in R : y[1] = type}}
      <3>1. <<type, v>> \in {y \in R : y[1] = type} /\ <<type, v>>[2] = v
        BY <1>3
      <3> QED
        BY <3>1
    <2>2. ASSUME NEW y \in R, y[1] = type PROVE y[2] \in LookupRate(j, type, item, at)
      <3>1. <<type, y[2]>> \in R
        BY <2>2, <1>4
      <3> QED
        BY <3>1, <1>3
    <2> QED
      BY <2>1, <2>2
  <1>6. (\E x \in R : x[1] = type) <=> LookupRate(j, type, item, at) # {}
    BY <1>5
  <1> QED
    BY <1>1, <1>3, <1>5, <1>6

(* A line's sales tax is what lookup_rate finds at its one source.         *)
LEMMA SalesAreLookedUp ==
    ASSUME RatesInv, NEW at \in Nat, NEW item \in Items
    PROVE  LET there == LookupRate(Destination, "sales", item, at)
           IN  {c[3] : c \in {d \in Charges(Destination, item, at) : d[2] = "sales"}}
                   = (IF there # {} THEN there ELSE LookupRate(Origin, "sales", item, at)) \ {0}
  <1> DEFINE source == SalesSource(Destination, item, at)
             sales == {d \in Charges(Destination, item, at) : d[2] = "sales"}
             due == LookupRate(source, "sales", item, at)
             there == LookupRate(Destination, "sales", item, at)
  <1>1. source = IF there # {} THEN Destination ELSE Origin
    <2>1. (\E x \in Resolve(Destination, item, at) : x[1] = "sales") <=> there # {}
      BY ResolvedRates
    <2> QED
      BY <2>1 DEF SalesSource
  <1>2. source \in Jurisdictions
    BY <1>1 DEF Jurisdictions
  <1>3. due \subseteq Rates /\ Rates \subseteq Nat
    <2>1. \A r \in InEffect(at) : r.rate \in Rates
      BY DEF InEffect, RatesInv, TaxRatesInv, TaxRatesTypeOK, RuleRow
    <2> QED
      BY <2>1, TaxRatesConstants DEF LookupRate
  <1>4. \A v : <<"sales", v>> \in Resolve(source, item, at) <=> v \in due
    BY ResolvedRates
  <1> HIDE DEF source
  <1>5. ASSUME NEW v \in due, v # 0 PROVE <<source, "sales", v>> \in sales
    <2>1. /\ v \in Rates /\ v > 0
          /\ <<source, "sales", v>> \in {<<j, x[1], x[2]>> : j \in Jurisdictions,
                                                            x \in {"sales", "duty"} \X Rates}
      <3>0. v \in Rates /\ v \in Nat
        BY <1>3
      <3>1. v \in Rates /\ v > 0
        BY <3>0, <1>5
      <3>2. <<"sales", v>> \in {"sales", "duty"} \X Rates
        BY <3>1
      <3>3. <<source, "sales", v>> = <<source, <<"sales", v>>[1], <<"sales", v>>[2]>>
        OBVIOUS
      <3> QED
        BY <3>1, <3>2, <3>3, <1>2
    <2>2. <<"sales", v>> \in Resolve(source, item, at)
      BY <1>4
    <2> QED
      BY <2>1, <2>2 DEF Charges, source
  <1>6. ASSUME NEW c \in sales PROVE c[3] \in due \ {0}
    <2>1. /\ c[2] = "sales" /\ c[1] = source
          /\ c[3] > 0 /\ <<c[2], c[3]>> \in Resolve(c[1], item, at)
      BY DEF Charges, source
    <2> QED
      BY <2>1, <1>3, <1>4
  <1> HIDE DEF sales, due
  <1>7. {c[3] : c \in sales} = due \ {0}
    <2>1. ASSUME NEW v \in due \ {0} PROVE v \in {c[3] : c \in sales}
      <3>1. <<source, "sales", v>> \in sales /\ <<source, "sales", v>>[3] = v
        BY <1>5
      <3> QED
        BY <3>1
    <2> QED
      BY <2>1, <1>6
  <1>8. due = IF there # {} THEN there ELSE LookupRate(Origin, "sales", item, at)
    BY <1>1 DEF due
  <1> QED
    BY <1>7, <1>8 DEF sales

(* Whatever transactions overlap, the resolver that loads all rules at     *)
(* once prices a line as lookup_rate would at every instant so far, and    *)
(* sales tax comes from one jurisdiction (tax/categorizer.py,              *)
(* tax/knowledge_base.py).                                                 *)
THEOREM AlwaysPricedAsLookedUp == TaxRatesSpec => []PricedAsLookedUp
  <1>1. RatesInv => PricedAsLookedUp
    <2> SUFFICES ASSUME RatesInv, NEW at \in 1..clock, NEW item \in Items
                 PROVE  LET charges == Charges(Destination, item, at)
                            sales == {c \in charges : c[2] = "sales"}
                            there == LookupRate(Destination, "sales", item, at)
                        IN  /\ \A j \in Jurisdictions :
                                  {x[2] : x \in {y \in Resolve(j, item, at) : y[1] = "duty"}}
                                      = LookupRate(j, "duty", item, at)
                            /\ {c[3] : c \in sales}
                                  = (IF there # {} THEN there
                                     ELSE LookupRate(Origin, "sales", item, at)) \ {0}
      BY DEF PricedAsLookedUp
    <2>1. at \in Nat
      BY DEF RatesInv, TaxRatesInv, TaxRatesTypeOK
    <2>2. \A j \in Jurisdictions :
              {x[2] : x \in {y \in Resolve(j, item, at) : y[1] = "duty"}}
                  = LookupRate(j, "duty", item, at)
      BY <2>1, ResolvedRates
    <2> QED
      BY <2>1, <2>2, SalesAreLookedUp
  <1> QED
    BY <1>1, RatesInitInv, RatesStepInv, PTL DEF TaxRatesSpec

=============================================================================
