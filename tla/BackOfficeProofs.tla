---------------------------- MODULE BackOfficeProofs ----------------------------
(***************************************************************************)
(* The components of the back office that share no state with each other,  *)
(* one after the other.                                                    *)
(***************************************************************************)
EXTENDS RawData, Mail, Disputes, RateLimiter, Uploads, Recurrence, Stock, Sums,
        SequenceTheorems

-----------------------------------------------------------------------------
(***************************************************************************)
(* Why the audit log is exact and can be undone.  A request that has taken *)
(* its snapshot holds the row, so that the snapshot is still the row's     *)
(* when the write commits; and what a revert writes is the before-state of *)
(* the entry it names, whose cells are all there.                          *)
(***************************************************************************)
RowShape == [kind: {"row"}, cells: [Columns -> Values], hash: Hashes]
Redacted == [kind: {"row"}, cells: [Columns -> Values], hash: {"<redacted>"}]
Snapshots == Redacted \cup {None}

Actions == {"data.update", "data.update.noop", "data.delete", "data.insert", "data.revert",
            "data.update.revert-replay", "data.delete.revert-replay",
            "data.insert.revert-replay"}
Entries == [action: Actions, target: Rows, before: Snapshots, after: Snapshots]

ShapesOK ==
    /\ row \in [Rows -> RowShape \cup {None}]
    /\ log \in Seq(Entries)
    /\ DOMAIN edit = Edits

\* Which entries have a before-state to bring back.
EntriesOK ==
    \A k \in DOMAIN log :
        /\ log[k].action = "data.delete" => log[k].before \in Redacted
        /\ log[k].action = "data.insert" => log[k].before = None

\* The values a write brings fit the columns.
Fits(cells) == \A c \in Columns : c \in DOMAIN cells => cells[c] \in Values

\* A revert in progress replays the entry it names.
ReplaysEntry(e) ==
    /\ e.replays \in DOMAIN log /\ e.target = log[e.replays].target
    /\ e.op = "update" => /\ log[e.replays].before \in Redacted
                          /\ e.cells = log[e.replays].before.cells
    /\ e.op = "delete" => log[e.replays].before = None

\* A write in progress holds the row as its snapshot has it.
EditOK(e) ==
    /\ e.op \in {"update", "delete"}
    /\ e.target \in Rows /\ row[e.target] \in RowShape
    /\ e.before = Snapshot(row[e.target])
    /\ e.op = "update" => Fits(e.cells)
    /\ e.replays # 0 => ReplaysEntry(e)

EditsOK == \A t \in Edits : edit[t] = NoEdit \/ EditOK(edit[t])

EditsExclude ==
    \A t, x \in Edits : t # x /\ edit[t] # NoEdit /\ edit[x] # NoEdit
                            => edit[t].target # edit[x].target

RawDataInv == ShapesOK /\ EntriesOK /\ EditsOK /\ EditsExclude

-----------------------------------------------------------------------------
(***************************************************************************)
(* Rows, snapshots and entries.                                            *)
(***************************************************************************)

(* No row is None, and no write in progress is NoEdit.                     *)
LEMMA RowsAreNotNone == \A s \in RowShape \cup Redacted : s # None
  <1> SUFFICES ASSUME NEW s \in RowShape \cup Redacted, s = None PROVE FALSE
    OBVIOUS
  <1>1. s.kind = "row"
    BY DEF RowShape, Redacted
  <1>2. None.kind = "none"
    BY DEF None
  <1> QED
    BY <1>1, <1>2

(* A write in progress is not the idle state.                              *)
LEMMA EditsAreNotIdle == \A e : EditOK(e) => e # NoEdit
  BY DEF EditOK, NoEdit

(* A snapshot of a row has its cells, and no hash.                         *)
LEMMA SnapshotOfRow ==
    ASSUME NEW s \in RowShape
    PROVE  Snapshot(s) \in Redacted /\ Snapshot(s).cells = s.cells
  <1>1. Snapshot(s) = [s EXCEPT !.hash = "<redacted>"]
    BY RowsAreNotNone DEF Snapshot
  <1> QED
    BY <1>1 DEF RowShape, Redacted

(* A snapshot is a row with its hash struck out, or nothing.               *)
LEMMA SnapshotIsRedacted ==
    ASSUME NEW s \in RowShape \cup {None}
    PROVE  Snapshot(s) \in Snapshots
  BY SnapshotOfRow DEF Snapshots, Snapshot

(* Two redacted states with the same cells are one.                        *)
LEMMA SameCells ==
    ASSUME NEW s \in Redacted, NEW z \in Redacted, s.cells = z.cells
    PROVE  s = z
  BY DEF Redacted

(* A row inserted from a state has the snapshot of that state.             *)
LEMMA InsertedRow ==
    ASSUME NEW s \in RowShape
    PROVE  Inserted(s) \in RowShape /\ Snapshot(Inserted(s)) = Snapshot(s)
  <1>1. Inserted(s) \in RowShape /\ Inserted(s).cells = s.cells
    BY DEF Inserted, RowShape, Hashes
  <1> QED
    BY <1>1, SnapshotOfRow, SameCells

(* Striking the hash out leaves a row.                                     *)
LEMMA RedactedIsRow == Redacted \subseteq RowShape
  BY DEF Redacted, RowShape, Hashes

(* An update leaves a row, and one that names every column leaves those.   *)
LEMMA OverwrittenRow ==
    ASSUME NEW s \in RowShape, NEW cells, Fits(cells)
    PROVE  /\ Overwritten(s, cells) \in RowShape
           /\ cells \in [Columns -> Values] => Overwritten(s, cells).cells = cells
  <1> DEFINE new == [c \in Columns |-> IF c \in DOMAIN cells THEN cells[c] ELSE s.cells[c]]
  <1>1. Overwritten(s, cells) = [s EXCEPT !.cells = new]
    BY DEF Overwritten, RowShape
  <1>2. new \in [Columns -> Values]
    BY DEF Fits, RowShape
  <1>3. cells \in [Columns -> Values] => new = cells
    OBVIOUS
  <1> HIDE DEF new
  <1> QED
    BY <1>1, <1>2, <1>3 DEF RowShape

(* The log of a write is longer by its entry, and by that of the revert.   *)
LEMMA WrittenLog ==
    ASSUME log \in Seq(Entries), NEW entry \in Entries, NEW k \in {0} \cup DOMAIN log
    PROVE  LET new == Written(entry, k)
               revert == Entry("data.revert", entry.target, log[k].after, log[k].before)
           IN  /\ new \in Seq(Entries)
               /\ Len(new) = Len(log) + (IF k = 0 THEN 1 ELSE 2)
               /\ \A i \in DOMAIN log : new[i] = log[i]
               /\ new[Len(log) + 1] = entry
               /\ k # 0 => new[Len(log) + 2] = revert
  <1> DEFINE revert == Entry("data.revert", entry.target, log[k].after, log[k].before)
  <1>1. CASE k = 0
    BY <1>1 DEF Written
  <1>2. CASE k # 0
    <2>1. log[k] \in Entries
      BY <1>2
    <2>2. revert \in Entries
      BY <2>1 DEF Entry, Entries, Actions
    <2>3. Written(entry, k) = log \o <<entry, revert>>
      BY <1>2 DEF Written
    <2> HIDE DEF revert
    <2>4. <<entry, revert>> \in Seq(Entries)
      BY <2>2
    <2> QED
      BY <1>2, <2>2, <2>3, <2>4 DEF revert
  <1> QED
    BY <1>1, <1>2

-----------------------------------------------------------------------------
(***************************************************************************)
(* What every write does, whichever of the write paths it takes: its entry *)
(* says what it found and what it left, and a write that replays entry k   *)
(* leaves what k has as its before-state.                                  *)
(***************************************************************************)
Writes(entry, k, state) ==
    /\ entry \in Entries /\ k \in {0} \cup DOMAIN log /\ state \in RowShape \cup {None}
    /\ log' = Written(entry, k)
    /\ row' = [row EXCEPT ![entry.target] = state]
    /\ entry.before = Snapshot(row[entry.target]) /\ entry.after = Snapshot(state)
    /\ entry.action = "data.delete" => entry.before \in Redacted
    /\ entry.action = "data.insert" => entry.before = None
    /\ k # 0 => entry.target = log[k].target /\ Snapshot(state) = log[k].before

(* A write keeps the invariant when no other write in progress holds its   *)
(* row.                                                                    *)
LEMMA WriteStep ==
    ASSUME RawDataInv, NEW entry, NEW k, NEW state, Writes(entry, k, state),
           DOMAIN edit' = Edits, \A t \in Edits : edit'[t] \in {edit[t], NoEdit},
           \A t \in Edits : edit'[t] # NoEdit => edit[t].target # entry.target
    PROVE  RawDataInv'
  <1>1. /\ log' \in Seq(Entries)
        /\ Len(log') = Len(log) + (IF k = 0 THEN 1 ELSE 2)
        /\ \A i \in DOMAIN log : log'[i] = log[i]
        /\ log'[Len(log) + 1] = entry
        /\ k # 0 => log'[Len(log) + 2].action = "data.revert"
    <2>1. entry \in Entries /\ k \in {0} \cup DOMAIN log /\ log' = Written(entry, k)
      BY DEF Writes
    <2> DEFINE revert == Entry("data.revert", entry.target, log[k].after, log[k].before)
    <2>2. revert.action = "data.revert"
      BY DEF Entry
    <2> HIDE DEF revert
    <2>3. /\ Written(entry, k) \in Seq(Entries)
          /\ Len(Written(entry, k)) = Len(log) + (IF k = 0 THEN 1 ELSE 2)
          /\ \A i \in DOMAIN log : Written(entry, k)[i] = log[i]
          /\ Written(entry, k)[Len(log) + 1] = entry
          /\ k # 0 => Written(entry, k)[Len(log) + 2] = revert
      BY <2>1, WrittenLog DEF RawDataInv, ShapesOK, revert
    <2> QED
      BY <2>1, <2>2, <2>3
  <1>2. entry.target \in Rows
    BY DEF Writes, Entries
  <1>3. ShapesOK'
    BY <1>1, <1>2 DEF RawDataInv, ShapesOK, Writes
  <1>4. EntriesOK'
    <2> SUFFICES ASSUME NEW i \in DOMAIN log'
                 PROVE  /\ log'[i].action = "data.delete" => log'[i].before \in Redacted
                        /\ log'[i].action = "data.insert" => log'[i].before = None
      BY DEF EntriesOK
    <2>1. CASE i \in DOMAIN log
      BY <1>1, <2>1 DEF RawDataInv, EntriesOK
    <2>2. CASE i = Len(log) + 1
      BY <1>1, <2>2 DEF Writes
    <2>3. CASE k # 0 /\ i = Len(log) + 2
      BY <1>1, <2>3
    <2>4. log \in Seq(Entries) /\ Len(log) \in Nat /\ DOMAIN log = 1..Len(log)
      BY DEF RawDataInv, ShapesOK
    <2>5. i \in 1..Len(log')
      BY <1>1
    <2> QED
      BY <1>1, <2>1, <2>2, <2>3, <2>4, <2>5
  <1>5. EditsOK'
    <2> SUFFICES ASSUME NEW t \in Edits, edit'[t] # NoEdit
                 PROVE  EditOK(edit[t])'
      BY DEF EditsOK
    <2>1. edit'[t] = edit[t] /\ EditOK(edit[t]) /\ edit[t].target # entry.target
      BY DEF RawDataInv, EditsOK
    <2>2. row'[edit[t].target] = row[edit[t].target]
      BY <2>1 DEF Writes, RawDataInv, ShapesOK, EditOK
    <2>3. DOMAIN log \subseteq DOMAIN log'
      BY <1>1 DEF RawDataInv, ShapesOK
    <2>4. ReplaysEntry(edit[t]) => ReplaysEntry(edit[t])'
      BY <1>1, <2>1, <2>3 DEF ReplaysEntry
    <2> QED
      BY <2>1, <2>2, <2>4 DEF EditOK
  <1>6. EditsExclude'
    BY DEF RawDataInv, EditsExclude
  <1> QED
    BY <1>3, <1>4, <1>5, <1>6 DEF RawDataInv

(* Taking the snapshot: the row is nobody else's.                          *)
LEMMA BeginStep ==
    ASSUME RawDataInv, NEW t \in Edits, NEW op \in {"update", "delete"}, NEW r \in Rows,
           NEW cells, NEW k \in {0} \cup DOMAIN log, BeginEdit(t, op, r, cells, k),
           op = "update" => Fits(cells),
           k # 0 => /\ r = log[k].target
                    /\ op = "update" => log[k].before \in Redacted /\ cells = log[k].before.cells
                    /\ op = "delete" => log[k].before = None
    PROVE  RawDataInv'
  <1> DEFINE e == [op |-> op, target |-> r, cells |-> cells, replays |-> k,
                   before |-> Snapshot(row[r])]
  <1>1. /\ edit' = [edit EXCEPT ![t] = e] /\ row' = row /\ log' = log
        /\ row[r] # None /\ ~Locked(r)
    BY DEF BeginEdit, MayRead
  <1>2. /\ e.op = op /\ e.target = r /\ e.cells = cells /\ e.replays = k
        /\ e.before = Snapshot(row[r])
    OBVIOUS
  <1> HIDE DEF e
  <1>3. row[r] \in RowShape
    BY <1>1 DEF RawDataInv, ShapesOK
  <1>4. k # 0 => ReplaysEntry(e)
    BY <1>2 DEF ReplaysEntry
  <1>5. EditOK(e)
    BY <1>2, <1>3, <1>4 DEF EditOK
  <1>6. /\ DOMAIN edit' = Edits
        /\ \A x \in Edits : edit'[x] = IF x = t THEN e ELSE edit[x]
    BY <1>1 DEF RawDataInv, ShapesOK
  <1>7. ShapesOK' /\ EntriesOK'
    BY <1>1, <1>6 DEF RawDataInv, ShapesOK, EntriesOK
  <1>8. EditsOK'
    BY <1>1, <1>5, <1>6 DEF RawDataInv, EditsOK, EditOK, ReplaysEntry
  <1>9. EditsExclude'
    BY <1>1, <1>2, <1>6 DEF RawDataInv, EditsExclude, Locked
  <1> QED
    BY <1>7, <1>8, <1>9 DEF RawDataInv

-----------------------------------------------------------------------------
(***************************************************************************)
(* Each write path is such a write.                                        *)
(***************************************************************************)

(* The action of an update's entry, of a delete's and of an insert's.      *)
LEMMA TaggedActions ==
    ASSUME NEW k
    PROVE  /\ Tagged("data.update", k) \in {"data.update", "data.update.revert-replay"}
           /\ Tagged("data.delete", k) \in {"data.delete", "data.delete.revert-replay"}
           /\ Tagged("data.insert", k) \in {"data.insert", "data.insert.revert-replay"}
  BY DEF Tagged

(* An update writes the new cells over the row it holds.                   *)
LEMMA UpdateWrites ==
    ASSUME RawDataInv, NEW t \in Edits, UpdateCommits(t)
    PROVE  \E entry, k, state : Writes(entry, k, state) /\ entry.target = edit[t].target
  <1> DEFINE r == edit[t].target
             k == edit[t].replays
             state == Overwritten(row[r], edit[t].cells)
             action == IF edit[t].before = Snapshot(state) THEN "data.update.noop"
                       ELSE Tagged("data.update", k)
             entry == Entry(action, r, edit[t].before, Snapshot(state))
  <1>1. edit[t].op = "update" /\ row' = [row EXCEPT ![r] = state] /\ log' = Written(entry, k)
    BY DEF UpdateCommits
  <1>2. EditOK(edit[t])
    BY <1>1 DEF RawDataInv, EditsOK, NoEdit
  <1>3. r \in Rows /\ row[r] \in RowShape /\ edit[t].before = Snapshot(row[r])
    BY <1>2 DEF EditOK
  <1>4. state \in RowShape
    BY <1>1, <1>2, <1>3, OverwrittenRow DEF EditOK
  <1>5. k \in {0} \cup DOMAIN log
    BY <1>2 DEF EditOK, ReplaysEntry
  <1>6. k # 0 => r = log[k].target /\ Snapshot(state) = log[k].before
    <2> SUFFICES ASSUME k # 0 PROVE r = log[k].target /\ Snapshot(state) = log[k].before
      OBVIOUS
    <2>1. /\ r = log[k].target /\ log[k].before \in Redacted
          /\ edit[t].cells = log[k].before.cells /\ Fits(edit[t].cells)
      BY <1>1, <1>2 DEF EditOK, ReplaysEntry
    <2>2. edit[t].cells \in [Columns -> Values]
      BY <2>1 DEF Redacted
    <2>3. state.cells = log[k].before.cells
      BY <1>3, <2>1, <2>2, OverwrittenRow
    <2>4. Snapshot(state) \in Redacted /\ Snapshot(state).cells = log[k].before.cells
      BY <1>4, <2>3, SnapshotOfRow
    <2> QED
      BY <2>1, <2>4, SameCells
  <1>7. action \in {"data.update", "data.update.revert-replay", "data.update.noop"}
    BY TaggedActions
  <1> HIDE DEF action, state, r, k
  <1>8. Snapshot(state) \in Snapshots /\ edit[t].before \in Snapshots
    BY <1>3, <1>4, SnapshotIsRedacted
  <1>9. /\ entry \in Entries /\ entry.target = r /\ entry.action = action
        /\ entry.before = edit[t].before /\ entry.after = Snapshot(state)
    BY <1>3, <1>7, <1>8 DEF Entry, Entries, Actions
  <1> HIDE DEF entry
  <1>10. Writes(entry, k, state)
    BY <1>1, <1>3, <1>4, <1>5, <1>6, <1>7, <1>9 DEF Writes
  <1> QED
    BY <1>9, <1>10 DEF r

(* A delete leaves no row.                                                 *)
LEMMA DeleteWrites ==
    ASSUME RawDataInv, NEW t \in Edits, DeleteCommits(t)
    PROVE  \E entry, k, state : Writes(entry, k, state) /\ entry.target = edit[t].target
  <1> DEFINE r == edit[t].target
             k == edit[t].replays
             action == Tagged("data.delete", k)
             entry == Entry(action, r, edit[t].before, None)
  <1>1. edit[t].op = "delete" /\ row' = [row EXCEPT ![r] = None] /\ log' = Written(entry, k)
    BY DEF DeleteCommits
  <1>2. EditOK(edit[t])
    BY <1>1 DEF RawDataInv, EditsOK, NoEdit
  <1>3. r \in Rows /\ row[r] \in RowShape /\ edit[t].before = Snapshot(row[r])
    BY <1>2 DEF EditOK
  <1>4. k \in {0} \cup DOMAIN log
    BY <1>2 DEF EditOK, ReplaysEntry
  <1>5. Snapshot(None) = None /\ None \in Snapshots
    BY DEF Snapshot, Snapshots
  <1>6. k # 0 => r = log[k].target /\ Snapshot(None) = log[k].before
    BY <1>1, <1>2, <1>5 DEF EditOK, ReplaysEntry
  <1>7. action \in {"data.delete", "data.delete.revert-replay"}
    BY TaggedActions
  <1>8. edit[t].before \in Redacted
    BY <1>3, SnapshotOfRow
  <1> HIDE DEF action, r, k
  <1>9. /\ entry \in Entries /\ entry.target = r /\ entry.action = action
        /\ entry.before = edit[t].before /\ entry.after = None
    BY <1>3, <1>5, <1>7, <1>8 DEF Entry, Entries, Actions, Snapshots
  <1> HIDE DEF entry
  <1>10. Writes(entry, k, None)
    BY <1>1, <1>3, <1>4, <1>5, <1>6, <1>7, <1>8, <1>9 DEF Writes
  <1> QED
    BY <1>9, <1>10 DEF r

(* An insert finds no row; bringing back a deleted one leaves its cells.   *)
LEMMA InsertWrites ==
    ASSUME RawDataInv, NEW r \in Rows, NEW state \in RowShape, NEW k \in {0} \cup DOMAIN log,
           k # 0 => r = log[k].target /\ state = log[k].before /\ state \in Redacted,
           Inserts(r, state, k)
    PROVE  \E entry, x, s : Writes(entry, x, s) /\ entry.target = r
  <1> DEFINE action == Tagged("data.insert", k)
             entry == Entry(action, r, None, Snapshot(state))
  <1>1. /\ row[r] = None /\ row' = [row EXCEPT ![r] = Inserted(state)]
        /\ log' = Written(entry, k)
    BY DEF Inserts
  <1>2. Inserted(state) \in RowShape /\ Snapshot(Inserted(state)) = Snapshot(state)
    BY InsertedRow
  <1>3. Snapshot(None) = None /\ None \in Snapshots
    BY DEF Snapshot, Snapshots
  <1>4. action \in {"data.insert", "data.insert.revert-replay"}
    BY TaggedActions
  <1>5. state \in Redacted => Snapshot(state) = state
    BY SnapshotOfRow, SameCells
  <1>6. Snapshot(state) \in Snapshots
    BY SnapshotIsRedacted
  <1> HIDE DEF action
  <1>7. /\ entry \in Entries /\ entry.target = r /\ entry.action = action
        /\ entry.before = None /\ entry.after = Snapshot(state)
    BY <1>3, <1>4, <1>6 DEF Entry, Entries, Actions
  <1> HIDE DEF entry
  <1>8. Writes(entry, k, Inserted(state))
    BY <1>1, <1>2, <1>3, <1>4, <1>5, <1>7 DEF Writes
  <1> QED
    BY <1>7, <1>8

-----------------------------------------------------------------------------
(***************************************************************************)
(* The invariant, and the steps that write the log.                        *)
(***************************************************************************)
LEMMA RawDataInitInv == RawDataInit => RawDataInv
  <1> SUFFICES ASSUME RawDataInit PROVE RawDataInv
    OBVIOUS
  <1>1. row \in [Rows -> RowShape \cup {None}]
    BY DEF RawDataInit, RowShape, Hashes
  <1> QED
    BY <1>1 DEF RawDataInit, RawDataInv, ShapesOK, EntriesOK, EditsOK, EditsExclude

(* The values a request names fit the columns; so does a snapshot.         *)
LEMMA NamedColumnsFit ==
    /\ \A cells \in Partial : Fits(cells)
    /\ \A s \in Redacted : Fits(s.cells)
  BY DEF Partial, Fits, Redacted

(* An insert, of a new row or of a deleted one.                            *)
LEMMA InsertStep ==
    ASSUME RawDataInv,
           \/ \E r \in Rows, cells \in [Columns -> Values] : InsertRow(r, cells)
           \/ \E k \in DOMAIN log : /\ log[k].action = "data.delete"
                                    /\ Inserts(log[k].target, RevertsTo(k), k)
    PROVE  \E entry, x, s : Writes(entry, x, s) /\ row[entry.target] = None /\ edit' = edit
  <1>1. ASSUME NEW r \in Rows, NEW cells \in [Columns -> Values], InsertRow(r, cells)
        PROVE  \E entry, x, s : Writes(entry, x, s) /\ row[entry.target] = None /\ edit' = edit
    <2> DEFINE state == [kind |-> "row", cells |-> cells, hash |-> "null"]
    <2>1. state \in RowShape
      BY DEF RowShape, Hashes
    <2>2. Inserts(r, state, 0)
      BY <1>1 DEF InsertRow
    <2> HIDE DEF state
    <2>3. row[r] = None /\ edit' = edit
      BY <2>2 DEF Inserts
    <2> QED
      BY <2>1, <2>2, <2>3, InsertWrites
  <1>2. ASSUME NEW k \in DOMAIN log, log[k].action = "data.delete",
               Inserts(log[k].target, RevertsTo(k), k)
        PROVE  \E entry, x, s : Writes(entry, x, s) /\ row[entry.target] = None /\ edit' = edit
    <2>1. log[k] \in Entries
      BY DEF RawDataInv, ShapesOK
    <2>2. log[k].target \in Rows
      BY <2>1 DEF Entries
    <2>3. log[k].before \in Redacted /\ log[k].before \in RowShape
      BY <1>2, RedactedIsRow DEF RawDataInv, EntriesOK
    <2>4. Inserts(log[k].target, log[k].before, k)
      BY <1>2 DEF RevertsTo
    <2>5. row[log[k].target] = None /\ edit' = edit
      BY <2>4 DEF Inserts
    <2> QED
      BY <2>2, <2>3, <2>4, <2>5, InsertWrites
  <1> QED
    BY <1>1, <1>2

(* A revert of an update or of an insert begins like any other write.      *)
LEMMA RevertBegins ==
    ASSUME RawDataInv, NEW t \in Edits, NEW k \in DOMAIN log,
           \/ /\ RevertsTo(k) # None
              /\ BeginEdit(t, "update", log[k].target, RevertsTo(k).cells, k)
           \/ /\ log[k].action = "data.insert"
              /\ BeginEdit(t, "delete", log[k].target, <<>>, k)
    PROVE  RawDataInv'
  <1>1. log[k] \in Entries
    BY DEF RawDataInv, ShapesOK
  <1>2. log[k].target \in Rows /\ log[k].before \in Snapshots
    BY <1>1 DEF Entries
  <1>3. k \in {0} \cup DOMAIN log
    OBVIOUS
  <1>4. CASE /\ RevertsTo(k) # None
             /\ BeginEdit(t, "update", log[k].target, RevertsTo(k).cells, k)
    <2>1. log[k].before \in Redacted
      BY <1>2, <1>4 DEF RevertsTo, Snapshots
    <2>2. BeginEdit(t, "update", log[k].target, log[k].before.cells, k)
      BY <1>4 DEF RevertsTo
    <2> QED
      BY <1>2, <1>3, <2>1, <2>2, NamedColumnsFit, BeginStep
  <1>5. CASE /\ log[k].action = "data.insert"
             /\ BeginEdit(t, "delete", log[k].target, <<>>, k)
    <2>1. log[k].before = None
      BY <1>5 DEF RawDataInv, EntriesOK
    <2> QED
      BY <1>2, <1>3, <1>5, <2>1, BeginStep
  <1> QED
    BY <1>4, <1>5

(* The application waits for the row, and leaves a row.                    *)
LEMMA ApplicationStep ==
    ASSUME RawDataInv, NEW r \in Rows, NEW cells \in Partial,
           NEW h \in {row[r].hash, "hash"}, row[r] # None,
           ApplicationWrites(r, [Overwritten(row[r], cells) EXCEPT !.hash = h])
    PROVE  RawDataInv'
  <1> DEFINE over == Overwritten(row[r], cells)
             state == [over EXCEPT !.hash = h]
  <1>1. row' = [row EXCEPT ![r] = state] /\ log' = log /\ edit' = edit /\ ~Locked(r)
    BY DEF ApplicationWrites
  <1>2. row[r] \in RowShape
    BY DEF RawDataInv, ShapesOK
  <1>3. over \in RowShape /\ h \in Hashes
    BY <1>2, NamedColumnsFit, OverwrittenRow DEF RowShape, Hashes
  <1> HIDE DEF over
  <1>4. state \in RowShape
    BY <1>3 DEF RowShape
  <1> HIDE DEF state
  <1>5. ShapesOK' /\ EntriesOK' /\ EditsExclude'
    BY <1>1, <1>4 DEF RawDataInv, ShapesOK, EntriesOK, EditsExclude
  <1>6. ASSUME NEW t \in Edits, edit[t] # NoEdit
        PROVE  EditOK(edit[t])'
    <2>1. EditOK(edit[t]) /\ edit[t].target # r
      BY <1>1, <1>6 DEF RawDataInv, EditsOK, Locked
    <2>2. row'[edit[t].target] = row[edit[t].target]
      BY <1>1, <2>1 DEF RawDataInv, ShapesOK, EditOK
    <2> QED
      BY <1>1, <2>1, <2>2 DEF EditOK, ReplaysEntry
  <1>7. EditsOK'
    BY <1>1, <1>6 DEF EditsOK
  <1> QED
    BY <1>5, <1>7 DEF RawDataInv

(* A step that changes the log is one of the three write paths.            *)
LEMMA LogIsWritten ==
    ASSUME RawDataInv, RawDataNext, log' # log
    PROVE  \E entry, k, state : Writes(entry, k, state)
  <1>1. ASSUME NEW t \in Edits, UpdateCommits(t) \/ DeleteCommits(t)
        PROVE  \E entry, k, state : Writes(entry, k, state)
    BY <1>1, UpdateWrites, DeleteWrites
  <1>2. CASE \/ \E r \in Rows, cells \in [Columns -> Values] : InsertRow(r, cells)
             \/ \E k \in DOMAIN log : /\ log[k].action = "data.delete"
                                      /\ Inserts(log[k].target, RevertsTo(k), k)
    BY <1>2, InsertStep
  <1>3. CASE \/ \E t \in Edits :
                  \/ \E r \in Rows : DeleteRow(t, r) \/ \E cells \in Partial : UpdateRow(t, r, cells)
                  \/ \E k \in DOMAIN log :
                       \/ BeginEdit(t, "update", log[k].target, RevertsTo(k).cells, k)
                       \/ BeginEdit(t, "delete", log[k].target, <<>>, k)
                  \/ WriteRejected(t)
             \/ \E r \in Rows : \E cells \in Partial, h \in {row[r].hash, "hash"} :
                   ApplicationWrites(r, [Overwritten(row[r], cells) EXCEPT !.hash = h])
    <2>1. log' = log
      BY <1>3 DEF DeleteRow, UpdateRow, BeginEdit, WriteRejected, ApplicationWrites
    <2> QED
      BY <2>1
  <1> QED
    BY <1>1, <1>2, <1>3 DEF RawDataNext, RevertChange

(* Every step keeps the invariant.                                         *)
LEMMA RawDataStepInv == RawDataInv /\ [RawDataNext]_rawDataVars => RawDataInv'
  <1> SUFFICES ASSUME RawDataInv, [RawDataNext]_rawDataVars PROVE RawDataInv'
    OBVIOUS
  <1>1. CASE UNCHANGED rawDataVars
    BY <1>1 DEF rawDataVars, RawDataInv, ShapesOK, EntriesOK, EditsOK, EditsExclude,
                EditOK, ReplaysEntry
  <1>2. ASSUME NEW t \in Edits, NEW r \in Rows, DeleteRow(t, r) PROVE RawDataInv'
    BY <1>2, BeginStep DEF DeleteRow
  <1>3. ASSUME NEW t \in Edits, NEW r \in Rows, NEW cells \in Partial, UpdateRow(t, r, cells)
        PROVE  RawDataInv'
    BY <1>3, BeginStep, NamedColumnsFit DEF UpdateRow
  <1>4. ASSUME NEW t \in Edits, UpdateCommits(t) \/ DeleteCommits(t)
        PROVE  RawDataInv'
    <2>1. PICK entry, k, state : Writes(entry, k, state) /\ entry.target = edit[t].target
      BY <1>4, UpdateWrites, DeleteWrites
    <2>2. edit' = [edit EXCEPT ![t] = NoEdit] /\ edit[t] # NoEdit
      BY <1>4 DEF UpdateCommits, DeleteCommits, NoEdit
    <2>3. /\ DOMAIN edit' = Edits
          /\ \A x \in Edits : edit'[x] = IF x = t THEN NoEdit ELSE edit[x]
      BY <2>2 DEF RawDataInv, ShapesOK
    <2>4. \A x \in Edits : edit'[x] # NoEdit => edit[x].target # entry.target
      BY <2>1, <2>2, <2>3 DEF RawDataInv, EditsExclude
    <2> QED
      BY <2>1, <2>3, <2>4, WriteStep
  <1>5. CASE \/ \E r \in Rows, cells \in [Columns -> Values] : InsertRow(r, cells)
             \/ \E k \in DOMAIN log : /\ log[k].action = "data.delete"
                                      /\ Inserts(log[k].target, RevertsTo(k), k)
    <2>1. PICK entry, x, s : Writes(entry, x, s) /\ row[entry.target] = None /\ edit' = edit
      BY <1>5, InsertStep
    <2>2. \A t \in Edits : edit[t] # NoEdit => edit[t].target # entry.target
      BY <2>1, RowsAreNotNone DEF RawDataInv, EditsOK, EditOK
    <2> QED
      BY <2>1, <2>2, WriteStep DEF RawDataInv, ShapesOK
  <1>6. ASSUME NEW t \in Edits, WriteRejected(t) PROVE RawDataInv'
    <2>1. edit' = [edit EXCEPT ![t] = NoEdit] /\ UNCHANGED <<row, log>>
      BY <1>6 DEF WriteRejected
    <2>2. /\ DOMAIN edit' = Edits
          /\ \A x \in Edits : edit'[x] = IF x = t THEN NoEdit ELSE edit[x]
      BY <2>1 DEF RawDataInv, ShapesOK
    <2> QED
      BY <2>1, <2>2 DEF RawDataInv, ShapesOK, EntriesOK, EditsOK, EditsExclude, EditOK,
                        ReplaysEntry
  <1>7. ASSUME NEW t \in Edits, NEW k \in DOMAIN log,
               \/ /\ RevertsTo(k) # None
                  /\ BeginEdit(t, "update", log[k].target, RevertsTo(k).cells, k)
               \/ /\ log[k].action = "data.insert"
                  /\ BeginEdit(t, "delete", log[k].target, <<>>, k)
        PROVE  RawDataInv'
    BY <1>7, RevertBegins
  <1>8. ASSUME NEW r \in Rows, NEW cells \in Partial, NEW h \in {row[r].hash, "hash"},
               row[r] # None,
               ApplicationWrites(r, [Overwritten(row[r], cells) EXCEPT !.hash = h])
        PROVE  RawDataInv'
    BY <1>8, ApplicationStep
  <1> QED
    BY <1>1, <1>2, <1>3, <1>4, <1>5, <1>6, <1>7, <1>8 DEF RawDataNext, RevertChange

(* Rows are held by one write at a time, as their snapshots have them.     *)
THEOREM SnapshotsStayTrue == RawDataSpec => []RawDataInv
  BY RawDataInitInv, RawDataStepInv, PTL DEF RawDataSpec

-----------------------------------------------------------------------------
(* Every audit row says what its write found and what it left, however     *)
(* admins' requests and the application's writes interleave                *)
(* (domain/admin_data/service.py: _get_row_for_update, insert_row,         *)
(* update_row, delete_row).                                                *)
THEOREM AuditIsAlwaysExact == RawDataSpec => AuditIsExact
  <1> DEFINE Exact == log' # log =>
        LET e == log'[Len(log) + 1]
        IN  e.before = Snapshot(row[e.target]) /\ e.after = Snapshot(row'[e.target])
  <1>1. ASSUME RawDataInv, RawDataNext, log' # log PROVE Exact
    <2>1. PICK entry, k, state : Writes(entry, k, state)
      BY <1>1, LogIsWritten
    <2>2. log'[Len(log) + 1] = entry
      BY <1>1, <2>1, WrittenLog DEF Writes, RawDataInv, ShapesOK
    <2>3. row'[entry.target] = state
      BY <1>1, <2>1 DEF Writes, RawDataInv, ShapesOK, Entries
    <2> QED
      BY <2>1, <2>2, <2>3 DEF Writes
  <1>2. RawDataInv /\ [RawDataNext]_rawDataVars => [Exact]_rawDataVars
    BY <1>1
  <1> QED
    BY <1>2, SnapshotsStayTrue, PTL DEF RawDataSpec, AuditIsExact

(* Undoing an entry while the row is as the entry left it brings back what *)
(* the entry found (domain/admin_data/service.py: revert_change).          *)
THEOREM UndoAlwaysRestores == RawDataSpec => UndoRestores
  <1> DEFINE Restores == Len(log') = Len(log) + 2 =>
        \A k \in DOMAIN log :
            LET r == log[k].target
            IN  /\ log[k].action \in {"data.update", "data.delete", "data.insert"}
                /\ Last(log') = Entry("data.revert", r, log[k].after, log[k].before)
                /\ Snapshot(row[r]) = log[k].after
                => Snapshot(row'[r]) = log[k].before
  <1>1. ASSUME RawDataInv, RawDataNext, Len(log') = Len(log) + 2, NEW k \in DOMAIN log,
               Last(log') = Entry("data.revert", log[k].target, log[k].after, log[k].before)
        PROVE  Snapshot(row'[log[k].target]) = log[k].before
    <2>1. log \in Seq(Entries) /\ Len(log) \in Nat
      BY <1>1 DEF RawDataInv, ShapesOK
    <2>2. log' # log
      BY <1>1, <2>1
    <2>3. PICK entry, x, state : Writes(entry, x, state)
      BY <1>1, <2>2, LogIsWritten
    <2> DEFINE revert == Entry("data.revert", entry.target, log[x].after, log[x].before)
    <2> HIDE DEF revert
    <2>4. entry \in Entries /\ x \in {0} \cup DOMAIN log /\ log' = Written(entry, x)
      BY <2>3 DEF Writes
    <2>5. /\ Len(Written(entry, x)) = Len(log) + (IF x = 0 THEN 1 ELSE 2)
          /\ x # 0 => Written(entry, x)[Len(log) + 2] = revert
      BY <2>1, <2>4, WrittenLog DEF revert
    <2>6. x # 0 /\ Last(log') = revert
      BY <1>1, <2>1, <2>4, <2>5 DEF Last
    <2>7. entry.target = log[k].target /\ log[x].before = log[k].before
      BY <1>1, <2>6 DEF Entry, revert
    <2>8. row'[entry.target] = state /\ Snapshot(state) = log[x].before
      BY <1>1, <2>3, <2>6 DEF Writes, RawDataInv, ShapesOK, Entries
    <2> QED
      BY <2>7, <2>8
  <1>2. RawDataInv /\ [RawDataNext]_rawDataVars => [Restores]_rawDataVars
    BY <1>1
  <1> QED
    BY <1>2, SnapshotsStayTrue, PTL DEF RawDataSpec, UndoRestores

-----------------------------------------------------------------------------
(***************************************************************************)
(* Why a committed row always has its object.  The property speaks of      *)
(* committed rows only; what carries it is that the object is there as     *)
(* soon as the row is "stored", under a key no other kind of upload uses.  *)
(***************************************************************************)
Steps == {"none", "flushed", "stored", "failed", "live", "deleted"}

RecordRow == [step: Steps, kind: Kinds \cup {NoFile}, key: Files \cup Names \cup {NoFile},
              reconciled: BOOLEAN]

UploadsTypeOK ==
    /\ object \in [Files \cup Names -> Files \cup {Torn, NoFile}]
    /\ record \in [Files -> RecordRow]

\* An object is named after its row, except evidence, named by the admin.
KeysOf(kind, f) == IF kind = "evidence" THEN Names ELSE {f}

OwnKey(f) ==
    record[f].step # "none" => record[f].key \in KeysOf(record[f].kind, f)

HasObject(f) ==
    record[f].step \in {"stored", "live", "deleted"} =>
        /\ object[record[f].key] # NoFile
        /\ record[f].kind # "evidence" => object[record[f].key] = f

UploadsInv ==
    /\ UploadsTypeOK
    /\ \A f \in Files : OwnKey(f)
    /\ \A f \in Files : HasObject(f)

-----------------------------------------------------------------------------
(* No upload, proof or piece of evidence has an object before it exists.   *)
LEMMA UploadsInitInv == UploadsInit => UploadsInv
  BY DEF UploadsInit, UploadsInv, UploadsTypeOK, OwnKey, HasObject, NoRecord, RecordRow, Steps

(* A step that changes the rows of one upload and no object, and ends in a *)
(* step that needs an object only if it had one, keeps the invariant.      *)
LEMMA RowStep ==
    ASSUME UploadsInv,
           NEW f \in Files, NEW newRow \in RecordRow,
           record' = [record EXCEPT ![f] = newRow],
           object' = object,
           newRow.step # "none" => newRow.key \in KeysOf(newRow.kind, f),
           newRow.step \in {"stored", "live", "deleted"} =>
               /\ record[f].step \in {"stored", "live", "deleted"}
               /\ newRow.kind = record[f].kind /\ newRow.key = record[f].key
    PROVE  UploadsInv'
  <1>1. UploadsTypeOK'
    BY DEF UploadsInv, UploadsTypeOK
  <1>2. ASSUME NEW g \in Files PROVE OwnKey(g)' /\ HasObject(g)'
    BY DEF UploadsInv, UploadsTypeOK, OwnKey, HasObject
  <1> QED
    BY <1>1, <1>2 DEF UploadsInv

(* A write under the key of upload f, which may leave anything but nothing *)
(* there, does not take the object of another row away.                    *)
LEMMA ObjectStep ==
    ASSUME UploadsInv,
           NEW f \in Files, NEW left \in Files \cup {Torn, NoFile},
           record[f].step = "flushed",
           left = NoFile => object[record[f].key] = NoFile,
           NEW step \in Steps,
           object' = [object EXCEPT ![record[f].key] = left],
           record' = [record EXCEPT ![f].step = step],
           \/ step = "failed"
           \/ step = "stored" /\ left = f
    PROVE  UploadsInv'
  <1> USE UploadsConstants
  <1>1. record[f].key \in Files \cup Names /\ OwnKey(f)
    BY DEF UploadsInv, OwnKey, KeysOf
  <1>2. UploadsTypeOK'
    BY <1>1 DEF UploadsInv, UploadsTypeOK, RecordRow
  <1>3. ASSUME NEW g \in Files PROVE OwnKey(g)'
    BY <1>3 DEF UploadsInv, UploadsTypeOK, OwnKey, RecordRow
  <1>4. HasObject(f)'
    BY <1>1 DEF UploadsInv, UploadsTypeOK, OwnKey, HasObject, RecordRow, KeysOf
  <1>5. ASSUME NEW g \in Files, g # f PROVE HasObject(g)'
    <2>1. record'[g] = record[g] /\ OwnKey(g) /\ HasObject(g)
      BY <1>5 DEF UploadsInv, UploadsTypeOK
    <2>2. CASE record[g].step \notin {"stored", "live", "deleted"}
      BY <2>1, <2>2 DEF HasObject
    <2>3. CASE record[g].step \in {"stored", "live", "deleted"}
      <3>1. record[g].key \in Files \cup Names
        BY <2>1, <2>3 DEF OwnKey, KeysOf
      <3>2. CASE record[g].key # record[f].key
        BY <3>1, <3>2, <2>1 DEF HasObject, UploadsInv, UploadsTypeOK
      <3>3. CASE record[g].key = record[f].key
        <4>1. record[g].kind = "evidence"
          BY <3>3, <2>1, <2>3, <1>1, <1>5 DEF OwnKey, KeysOf
        <4>2. object'[record[g].key] = left
          BY <3>1, <3>3 DEF UploadsInv, UploadsTypeOK
        <4>3. object[record[g].key] # NoFile
          BY <2>1, <2>3 DEF HasObject
        <4> QED
          BY <4>1, <4>2, <4>3, <3>3, <2>1 DEF HasObject
      <3> QED
        BY <3>2, <3>3
    <2> QED
      BY <2>2, <2>3
  <1> QED
    BY <1>2, <1>3, <1>4, <1>5 DEF UploadsInv

(* Every step of every request keeps the invariant.                        *)
LEMMA UploadsStepInv == UploadsInv /\ [UploadsNext]_uploadsVars => UploadsInv'
  <1> SUFFICES ASSUME UploadsInv, [UploadsNext]_uploadsVars PROVE UploadsInv'
    OBVIOUS
  <1>type. UploadsTypeOK /\ \A f \in Files : record[f] \in RecordRow /\ OwnKey(f)
    BY DEF UploadsInv, UploadsTypeOK
  <1>flush. ASSUME NEW f \in Files, NEW kind \in Kinds, NEW key \in Files \cup Names, FlushRow(f, kind, key),
                   key \in KeysOf(kind, f)
            PROVE  UploadsInv'
    <2> DEFINE newRow == [step |-> "flushed", kind |-> kind, key |-> key, reconciled |-> FALSE]
    <2>1. newRow \in RecordRow /\ record' = [record EXCEPT ![f] = newRow] /\ object' = object
      BY <1>flush DEF FlushRow, RecordRow, Steps
    <2> QED
      BY <2>1, <1>flush, RowStep
  <1>move. ASSUME NEW f \in Files, NEW step \in Steps,
                  record' = [record EXCEPT ![f].step = step], object' = object,
                  record[f].step # "none",
                  step \in {"stored", "live", "deleted"}
                      => record[f].step \in {"stored", "live", "deleted"}
           PROVE  UploadsInv'
    <2> DEFINE newRow == [record[f] EXCEPT !.step = step]
    <2>1. newRow \in RecordRow /\ newRow.step = step /\ newRow.kind = record[f].kind
              /\ newRow.key = record[f].key
      BY <1>type DEF RecordRow
    <2>2. record' = [record EXCEPT ![f] = newRow]
      BY <1>move
    <2>3. newRow.key \in KeysOf(newRow.kind, f)
      BY <2>1, <1>type, <1>move DEF OwnKey
    <2> HIDE DEF newRow
    <2> QED
      BY <2>1, <2>2, <2>3, <1>move, RowStep
  <1>1. CASE UNCHANGED uploadsVars
    BY <1>1 DEF uploadsVars, UploadsInv, UploadsTypeOK, OwnKey, HasObject
  <1>2. ASSUME NEW f \in Files,
               CreateReceipt(f) \/ CreateDocument(f) \/ AttachProof(f)
        PROVE  UploadsInv'
    BY <1>2, <1>flush DEF CreateReceipt, CreateDocument, AttachProof, Kinds, KeysOf
  <1>3. ASSUME NEW f \in Files, NEW name \in Names, AttachEvidence(f, name)
        PROVE  UploadsInv'
    <2>1. "evidence" \in Kinds /\ name \in Files \cup Names /\ FlushRow(f, "evidence", name)
              /\ name \in KeysOf("evidence", f)
      BY <1>3 DEF AttachEvidence, Kinds, KeysOf
    <2> QED
      BY <2>1, <1>flush
  <1>4. ASSUME NEW f \in Files, PutObject(f) PROVE UploadsInv'
    BY <1>4, ObjectStep, UploadsConstants DEF PutObject, Steps
  <1>5. ASSUME NEW f \in Files, PutFails(f) PROVE UploadsInv'
    <2>1. PICK left \in {object[record[f].key]} \cup (IF Backend = "local" THEN {Torn} ELSE {}) :
              object' = [object EXCEPT ![record[f].key] = left]
      BY <1>5 DEF PutFails
    <2>2. record[f].key \in Files \cup Names
      BY <1>5, <1>type DEF PutFails, OwnKey, KeysOf
    <2>3. left \in Files \cup {Torn, NoFile}
              /\ (left = NoFile => object[record[f].key] = NoFile)
      BY <2>1, <2>2, <1>type, UploadsConstants DEF UploadsTypeOK
    <2> QED
      BY <2>1, <2>3, <1>5, ObjectStep DEF PutFails, Steps
  <1>6. ASSUME NEW f \in Files,
               CommitRow(f) \/ CommitFails(f) \/ DeleteReceipt(f) \/ DeleteDocument(f)
        PROVE  UploadsInv'
    BY <1>6, <1>move
       DEF CommitRow, MayCommit, CommitFails, DeleteReceipt, DeleteDocument, MarkDeleted, Steps
  <1>7. ASSUME NEW f \in Files, ReconcileReceipt(f) PROVE UploadsInv'
    <2> DEFINE newRow == [record[f] EXCEPT !.reconciled = TRUE]
    <2>1. newRow \in RecordRow /\ newRow.step = record[f].step /\ newRow.kind = record[f].kind
              /\ newRow.key = record[f].key
      BY <1>type DEF RecordRow
    <2>2. record' = [record EXCEPT ![f] = newRow] /\ object' = object
              /\ record[f].step = "live"
      BY <1>7 DEF ReconcileReceipt
    <2>3. newRow.key \in KeysOf(newRow.kind, f)
      BY <2>1, <2>2, <1>type DEF OwnKey
    <2> HIDE DEF newRow
    <2> QED
      BY <2>1, <2>2, <2>3, RowStep
  <1> QED
    BY <1>1, <1>2, <1>3, <1>4, <1>5, <1>6, <1>7 DEF UploadsNext

(* The row, the file and the commit may fail each alone, on either         *)
(* backend, and however many uploads run beside each other: a row that was *)
(* committed has its object (api/receipts.py, api/documents.py,            *)
(* api/budget.py and the payment proofs of api/invoices_public.py).        *)
THEOREM RowsHaveTheirFileAlways == UploadsSpec => []RowsHaveTheirFile
  <1>1. UploadsInv => RowsHaveTheirFile
    BY DEF UploadsInv, RowsHaveTheirFile, Kept, HasObject
  <1> QED
    BY <1>1, UploadsInitInv, UploadsStepInv, PTL DEF UploadsSpec

-----------------------------------------------------------------------------
(***************************************************************************)
(* Why a blocked client is let in again.  BlocksEnd is inductive given the *)
(* shape of the rows: INCR from zero leaves its worker on the way to the   *)
(* expiry, and every step that takes a worker off that way either sets the *)
(* expiry or is recorded as a leak.                                        *)
(***************************************************************************)
WorkerRow == [degraded: BOOLEAN, expiring: BOOLEAN, hits: [Ages -> Nat]]

RateTypeOK ==
    /\ counter \in [count: Nat, ttl: {NoExpiry} \cup 1..Window]
    /\ worker \in [Workers -> WorkerRow]
    /\ leaked \in BOOLEAN

RateInv == RateTypeOK /\ BlocksEnd

(* Capping the count keeps it a natural number, and a positive one.        *)
LEMMA CappedCount ==
    ASSUME NEW m \in Nat, NEW n \in Nat
    PROVE  Min({m, n}) \in {m, n}
  <1>1. \E x \in {m, n} : \A y \in {m, n} : x <= y
    <2>1. CASE m <= n
      BY <2>1
    <2>2. CASE n <= m
      BY <2>2
    <2> QED
      BY <2>1, <2>2
  <1> QED
    BY <1>1 DEF Min

(* Counting a hit, or not, keeps a worker's memory a function of the ages. *)
LEMMA HitsType ==
    ASSUME RateTypeOK, NEW w \in Workers
    PROVE  LocalHits(w) \in [Ages -> Nat]
  BY RateLimiterConstants DEF LocalHits, OneMore, RateTypeOK, WorkerRow, Ages

(* The key is absent and every worker fresh at the start.                  *)
LEMMA RateInitInv == RateInit => RateInv
  <1> SUFFICES ASSUME RateInit PROVE RateInv
    OBVIOUS
  <1>1. FreshWorker \in WorkerRow
    BY DEF FreshWorker, WorkerRow
  <1>2. NoCounter \in [count: Nat, ttl: {NoExpiry} \cup 1..Window] /\ NoCounter.count = 0
    BY DEF NoCounter
  <1>3. RateTypeOK
    BY <1>1, <1>2 DEF RateInit, RateTypeOK
  <1>4. BlocksEnd
    BY <1>2 DEF RateInit, BlocksEnd
  <1> QED
    BY <1>3, <1>4 DEF RateInv

(* Every step of the workers, and of time, keeps it.                       *)

(* Every step keeps the invariant.                                         *)
LEMMA RateStepInv == RateInv /\ [RateNext]_rateVars => RateInv'
  <1> SUFFICES ASSUME RateInv, [RateNext]_rateVars PROVE RateInv'
    OBVIOUS
  <1>type. RateTypeOK /\ \A v \in Workers : worker[v] \in WorkerRow
    BY DEF RateInv, RateTypeOK
  <1>1. CASE UNCHANGED rateVars
    BY <1>1 DEF rateVars, RateInv, RateTypeOK, BlocksEnd
  <1>2. ASSUME NEW w \in Workers, CheckRedis(w) PROVE RateInv'
    <2> DEFINE count == counter.count + 1
    <2>1. /\ counter' = [counter EXCEPT !.count = Min({count, Limit + 2})]
          /\ worker' = [worker EXCEPT ![w].expiring = count = 1]
          /\ leaked' = leaked
          /\ ~worker[w].expiring
      BY <1>2 DEF CheckRedis
    <2>2. count \in Nat /\ Limit + 2 \in Nat
      BY <1>type, RateLimiterConstants DEF RateTypeOK
    <2>3. Min({count, Limit + 2}) \in Nat
      BY <2>2, CappedCount
    <2>4. RateTypeOK'
      BY <2>1, <2>3, <1>type DEF RateTypeOK, WorkerRow
    <2>5. CASE counter.count = 0
      <3>1. count = 1
        BY <2>5
      <3>2. worker'[w].expiring = (count = 1)
        BY <2>1, <1>type DEF RateTypeOK, WorkerRow
      <3> QED
        BY <3>1, <3>2, <2>4 DEF RateInv, BlocksEnd
    <2>6. CASE counter.count # 0
      <3>1. counter.count > 0 /\ counter'.ttl = counter.ttl
        BY <2>6, <2>1, <1>type DEF RateTypeOK
      <3>2. \A v \in Workers : worker[v].expiring => worker'[v].expiring
        BY <2>1, <1>type DEF RateTypeOK, WorkerRow
      <3>3. BlocksEnd'
        BY <3>1, <3>2, <2>1 DEF RateInv, BlocksEnd
      <3> QED
        BY <3>3, <2>4 DEF RateInv
    <2> QED
      BY <2>5, <2>6
  <1>3. ASSUME NEW w \in Workers, SetExpiry(w) PROVE RateInv'
    <2>1. RateTypeOK'
      <3>1. worker' \in [Workers -> WorkerRow]
        BY <1>3, <1>type DEF SetExpiry, RateTypeOK, WorkerRow
      <3>2. counter' \in [count: Nat, ttl: {NoExpiry} \cup 1..Window]
        BY <1>3, <1>type, RateLimiterConstants DEF SetExpiry, WithExpiry, RateTypeOK
      <3> QED
        BY <3>1, <3>2, <1>3, <1>type DEF SetExpiry, RateTypeOK
    <2>2. counter'.count > 0 => counter'.ttl # NoExpiry
      BY <1>3, <1>type, RateLimiterConstants DEF SetExpiry, WithExpiry, RateTypeOK, NoExpiry
    <2> QED
      BY <2>1, <2>2 DEF RateInv, BlocksEnd
  <1>4. ASSUME NEW w \in Workers, CheckLocal(w) PROVE RateInv'
    <2>1. RateTypeOK'
      BY <1>4, <1>type, HitsType DEF CheckLocal, RateTypeOK, WorkerRow
    <2>2. \A v \in Workers : worker'[v].expiring = worker[v].expiring
      BY <1>4, <1>type DEF CheckLocal, RateTypeOK, WorkerRow
    <2>3. BlocksEnd'
      BY <1>4, <2>2 DEF CheckLocal, RateInv, BlocksEnd
    <2> QED
      BY <2>1, <2>3 DEF RateInv
  \* A worker that leaves the two calls half done leaks the counter.
  <1>gone. ASSUME NEW w \in Workers, NEW newRow \in WorkerRow,
                  worker' = [worker EXCEPT ![w] = newRow], counter' = counter,
                  leaked' = (leaked \/ worker[w].expiring)
           PROVE  RateInv'
    <2>1. RateTypeOK'
      BY <1>gone, <1>type DEF RateTypeOK, WorkerRow
    <2>2. \A v \in Workers : worker[v].expiring => worker'[v].expiring \/ leaked'
      BY <1>gone, <1>type DEF RateTypeOK
    <2>3. BlocksEnd'
      BY <1>gone, <2>2 DEF RateInv, BlocksEnd
    <2> QED
      BY <2>1, <2>3 DEF RateInv
  <1>5. ASSUME NEW w \in Workers, RedisFails(w) PROVE RateInv'
    <2> DEFINE newRow == [degraded |-> TRUE, expiring |-> FALSE, hits |-> LocalHits(w)]
    <2>1. newRow \in WorkerRow
      BY <1>type, HitsType DEF WorkerRow
    <2> QED
      BY <2>1, <1>5, <1>gone DEF RedisFails
  <1>6. ASSUME NEW w \in Workers, WorkerRestarts(w) PROVE RateInv'
    <2>1. FreshWorker \in WorkerRow
      BY DEF FreshWorker, WorkerRow
    <2> QED
      BY <2>1, <1>6, <1>gone DEF WorkerRestarts
  <1>7. CASE RateTick
    <2>1. \A v \in Workers : worker'[v].expiring = worker[v].expiring
      BY <1>7, <1>type DEF RateTick, WorkerRow
    <2>2. worker' \in [Workers -> WorkerRow]
      <3>1. ASSUME NEW f \in [Ages -> Nat] PROVE Aged(f) \in [Ages -> Nat]
        BY RateLimiterConstants DEF Aged, Ages
      <3> QED
        BY <3>1, <1>7, <1>type DEF RateTick, WorkerRow
    <2>3. counter' \in [count: Nat, ttl: {NoExpiry} \cup 1..Window]
      BY <1>7, <1>type, RateLimiterConstants DEF RateTick, RateTypeOK, NoCounter, NoExpiry
    <2>4. RateTypeOK'
      BY <2>2, <2>3, <1>7 DEF RateTick, RateTypeOK
    <2>5. ASSUME counter'.count > 0, counter'.ttl = NoExpiry
          PROVE  counter' = counter /\ counter' # NoCounter
      BY <2>5, <1>7, <1>type DEF RateTick, RateTypeOK, NoCounter, NoExpiry
    <2>6. BlocksEnd'
      BY <2>1, <2>5, <1>7 DEF RateTick, RateInv, BlocksEnd
    <2> QED
      BY <2>4, <2>6 DEF RateInv
  <1> QED
    BY <1>1, <1>2, <1>3, <1>4, <1>5, <1>6, <1>7 DEF RateNext

(* For any number of workers, any limit and any window: a counter that     *)
(* blocks a client has an expiry, or will be given one, unless a worker    *)
(* was lost between INCR and EXPIRE (auth/rate_limit.py, _check_redis).    *)
THEOREM BlocksAlwaysEnd == RateSpec => []BlocksEnd
  <1>1. RateInv => BlocksEnd
    BY DEF RateInv
  <1> QED
    BY <1>1, RateInitInv, RateStepInv, PTL DEF RateSpec

-----------------------------------------------------------------------------
(***************************************************************************)
(* Why Redis admits at most twice the limit.  What was admitted splits at  *)
(* an age: the younger requests were counted by the counter's present      *)
(* life, the older ones by the life before it.  A life that has an expiry  *)
(* lasts a whole window, so that the requests of the life before that have *)
(* left the window when it ends.                                           *)
(***************************************************************************)
SumUpTo(f, s) == SumFunctionOnSet(f, 0..(s - 1))
SumFrom(f, s) == SumFunctionOnSet(f, s..(Window - 1))

LifeSince(s) ==
    /\ SumUpTo(admitted, s) <= counter.count
    /\ SumUpTo(admitted, s) <= Limit
    /\ SumFrom(admitted, s) <= Limit
    /\ counter.ttl # NoExpiry => s + counter.ttl >= Window + 1

AdmissionsInv ==
    /\ admitted \in [Ages -> Nat]
    /\ \E s \in 1..Window : LifeSince(s)
    /\ \A w \in Workers : Total(worker[w].hits) <= Limit

(* The ages of a window are finitely many, and a part of them adds up to   *)
(* no more than the whole.                                                 *)
LEMMA AgesAreFinite ==
    ASSUME NEW f \in [Ages -> Nat]
    PROVE  /\ IsFiniteSet(Ages) /\ 0 \in Ages
           /\ \A T \in SUBSET Ages : IsFiniteSet(T) /\ SumFunctionOnSet(f, T) \in Nat
           /\ \A T \in SUBSET Ages : \A U \in SUBSET T :
                 SumFunctionOnSet(f, U) <= SumFunctionOnSet(f, T)
<1>1. IsFiniteSet(Ages) /\ 0 \in Ages
  BY FS_Interval, RateLimiterConstants DEF Ages
<1>2. ASSUME NEW T \in SUBSET Ages
      PROVE  /\ IsFiniteSet(T) /\ SumFunctionOnSet(f, T) \in Nat
             /\ \A U \in SUBSET T : SumFunctionOnSet(f, U) <= SumFunctionOnSet(f, T)
  <2>1. IsFiniteSet(T) /\ \A x \in T : f[x] \in Nat
    BY <1>1, FS_Subset
  <2> QED
    BY <2>1, SumIsNat, SumWithin
<1> QED
  BY <1>1, <1>2

(* As the window moves on, each age takes over the requests of the one     *)
(* before it.                                                              *)
LEMMA AgedSum ==
    ASSUME NEW f \in [Ages -> Nat], NEW n \in Nat, NEW T \in SUBSET (0..n),
           n + 1 \in Ages
    PROVE  SumFunctionOnSet(Aged(f), {x + 1 : x \in T}) = SumFunctionOnSet(f, T)
<1> DEFINE S == 0..n
           Up(U) == {x + 1 : x \in U}
           Sum(U) == SumFunctionOnSet(f, U)
           Moved(U) == SumFunctionOnSet(Aged(f), U)
           Good == {U \in SUBSET S : Moved(Up(U)) = Sum(U)}
<1>1. IsFiniteSet(S)
  BY FS_Interval
<1>2. /\ \A x \in S : /\ x \in Ages /\ x + 1 \in Ages
                      /\ f[x] \in Nat /\ Aged(f)[x + 1] = f[x]
      /\ \A x \in Ages : Aged(f)[x] \in Nat
  BY RateLimiterConstants DEF Ages, Aged
<1>3. {} \in Good
  <2>1. Up({}) = {} /\ Sum({}) = 0 /\ Moved({}) = 0
    BY SumEmpty
  <2> QED
    BY <2>1
<1>4. ASSUME NEW U \in SUBSET S, NEW x \in S, x \notin U, U \in Good
      PROVE  U \cup {x} \in Good
  <2>1. Up(U \cup {x}) = Up(U) \cup {x + 1} /\ x + 1 \notin Up(U) /\ Up(U) \subseteq Ages
    BY <1>2, <1>4
  <2>2. IsFiniteSet(U) /\ IsFiniteSet(Up(U))
    BY <1>1, <2>1, FS_Subset, AgesAreFinite
  <2>3. \A y \in U \cup {x} : f[y] \in Int
    BY <1>2
  <2>4. \A y \in Up(U) \cup {x + 1} : Aged(f)[y] \in Int
    BY <1>2, <2>1
  <2>5. Sum(U \cup {x}) = f[x] + Sum(U)
    BY <1>4, <2>2, <2>3, SumGrows
  <2>6. Moved(Up(U) \cup {x + 1}) = Aged(f)[x + 1] + Moved(Up(U))
    BY <2>1, <2>2, <2>4, SumGrows
  <2>7. Moved(Up(U)) = Sum(U)
    BY <1>4
  <2> QED
    BY <1>2, <2>1, <2>5, <2>6, <2>7
<1> HIDE DEF Good, S
<1>5. SUBSET S \subseteq Good
  BY <1>1, <1>3, <1>4, GrowingInduction
<1> QED
  BY <1>5 DEF Good, S

(* A window that moves on holds no more than before, in the ages below one *)
(* that moves with it, from there on, and altogether.                      *)
LEMMA AgedWindow ==
    ASSUME NEW f \in [Ages -> Nat], NEW s \in 1..Window,
           NEW t \in 1..Window, t = IF s < Window THEN s + 1 ELSE s
    PROVE  /\ Aged(f) \in [Ages -> Nat]
           /\ SumUpTo(Aged(f), t) <= SumUpTo(f, s)
           /\ SumFrom(Aged(f), t) <= SumFrom(f, s)
<1>1. /\ Window \in Nat /\ Window >= 1
      /\ Aged(f) \in [Ages -> Nat] /\ Aged(f)[0] = 0
  BY RateLimiterConstants DEF Aged, Ages
<1>2. SumUpTo(Aged(f), t) <= SumUpTo(f, s)
  <2>1. 0..(t - 1) \subseteq Ages /\ 0..(s - 1) \subseteq Ages /\ 0..(t - 2) \subseteq 0..(s - 1)
    BY <1>1 DEF Ages
  <2>2. 0..(t - 1) = {x + 1 : x \in 0..(t - 2)} \cup {0} /\ 0 \notin {x + 1 : x \in 0..(t - 2)}
    BY <1>1
  <2>3. {x + 1 : x \in 0..(t - 2)} \in SUBSET Ages
    BY <2>1, <2>2
  <2>4. IsFiniteSet({x + 1 : x \in 0..(t - 2)})
    BY <1>1, <2>3, AgesAreFinite
  <2>5. \A y \in {x + 1 : x \in 0..(t - 2)} \cup {0} : Aged(f)[y] \in Int
    BY <1>1, <2>1, <2>2
  <2>6. SumUpTo(Aged(f), t) = SumFunctionOnSet(Aged(f), {x + 1 : x \in 0..(t - 2)})
    <3> DEFINE Rest == {x + 1 : x \in 0..(t - 2)}
               g == Aged(f)
    <3>1. /\ 0..(t - 1) = Rest \cup {0} /\ 0 \notin Rest
          /\ IsFiniteSet(Rest) /\ Rest \in SUBSET Ages
          /\ g[0] = 0 /\ g \in [Ages -> Nat]
          /\ \A y \in Rest \cup {0} : g[y] \in Int
      BY <1>1, <2>2, <2>3, <2>4, <2>5
    <3> HIDE DEF Rest, g
    <3>2. SumFunctionOnSet(g, Rest \cup {0}) = g[0] + SumFunctionOnSet(g, Rest)
      BY <3>1, SumGrows
    <3>3. SumFunctionOnSet(g, Rest) \in Nat
      BY <3>1, AgesAreFinite
    <3>4. SumFunctionOnSet(g, Rest \cup {0}) = SumFunctionOnSet(g, Rest)
      <4> DEFINE x == SumFunctionOnSet(g, Rest)
                 y == SumFunctionOnSet(g, Rest \cup {0})
      <4>1. y = 0 + x /\ x \in Nat
        BY <3>1, <3>2, <3>3
      <4> HIDE DEF x, y
      <4>2. y = x
        BY <4>1
      <4> QED
        BY <4>2 DEF x, y
    <3>5. SumUpTo(g, t) = SumFunctionOnSet(g, Rest \cup {0})
      BY <3>1 DEF SumUpTo
    <3> QED
      BY <3>4, <3>5 DEF Rest, g
  <2>7. SumFunctionOnSet(f, 0..(t - 2)) <= SumUpTo(f, s)
    BY <2>1, AgesAreFinite DEF SumUpTo
  <2>8. SumFunctionOnSet(Aged(f), {x + 1 : x \in 0..(t - 2)}) = SumFunctionOnSet(f, 0..(t - 2))
    <3>1. CASE t = 1
      <4>1. 0..(t - 2) = {} /\ {x + 1 : x \in 0..(t - 2)} = {}
        BY <3>1
      <4> QED
        BY <4>1, SumEmpty
    <3>2. CASE t # 1
      <4>1. t - 2 \in Nat /\ (t - 2) + 1 \in Ages /\ 0..(t - 2) \in SUBSET (0..(t - 2))
        BY <1>1, <3>2 DEF Ages
      <4> QED
        BY <4>1, AgedSum
    <3> QED
      BY <3>1, <3>2
  <2> QED
    BY <2>6, <2>7, <2>8
<1>3. SumFrom(Aged(f), t) <= SumFrom(f, s)
  <2>1. CASE s = Window
    <3>1. t..(Window - 1) = {} /\ s..(Window - 1) = {}
      BY <1>1, <2>1
    <3>2. SumFrom(Aged(f), t) = SumFunctionOnSet(Aged(f), {}) /\ SumFrom(f, s) = SumFunctionOnSet(f, {})
      BY <3>1 DEF SumFrom
    <3>3. SumFunctionOnSet(Aged(f), {}) = 0 /\ SumFunctionOnSet(f, {}) = 0
      BY SumEmpty
    <3> QED
      BY <3>2, <3>3
  <2>2. CASE s < Window
    <3>1. t = s + 1
      BY <2>2
    <3>2. t..(Window - 1) = {x + 1 : x \in s..(Window - 2)}
      BY <1>1, <3>1
    <3>3. s..(Window - 2) \subseteq s..(Window - 1) /\ s..(Window - 1) \subseteq Ages
      BY <1>1 DEF Ages
    <3>4. SumFunctionOnSet(f, s..(Window - 2)) <= SumFrom(f, s)
      BY <3>3, AgesAreFinite DEF SumFrom
    <3>5. SumFunctionOnSet(Aged(f), {x + 1 : x \in s..(Window - 2)})
              = SumFunctionOnSet(f, s..(Window - 2))
      <4>1. Window - 2 \in Nat /\ (Window - 2) + 1 \in Ages
            /\ s..(Window - 2) \in SUBSET (0..(Window - 2))
        BY <1>1, <2>2 DEF Ages
      <4> QED
        BY <4>1, AgedSum
    <3>6. SumFrom(Aged(f), t) = SumFunctionOnSet(Aged(f), {x + 1 : x \in s..(Window - 2)})
      BY <3>2 DEF SumFrom
    <3> QED
      BY <3>4, <3>5, <3>6
  <2> QED
    BY <1>1, <2>1, <2>2
<1> QED
  BY <1>1, <1>2, <1>3

(* A window is its two parts.                                              *)
LEMMA WindowSplits ==
    ASSUME NEW f \in [Ages -> Nat], NEW s \in 1..Window
    PROVE  /\ SumUpTo(f, s) \in Nat /\ SumFrom(f, s) \in Nat
           /\ Total(f) = SumUpTo(f, s) + SumFrom(f, s)
<1>1. Window \in Nat /\ Window >= 1
  BY RateLimiterConstants
<1>2. /\ 0..(s - 1) \in SUBSET Ages /\ s..(Window - 1) \in SUBSET Ages
      /\ Ages = 0..(s - 1) \cup s..(Window - 1)
      /\ 0..(s - 1) \cap s..(Window - 1) = {}
  BY <1>1 DEF Ages
<1>3. SumUpTo(f, s) \in Nat /\ SumFrom(f, s) \in Nat
  BY <1>2, AgesAreFinite DEF SumUpTo, SumFrom
<1>4. IsFiniteSet(Ages) /\ \A x \in Ages : f[x] \in Int
  BY AgesAreFinite
<1>5. SumFunctionOnSet(f, Ages) = SumFunctionOnSet(f, Ages \cap 0..(s - 1))
                                   + SumFunctionOnSet(f, Ages \ 0..(s - 1))
  BY <1>4, SumSplit
<1>6. Ages \cap 0..(s - 1) = 0..(s - 1) /\ Ages \ 0..(s - 1) = s..(Window - 1)
  BY <1>2
<1> QED
  BY <1>3, <1>5, <1>6 DEF Total, SumUpTo, SumFrom

(* One more request now is one more in the younger part, and altogether.   *)
LEMMA OneMoreSum ==
    ASSUME NEW f \in [Ages -> Nat], NEW s \in 1..Window
    PROVE  /\ OneMore(f) \in [Ages -> Nat]
           /\ SumUpTo(OneMore(f), s) = SumUpTo(f, s) + 1
           /\ SumFrom(OneMore(f), s) = SumFrom(f, s)
<1>1. /\ Window \in Nat /\ Window >= 1 /\ 0 \in Ages
      /\ OneMore(f) \in [Ages -> Nat]
      /\ OneMore(f)[0] = f[0] + 1
      /\ \A x \in Ages : x # 0 => OneMore(f)[x] = f[x]
  BY RateLimiterConstants DEF OneMore, Ages
<1>2. 0..(s - 1) \in SUBSET Ages /\ s..(Window - 1) \in SUBSET Ages
  BY <1>1 DEF Ages
<1>3. SumUpTo(OneMore(f), s) = SumUpTo(f, s) + 1
  <2>1. 0 \in 0..(s - 1) /\ IsFiniteSet(0..(s - 1))
    BY <1>2, AgesAreFinite
  <2>2. /\ \A x \in 0..(s - 1) : f[x] \in Int /\ OneMore(f)[x] \in Int
        /\ \A x \in 0..(s - 1) : x # 0 => OneMore(f)[x] = f[x]
    BY <1>1, <1>2
  <2> DEFINE g == OneMore(f)
  <2>3. g[0] = f[0] + 1 /\ f[0] \in Nat
    BY <1>1
  <2> HIDE DEF g
  <2>4. SumFunctionOnSet(g, 0..(s - 1)) = SumFunctionOnSet(f, 0..(s - 1)) - f[0] + g[0]
    BY <2>1, <2>2, SumChange DEF g
  <2>5. SumFunctionOnSet(f, 0..(s - 1)) \in Nat
    BY <1>2, AgesAreFinite
  <2>6. SumFunctionOnSet(g, 0..(s - 1)) = SumFunctionOnSet(f, 0..(s - 1)) + 1
    BY <2>3, <2>4, <2>5
  <2> QED
    BY <2>6 DEF g, SumUpTo
<1>4. SumFrom(OneMore(f), s) = SumFrom(f, s)
  <2>1. IsFiniteSet(s..(Window - 1))
    BY <1>2, AgesAreFinite
  <2>2. \A x \in s..(Window - 1) : f[x] \in Int /\ OneMore(f)[x] = f[x]
    BY <1>1, <1>2
  <2> QED
    BY <2>1, <2>2, SumSame DEF SumFrom
<1> QED
  BY <1>1, <1>3, <1>4

(* A worker on its own never counts more than the limit, and what it       *)
(* counted leaves its window as time passes.                               *)
LEMMA LocalTotals ==
    ASSUME NEW f \in [Ages -> Nat], Total(f) <= Limit
    PROVE  /\ Total(Aged(f)) <= Limit
           /\ Total(f) < Limit => Total(OneMore(f)) <= Limit
<1>1. Window \in 1..Window /\ Window \in Nat /\ Limit \in Nat
  BY RateLimiterConstants
<1>2. /\ Aged(f) \in [Ages -> Nat]
      /\ SumUpTo(Aged(f), Window) <= SumUpTo(f, Window)
      /\ SumFrom(Aged(f), Window) <= SumFrom(f, Window)
  BY <1>1, AgedWindow
<1>3. /\ OneMore(f) \in [Ages -> Nat]
      /\ SumUpTo(OneMore(f), Window) = SumUpTo(f, Window) + 1
      /\ SumFrom(OneMore(f), Window) = SumFrom(f, Window)
  BY <1>1, OneMoreSum
<1> DEFINE a == SumUpTo(f, Window)
           b == SumFrom(f, Window)
           c == SumUpTo(Aged(f), Window)
           d == SumFrom(Aged(f), Window)
           e == SumUpTo(OneMore(f), Window)
<1>4. /\ a \in Nat /\ b \in Nat /\ Total(f) = a + b
      /\ c \in Nat /\ d \in Nat /\ Total(Aged(f)) = c + d
      /\ e \in Nat /\ Total(OneMore(f)) = e + SumFrom(OneMore(f), Window)
  BY <1>1, <1>2, <1>3, WindowSplits
<1>5. c <= a /\ d <= b /\ e = a + 1 /\ SumFrom(OneMore(f), Window) = b
  BY <1>2, <1>3
<1> HIDE DEF a, b, c, d, e
<1> QED
  BY <1>1, <1>4, <1>5

(* No request has been admitted at the start.                              *)
LEMMA AdmissionsInit == RateInit => AdmissionsInv
<1> SUFFICES ASSUME RateInit PROVE AdmissionsInv
  OBVIOUS
<1> DEFINE zero == [a \in Ages |-> 0]
<1>1. admitted = zero /\ zero \in [Ages -> Nat] /\ \A w \in Workers : worker[w].hits = zero
  BY DEF RateInit, FreshWorker
<1>2. \A T \in SUBSET Ages : SumFunctionOnSet(zero, T) = 0
  <2> SUFFICES ASSUME NEW T \in SUBSET Ages PROVE SumFunctionOnSet(zero, T) = 0
    OBVIOUS
  <2>1. /\ IsFiniteSet(T) /\ {} \in SUBSET T /\ \A x \in T : zero[x] \in Int
        /\ \A x \in T \ {} : zero[x] = 0
    BY <1>1, AgesAreFinite
  <2>2. SumFunctionOnSet(zero, T) = SumFunctionOnSet(zero, {})
    BY <2>1, SumAbsent
  <2> QED
    BY <2>2, SumEmpty
<1>3. 1 \in 1..Window /\ 0..(1 - 1) \in SUBSET Ages /\ 1..(Window - 1) \in SUBSET Ages
  BY RateLimiterConstants DEF Ages
<1>4. SumUpTo(zero, 1) = 0 /\ SumFrom(zero, 1) = 0 /\ Total(zero) = 0
  BY <1>2, <1>3 DEF SumUpTo, SumFrom, Total
<1> HIDE DEF zero
<1>5. LifeSince(1)
  BY <1>1, <1>4, RateLimiterConstants DEF LifeSince, RateInit, NoCounter
<1>6. \A w \in Workers : Total(worker[w].hits) <= Limit
  BY <1>1, <1>4, RateLimiterConstants
<1> QED
  BY <1>1, <1>3, <1>5, <1>6 DEF AdmissionsInv

(* What a worker counts on its own stays within the limit in every step.   *)
LEMMA LocalStep ==
    ASSUME AdmissionsInv, RateTypeOK, NEW w \in Workers,
           \/ CheckRedis(w) \/ SetExpiry(w) \/ CheckLocal(w)
           \/ RedisFails(w) \/ WorkerRestarts(w)
    PROVE  \A v \in Workers : Total(worker'[v].hits) <= Limit
<1>1. \A v \in Workers : worker[v].hits \in [Ages -> Nat] /\ Total(worker[v].hits) <= Limit
  BY DEF AdmissionsInv, RateTypeOK, WorkerRow
<1>2. Total(LocalHits(w)) <= Limit
  <2>1. CASE MayPassLocally(w)
    <3>1. Total(worker[w].hits) < Limit /\ LocalHits(w) = OneMore(worker[w].hits)
      BY <2>1 DEF MayPassLocally, LocalHits
    <3> QED
      BY <1>1, <3>1, LocalTotals
  <2>2. CASE ~MayPassLocally(w)
    BY <1>1, <2>2 DEF LocalHits
  <2> QED
    BY <2>1, <2>2
<1>3. Total(FreshWorker.hits) <= Limit
  <2> DEFINE zero == [a \in Ages |-> 0]
  <2>1. FreshWorker.hits = zero /\ zero \in [Ages -> Nat]
    BY DEF FreshWorker
  <2>2. /\ IsFiniteSet(Ages) /\ {} \in SUBSET Ages /\ \A x \in Ages : zero[x] \in Int
        /\ \A x \in Ages \ {} : zero[x] = 0
    BY <2>1, AgesAreFinite
  <2>3. SumFunctionOnSet(zero, Ages) = SumFunctionOnSet(zero, {})
    BY <2>2, SumAbsent
  <2> HIDE DEF zero
  <2> QED
    BY <2>1, <2>3, SumEmpty, RateLimiterConstants DEF Total
<1>4. \A v \in Workers : worker'[v].hits \in {worker[v].hits, LocalHits(w), FreshWorker.hits}
  BY DEF CheckRedis, SetExpiry, CheckLocal, RedisFails, WorkerRestarts, RateTypeOK, WorkerRow
<1> QED
  BY <1>1, <1>2, <1>3, <1>4

(* Redis admits a request only while the life that counts it has room.     *)
LEMMA AdmitStep ==
    ASSUME AdmissionsInv, RateTypeOK, NEW w \in Workers, CheckRedis(w)
    PROVE  admitted' \in [Ages -> Nat] /\ \E s \in 1..Window : LifeSince(s)'
<1> DEFINE count == counter.count + 1
<1>1. PICK s \in 1..Window : LifeSince(s)
  BY DEF AdmissionsInv
<1>2. /\ counter' = [counter EXCEPT !.count = Min({count, Limit + 2})]
      /\ admitted' = IF count <= Limit THEN OneMore(admitted) ELSE admitted
  BY DEF CheckRedis, Admits
<1>3. /\ count \in Nat /\ Limit + 2 \in Nat /\ Limit \in Nat
      /\ counter \in [count: Nat, ttl: {NoExpiry} \cup 1..Window]
  BY RateLimiterConstants DEF RateTypeOK
<1>4. /\ counter'.count \in {count, Limit + 2}
      /\ counter'.ttl = counter.ttl
  BY <1>2, <1>3, CappedCount
<1>5. /\ admitted \in [Ages -> Nat]
      /\ SumUpTo(admitted, s) \in Nat /\ SumFrom(admitted, s) \in Nat
      /\ OneMore(admitted) \in [Ages -> Nat]
      /\ SumUpTo(OneMore(admitted), s) = SumUpTo(admitted, s) + 1
      /\ SumFrom(OneMore(admitted), s) = SumFrom(admitted, s)
  BY OneMoreSum, WindowSplits DEF AdmissionsInv
<1> DEFINE a == SumUpTo(admitted, s)
<1>6. a <= counter.count /\ a <= Limit /\ SumFrom(admitted, s) <= Limit
      /\ (counter.ttl # NoExpiry => s + counter.ttl >= Window + 1)
  BY <1>1 DEF LifeSince
<1>7. CASE count <= Limit
  <2>1. SumUpTo(admitted', s) = a + 1 /\ SumFrom(admitted', s) <= Limit
    BY <1>2, <1>5, <1>6, <1>7
  <2>2. a + 1 <= counter'.count /\ a + 1 <= Limit
    BY <1>3, <1>4, <1>5, <1>6, <1>7
  <2>3. LifeSince(s)'
    BY <1>4, <1>6, <2>1, <2>2 DEF LifeSince
  <2> QED
    BY <1>2, <1>5, <1>7, <2>3
<1>8. CASE ~(count <= Limit)
  <2>1. a <= counter'.count
    BY <1>3, <1>4, <1>5, <1>6
  <2>2. admitted' = admitted
    BY <1>2, <1>8
  <2>3. LifeSince(s)'
    BY <1>4, <1>6, <2>1, <2>2 DEF LifeSince
  <2> QED
    BY <1>5, <2>2, <2>3
<1> QED
  BY <1>7, <1>8

(* A life that ends has lasted a window: what is left was admitted by it.  *)
LEMMA ExpiryStep ==
    ASSUME AdmissionsInv, RateTypeOK, RateTick
    PROVE  admitted' \in [Ages -> Nat] /\ \E s \in 1..Window : LifeSince(s)'
<1>1. PICK s \in 1..Window : LifeSince(s)
  BY DEF AdmissionsInv
<1> DEFINE t == IF s < Window THEN s + 1 ELSE s
<1>2. /\ t \in 1..Window /\ Window \in Nat /\ Window >= 1 /\ Limit \in Nat /\ 1 \in 1..Window
      /\ admitted \in [Ages -> Nat] /\ admitted' = Aged(admitted)
      /\ counter \in [count: Nat, ttl: {NoExpiry} \cup 1..Window]
  BY RateLimiterConstants DEF RateTypeOK, AdmissionsInv, RateTick
<1>3. /\ admitted' \in [Ages -> Nat]
      /\ SumUpTo(admitted', t) <= SumUpTo(admitted, s)
      /\ SumFrom(admitted', t) <= SumFrom(admitted, s)
  BY <1>2, AgedWindow
<1>4. /\ SumUpTo(admitted, s) \in Nat /\ SumFrom(admitted, s) \in Nat
      /\ SumUpTo(admitted', t) \in Nat /\ SumFrom(admitted', t) \in Nat
      /\ SumUpTo(admitted', 1) \in Nat /\ SumFrom(admitted', 1) \in Nat
      /\ Total(admitted') = SumUpTo(admitted', t) + SumFrom(admitted', t)
      /\ Total(admitted') = SumUpTo(admitted', 1) + SumFrom(admitted', 1)
  BY <1>2, <1>3, WindowSplits
<1>5. CASE counter.ttl = 1
  <2>1. s = Window
    BY <1>1, <1>2, <1>5 DEF LifeSince, NoExpiry
  <2>2. SumFrom(admitted', t) = 0
    <3>1. t..(Window - 1) = {}
      BY <1>2, <2>1
    <3> QED
      BY <3>1, SumEmpty DEF SumFrom
  <2>3. SumUpTo(admitted', 1) = 0
    <3>1. admitted'[0] = 0 /\ 0..(1 - 1) = {0} /\ {0} \in SUBSET Ages
      BY <1>2 DEF Aged, Ages
    <3>2. IsFiniteSet({0}) /\ \A x \in {0} : admitted'[x] \in Int
      BY <3>1, <1>3, AgesAreFinite
    <3>3. SumFunctionOnSet(admitted', {0}) = SumFunctionOnSet(admitted', {})
      BY <3>1, <3>2, SumAbsent
    <3> QED
      BY <3>1, <3>3, SumEmpty DEF SumUpTo
  <2>4. SumFrom(admitted', 1) <= Limit
    BY <1>1, <1>2, <1>3, <1>4, <2>2, <2>3 DEF LifeSince
  <2>5. counter' = NoCounter
    BY <1>5 DEF RateTick
  <2>6. LifeSince(1)'
    BY <1>2, <2>3, <2>4, <2>5 DEF LifeSince, NoCounter, NoExpiry
  <2> QED
    BY <1>2, <1>3, <2>6
<1>6. CASE counter.ttl # 1
  <2>1. /\ counter'.count = counter.count
        /\ counter'.ttl # NoExpiry => counter.ttl # NoExpiry /\ counter'.ttl = counter.ttl - 1
    BY <1>2, <1>6 DEF RateTick, NoExpiry
  <2>2. counter'.ttl # NoExpiry => t + counter'.ttl >= Window + 1
    BY <1>1, <1>2, <1>6, <2>1 DEF LifeSince, NoExpiry
  <2>3. /\ SumUpTo(admitted, s) <= counter.count
        /\ SumUpTo(admitted, s) <= Limit /\ SumFrom(admitted, s) <= Limit
    BY <1>1 DEF LifeSince
  <2>4. /\ SumUpTo(admitted', t) <= counter'.count
        /\ SumUpTo(admitted', t) <= Limit /\ SumFrom(admitted', t) <= Limit
    BY <1>2, <1>3, <1>4, <2>1, <2>3
  <2> HIDE DEF t
  <2>5. LifeSince(t)'
    BY <2>2, <2>4 DEF LifeSince
  <2> QED
    BY <1>2, <1>3, <2>5
<1> QED
  BY <1>5, <1>6

(* Every step of the workers, and of time, keeps both bounds.              *)
LEMMA AdmissionsStep ==
    AdmissionsInv /\ RateInv /\ [RateNext]_rateVars => AdmissionsInv'
<1> SUFFICES ASSUME AdmissionsInv, RateInv, [RateNext]_rateVars PROVE AdmissionsInv'
  OBVIOUS
<1>1. RateTypeOK
  BY DEF RateInv
<1>2. ASSUME NEW w \in Workers, CheckRedis(w) PROVE AdmissionsInv'
  BY <1>1, <1>2, LocalStep, AdmitStep DEF AdmissionsInv
<1>3. ASSUME NEW w \in Workers, SetExpiry(w) PROVE AdmissionsInv'
  <2>1. PICK s \in 1..Window : LifeSince(s)
    BY DEF AdmissionsInv
  <2>2. admitted' = admitted /\ counter' = WithExpiry(counter)
    BY <1>3 DEF SetExpiry
  <2>3. /\ counter'.count = counter.count
        /\ counter'.ttl # NoExpiry => counter'.ttl = counter.ttl \/ counter'.ttl = Window
    BY <1>1, <2>2 DEF WithExpiry, RateTypeOK
  <2>4. s + Window >= Window + 1
    BY RateLimiterConstants
  <2>5. LifeSince(s)'
    BY <2>1, <2>2, <2>3, <2>4 DEF LifeSince
  <2> QED
    BY <1>1, <1>3, <2>2, <2>5, LocalStep DEF AdmissionsInv
<1>4. ASSUME NEW w \in Workers, CheckLocal(w) \/ RedisFails(w) \/ WorkerRestarts(w)
      PROVE  AdmissionsInv'
  <2>1. UNCHANGED <<admitted, counter>>
    BY <1>4 DEF CheckLocal, RedisFails, WorkerRestarts
  <2>2. \A s \in 1..Window : LifeSince(s) => LifeSince(s)'
    BY <2>1 DEF LifeSince
  <2> QED
    BY <1>1, <1>4, <2>1, <2>2, LocalStep DEF AdmissionsInv
<1>5. CASE RateTick
  <2>1. \A v \in Workers : worker[v].hits \in [Ages -> Nat]
    BY <1>1 DEF RateTypeOK, WorkerRow
  <2>2. \A v \in Workers : worker'[v].hits = Aged(worker[v].hits)
    BY <1>1, <1>5 DEF RateTick, RateTypeOK, WorkerRow
  <2>3. \A v \in Workers : Total(worker'[v].hits) <= Limit
    BY <2>1, <2>2, LocalTotals DEF AdmissionsInv
  <2> QED
    BY <1>1, <1>5, <2>3, ExpiryStep DEF AdmissionsInv
<1>6. CASE UNCHANGED rateVars
  BY <1>6 DEF rateVars, AdmissionsInv, LifeSince
<1> QED
  BY <1>2, <1>3, <1>4, <1>5, <1>6 DEF RateNext

(* For any number of workers, any limit and any window, Redis admits at    *)
(* most twice the limit in one window's time and a degraded worker at most *)
(* the limit (auth/rate_limit.py: the NOTE in _check_redis, _check_local). *)
THEOREM AtMostTwiceAlways == RateSpec => []AdmitsAtMostTwice
<1>1. AdmissionsInv => AdmitsAtMostTwice
  <2> SUFFICES ASSUME AdmissionsInv PROVE AdmitsAtMostTwice
    OBVIOUS
  <2>1. PICK s \in 1..Window : LifeSince(s)
    BY DEF AdmissionsInv
  <2> DEFINE a == SumUpTo(admitted, s)
             b == SumFrom(admitted, s)
  <2>2. a \in Nat /\ b \in Nat /\ Total(admitted) = a + b
    BY WindowSplits DEF AdmissionsInv
  <2>3. a <= Limit /\ b <= Limit /\ Limit \in Nat
    BY <2>1, RateLimiterConstants DEF LifeSince
  <2> HIDE DEF a, b
  <2>4. Total(admitted) <= 2 * Limit
    BY <2>2, <2>3
  <2> QED
    BY <2>4 DEF AdmissionsInv, AdmitsAtMostTwice
<1> QED
  BY <1>1, RateInitInv, RateStepInv, AdmissionsInit, AdmissionsStep, PTL DEF RateSpec

-----------------------------------------------------------------------------
(***************************************************************************)
(* Why a series has one head and keeps its periods.  The cycles form a     *)
(* line: each was spawned by the one before it, and only the last carries  *)
(* the series on.  A run that has claimed the last one holds its row, so   *)
(* that no other run has claimed it too, and the line grows by one cycle   *)
(* at a time, due one interval after the cycle that was the last.          *)
(***************************************************************************)
CycleRow == [status: CycleStatus, recurring: BOOLEAN, due: Nat \X Nat, parent: Nat]

RecurrenceShapeOK ==
    /\ cycle \in [Cycles -> CycleRow]
    /\ interval \in Intervals
    /\ reached \subseteq {c \in Cycles : Exists(c)}
    /\ job \in [Jobs -> JobRow]

\* The series has n cycles.
InLine(n) ==
    \A c \in Cycles :
        /\ Exists(c) <=> c <= n
        /\ cycle[c].recurring <=> c = n
        /\ c <= n => cycle[c].parent = c - 1

Holds(j) == job[j].late \cup job[j].due

ClaimsOK ==
    /\ \A j \in Jobs : /\ job[j].late \subseteq reached
                       /\ job[j].due \subseteq {c \in Cycles : cycle[c].recurring}
                       /\ job[j].step # "claimed" => job[j].due = {}
    /\ \A j, k \in Jobs :
          j # k /\ job[j].step = "claimed" /\ job[k].step = "claimed"
              => Holds(j) \cap Holds(k) = {}

\* p's successor is due on d.
Follows(d, p) ==
    /\ IsDate(d)
    /\ IF interval = "weekly"
       THEN (d[1] - p[1]) * DaysIn(p[1]) + d[2] - p[2] = 7
       ELSE /\ d[1] = p[1] + MonthSteps[interval]
            /\ d[2] = p[2] \/ (d[2] < p[2] /\ d[2] = DaysIn(d[1]))

DatesOK ==
    \A c \in Cycles : Exists(c) =>
        /\ IsDate(cycle[c].due)
        /\ cycle[c].parent # 0 => Follows(cycle[c].due, cycle[cycle[c].parent].due)

RecurrenceInv ==
    /\ RecurrenceShapeOK
    /\ \E n \in Cycles : InLine(n)
    /\ ClaimsOK
    /\ DatesOK

(* The smaller of two numbers is one of them and exceeds neither.          *)
LEMMA LesserOfTwo ==
    ASSUME NEW m \in Int, NEW n \in Int
    PROVE  Min({m, n}) = IF m <= n THEN m ELSE n
<1>1. ASSUME NEW x \in {m, n}, \A y \in {m, n} : x <= y
      PROVE  x = IF m <= n THEN m ELSE n
  BY <1>1
<1>2. \E x \in {m, n} : \A y \in {m, n} : x <= y
  <2>1. CASE m <= n
    BY <2>1
  <2>2. CASE n <= m
    BY <2>2
  <2> QED
    BY <2>1, <2>2
<1> QED
  BY <1>1, <1>2 DEF Min

(* A month has 28 days at least, and finitely many.                        *)
LEMMA MonthLength == ASSUME NEW m \in Nat PROVE DaysIn(m) \in 28..31
  BY DEF DaysIn

(* What is due an interval later is a date, in the right period.           *)
LEMMA AdvanceFollows ==
    ASSUME NEW p \in Nat \X Nat, IsDate(p), interval \in Intervals
    PROVE  /\ Advance(p, interval) \in Nat \X Nat
           /\ Follows(Advance(p, interval), p)
<1> DEFINE m == p[1]
           n == p[2]
<1>1. m \in Nat /\ n \in Nat /\ n \in 1..DaysIn(m) /\ DaysIn(m) \in 28..31
  BY MonthLength DEF IsDate
<1>2. CASE interval = "weekly"
  <2>1. CASE n + 7 <= DaysIn(m)
    <3>1. Advance(p, interval) = <<m, n + 7>>
      BY <1>2, <2>1 DEF Advance
    <3>2. (m - m) * DaysIn(m) + (n + 7) - n = 7
      <4>1. m - m = 0 /\ 0 * DaysIn(m) = 0
        BY <1>1
      <4> QED
        BY <1>1, <4>1
    <3> QED
      BY <1>1, <1>2, <2>1, <3>1, <3>2 DEF Follows, IsDate
  <2>2. CASE ~(n + 7 <= DaysIn(m))
    <3>1. Advance(p, interval) = <<m + 1, n + 7 - DaysIn(m)>>
      BY <1>2, <2>2 DEF Advance
    <3>2. DaysIn(m + 1) \in 28..31 /\ n + 7 - DaysIn(m) \in 1..7
      BY <1>1, <2>2, MonthLength
    <3>3. (m + 1 - m) * DaysIn(m) + (n + 7 - DaysIn(m)) - n = 7
      <4>1. m + 1 - m = 1 /\ 1 * DaysIn(m) = DaysIn(m)
        BY <1>1
      <4> QED
        BY <1>1, <4>1
    <3> DEFINE d == Advance(p, interval)
               len == DaysIn(m)
    <3>4. d[1] = m + 1 /\ d[2] = n + 7 - len /\ d = <<d[1], d[2]>>
      BY <3>1
    <3>5. d[2] \in 1..7 /\ d[1] \in Nat
      BY <1>1, <3>2, <3>4
    <3>6. d \in Nat \X Nat /\ d[2] \in 1..DaysIn(d[1])
      BY <3>2, <3>4, <3>5
    <3>7. (d[1] - m) * len + d[2] - n = 7
      BY <3>3, <3>4
    <3> HIDE DEF d
    <3> QED
      BY <1>2, <3>6, <3>7 DEF Follows, IsDate, d
  <2> QED
    BY <2>1, <2>2
<1>3. CASE interval # "weekly"
  <2> DEFINE k == MonthSteps[interval]
  <2>1. k \in Nat
    BY <1>3, RecurrenceConstants DEF MonthSteps
  <2>2. Advance(p, interval) = <<m + k, Min({n, DaysIn(m + k)})>>
    BY <1>3 DEF Advance, ClampedDay
  <2>3. m + k \in Nat /\ DaysIn(m + k) \in 28..31
    BY <1>1, <2>1, MonthLength
  <2>4. Min({n, DaysIn(m + k)}) = IF n <= DaysIn(m + k) THEN n ELSE DaysIn(m + k)
    BY <1>1, <2>3, LesserOfTwo
  <2> HIDE DEF k
  <2>5. /\ Min({n, DaysIn(m + k)}) \in 1..DaysIn(m + k)
        /\ Min({n, DaysIn(m + k)}) \in Nat
        /\ \/ Min({n, DaysIn(m + k)}) = n
           \/ Min({n, DaysIn(m + k)}) < n /\ Min({n, DaysIn(m + k)}) = DaysIn(m + k)
    BY <1>1, <2>3, <2>4
  <2> QED
    BY <1>1, <1>3, <2>1, <2>2, <2>3, <2>5 DEF Follows, IsDate, k
<1> QED
  BY <1>2, <1>3

(* A series starts with its first cycle, a draft.                          *)
LEMMA RecurrenceInitInv == RecurrenceInit => RecurrenceInv
<1> SUFFICES ASSUME RecurrenceInit PROVE RecurrenceInv
  OBVIOUS
<1>1. PICK d \in FirstDues : cycle = [c \in Cycles |->
          IF c = 1 THEN [status |-> "draft", recurring |-> TRUE, due |-> d, parent |-> 0]
                   ELSE NoCycle]
  BY DEF RecurrenceInit
<1>2. 1 \in Cycles /\ d \in Nat \X Nat /\ IsDate(d)
  BY RecurrenceConstants DEF Cycles
<1>3. \A c \in Cycles : /\ cycle[c] \in CycleRow
                        /\ Exists(c) <=> c = 1
                        /\ cycle[c].recurring <=> c = 1
                        /\ c = 1 => cycle[c].due = d
                        /\ cycle[c].parent = 0
  BY <1>1, <1>2 DEF CycleRow, CycleStatus, NoCycle, Exists
<1>4. RecurrenceShapeOK
  BY <1>1, <1>3 DEF RecurrenceInit, RecurrenceShapeOK, JobRow, NoJob
<1>5. InLine(1)
  BY <1>3 DEF InLine, Cycles
<1>6. ClaimsOK
  BY DEF RecurrenceInit, ClaimsOK, NoJob
<1>7. DatesOK
  BY <1>2, <1>3 DEF DatesOK
<1> QED
  BY <1>2, <1>4, <1>5, <1>6, <1>7 DEF RecurrenceInv

(* A cycle that changes its status, or falls due, stays in line.           *)
LEMMA CycleStep ==
    ASSUME RecurrenceInv, NEW c \in Cycles,
           \/ SendCycle(c) \/ PayCycle(c) \/ VoidCycle(c) \/ RefundCycle(c) \/ FallsDue(c)
    PROVE  RecurrenceInv'
<1>1. RecurrenceShapeOK
  BY DEF RecurrenceInv
<1>2. /\ job' = job /\ interval' = interval
      /\ reached \subseteq reached'
      /\ cycle' \in [Cycles -> CycleRow]
      /\ \A d \in Cycles : /\ cycle'[d].recurring = cycle[d].recurring
                           /\ cycle'[d].due = cycle[d].due
                           /\ cycle'[d].parent = cycle[d].parent
                           /\ cycle'[d].status # "absent" <=> cycle[d].status # "absent"
  <2>1. ASSUME NEW from \in SUBSET (CycleStatus \ {"absent"}), NEW to \in CycleStatus \ {"absent"},
               Moves(c, from, to)
        PROVE  /\ UNCHANGED <<job, interval, reached>>
               /\ cycle' \in [Cycles -> CycleRow]
               /\ \A d \in Cycles : /\ cycle'[d].recurring = cycle[d].recurring
                                    /\ cycle'[d].due = cycle[d].due
                                    /\ cycle'[d].parent = cycle[d].parent
                                    /\ cycle'[d].status # "absent" <=> cycle[d].status # "absent"
    BY <1>1, <2>1 DEF Moves, RecurrenceShapeOK, CycleRow
  <2>2. CASE SendCycle(c) \/ PayCycle(c) \/ VoidCycle(c) \/ RefundCycle(c)
    <3>1. \E from \in SUBSET (CycleStatus \ {"absent"}), to \in CycleStatus \ {"absent"} :
              Moves(c, from, to)
      BY <2>2 DEF SendCycle, PayCycle, VoidCycle, RefundCycle, CycleStatus
    <3> QED
      BY <2>1, <3>1
  <2>3. CASE FallsDue(c)
    BY <1>1, <2>3 DEF FallsDue, RecurrenceShapeOK
  <2> QED
    BY <2>2, <2>3
<1>3. reached' \subseteq {d \in Cycles : Exists(d)}'
  <2>1. reached' \subseteq reached \cup {c} /\ (reached' # reached => Exists(c))
    BY DEF FallsDue, SendCycle, PayCycle, VoidCycle, RefundCycle, Moves
  <2> QED
    BY <1>1, <1>2, <2>1 DEF RecurrenceShapeOK, Exists
<1>4. RecurrenceShapeOK'
  BY <1>1, <1>2, <1>3 DEF RecurrenceShapeOK
<1>5. \A n \in Cycles : InLine(n) => InLine(n)'
  BY <1>2 DEF InLine, Exists
<1>6. ClaimsOK'
  BY <1>2 DEF RecurrenceInv, ClaimsOK, Holds
<1>7. DatesOK'
  <2> SUFFICES ASSUME NEW d \in Cycles, Exists(d)'
               PROVE  /\ IsDate(cycle'[d].due)
                      /\ cycle'[d].parent # 0 => Follows(cycle[d].due, cycle[cycle[d].parent].due)'
    BY DEF DatesOK
  <2>1. /\ IsDate(cycle[d].due)
        /\ cycle[d].parent # 0 => Follows(cycle[d].due, cycle[cycle[d].parent].due)
    BY <1>2 DEF RecurrenceInv, DatesOK, Exists
  <2>2. cycle[d].parent # 0 => cycle[d].parent \in Cycles
    <3>1. PICK n \in Cycles : InLine(n)
      BY DEF RecurrenceInv
    <3>2. cycle[d].status # "absent"
      BY <1>2 DEF Exists
    <3>3. cycle[d].parent = d - 1
      BY <3>1, <3>2 DEF InLine, Exists
    <3> QED
      BY <3>3, RecurrenceConstants DEF Cycles
  <2> QED
    BY <1>2, <2>1, <2>2 DEF Follows
<1> QED
  BY <1>4, <1>5, <1>6, <1>7 DEF RecurrenceInv

(* A run that only reads, claims what nobody holds, or ends without a      *)
(* trace, leaves the series as it is.                                      *)
LEMMA JobStep ==
    ASSUME RecurrenceInv, NEW j \in Jobs, NEW newRow \in JobRow,
           job' = [job EXCEPT ![j] = newRow],
           UNCHANGED <<cycle, interval, reached>>,
           newRow.late \subseteq reached,
           newRow.due \subseteq {c \in Cycles : cycle[c].recurring},
           newRow.step # "claimed" => newRow.due = {},
           newRow.step = "claimed" => (newRow.late \cup newRow.due) \cap HeldByOthers(j) = {}
    PROVE  RecurrenceInv'
<1>1. /\ job \in [Jobs -> JobRow] /\ job' \in [Jobs -> JobRow]
      /\ job'[j] = newRow
      /\ \A k \in Jobs \ {j} : job'[k] = job[k]
  BY DEF RecurrenceInv, RecurrenceShapeOK
<1>2. RecurrenceShapeOK' /\ DatesOK' /\ \E n \in Cycles : InLine(n)'
  BY <1>1 DEF RecurrenceInv, RecurrenceShapeOK, DatesOK, Follows, InLine, Exists
<1>3. \A k \in Jobs \ {j} : job[k].step = "claimed" => Holds(k) \subseteq HeldByOthers(j)
  BY DEF HeldByOthers, Holds
<1>4. ClaimsOK'
  <2>1. \A k \in Jobs : /\ job'[k].late \subseteq reached
                        /\ job'[k].due \subseteq {c \in Cycles : cycle[c].recurring}
                        /\ job'[k].step # "claimed" => job'[k].due = {}
    BY <1>1 DEF RecurrenceInv, ClaimsOK
  <2>2. ASSUME NEW k \in Jobs, NEW l \in Jobs, k # l,
               job'[k].step = "claimed", job'[l].step = "claimed"
        PROVE  Holds(k)' \cap Holds(l)' = {}
    <3>1. CASE k = j
      BY <1>1, <1>3, <2>2, <3>1 DEF Holds
    <3>2. CASE l = j
      BY <1>1, <1>3, <2>2, <3>2 DEF Holds
    <3>3. CASE k # j /\ l # j
      BY <1>1, <2>2, <3>3 DEF Holds, RecurrenceInv, ClaimsOK
    <3> QED
      BY <3>1, <3>2, <3>3
  <2> QED
    BY <2>1, <2>2 DEF ClaimsOK
<1> QED
  BY <1>2, <1>4 DEF RecurrenceInv

(* The commit of a run that claimed the last cycle adds one to the line;   *)
(* that of any other run leaves it.                                        *)
LEMMA CommitJob ==
    ASSUME RecurrenceInv, NEW j \in Jobs, JobCommits(j)
    PROVE  RecurrenceInv'
<1> DEFINE late == job[j].late
           due == job[j].due
<1>1. PICK n \in Cycles : InLine(n)
  BY DEF RecurrenceInv
<1>2. /\ cycle \in [Cycles -> CycleRow] /\ interval \in Intervals
      /\ job \in [Jobs -> JobRow]
      /\ late \subseteq reached /\ reached \subseteq {c \in Cycles : Exists(c)}
      /\ due \subseteq {n}
      /\ MaxCycles \in Nat /\ n \in 1..MaxCycles
      /\ job[j].step = "claimed" /\ UNCHANGED <<interval, reached>>
      /\ job' = [job EXCEPT ![j] = NoJob]
  BY <1>1, RecurrenceConstants
     DEF RecurrenceInv, RecurrenceShapeOK, ClaimsOK, JobCommits, InLine, Cycles
<1>3. NextId = n + 1
  <2>1. {c \in Cycles : Exists(c)} = 1..n
    BY <1>1, <1>2 DEF InLine, Cycles
  <2>2. Cardinality(1..n) = n
    BY <1>2, FS_Interval
  <2>3. Cardinality({c \in Cycles : Exists(c)}) = n
    BY <2>1, <2>2
  <2> QED
    BY <1>2, <2>3 DEF NextId
<1>4. late \subseteq 1..n
  <2> SUFFICES ASSUME NEW c \in late PROVE c \in 1..n
    OBVIOUS
  <2>1. c \in Cycles /\ Exists(c)
    BY <1>2
  <2>2. c <= n
    BY <1>1, <2>1 DEF InLine
  <2> QED
    BY <1>2, <2>1, <2>2 DEF Cycles
<1> DEFINE Row(c) == [cycle[c] EXCEPT !.status = IF c \in late THEN "overdue" ELSE @,
                                      !.recurring = IF c \in due THEN FALSE ELSE @]
           next == [status |-> "draft", recurring |-> TRUE, parent |-> Max(due),
                    due |-> Advance(cycle[Max(due)].due, interval)]
<1>5. /\ due # {} => n + 1 \in Cycles
      /\ cycle' = [c \in Cycles |-> IF c \in late \cup due THEN Row(c)
                                    ELSE IF c = n + 1 /\ due # {} THEN next
                                    ELSE cycle[c]]
  BY <1>3 DEF JobCommits, RecurringOnceSpawned
<1>6. \A c \in Cycles :
          /\ Row(c) \in CycleRow
          /\ c <= n => Row(c).status # "absent"
          /\ Row(c).recurring = (IF c \in due THEN FALSE ELSE cycle[c].recurring)
          /\ Row(c).due = cycle[c].due
          /\ Row(c).parent = cycle[c].parent
  <2> SUFFICES ASSUME NEW c \in Cycles
               PROVE  /\ Row(c) \in CycleRow
                      /\ c <= n => Row(c).status # "absent"
                      /\ Row(c).recurring = (IF c \in due THEN FALSE ELSE cycle[c].recurring)
                      /\ Row(c).due = cycle[c].due
                      /\ Row(c).parent = cycle[c].parent
    OBVIOUS
  <2>1. /\ cycle[c] \in CycleRow
        /\ c <= n => cycle[c].status # "absent"
    BY <1>1, <1>2 DEF InLine, Exists
  <2> QED
    BY <2>1 DEF CycleRow, CycleStatus
<1>7. \A c \in 1..n : /\ c \in Cycles
                      /\ cycle'[c] = IF c \in late \cup due THEN Row(c) ELSE cycle[c]
  <2> SUFFICES ASSUME NEW c \in 1..n
               PROVE  /\ c \in Cycles
                      /\ cycle'[c] = IF c \in late \cup due THEN Row(c) ELSE cycle[c]
    OBVIOUS
  <2>1. c \in Cycles /\ c # n + 1
    BY <1>2 DEF Cycles
  <2> HIDE DEF Row, next
  <2> QED
    BY <1>5, <2>1
<1>8. \A c \in 1..n : /\ cycle'[c] \in CycleRow
                      /\ cycle'[c].status # "absent"
                      /\ cycle'[c].recurring <=> (c = n /\ c \notin due)
                      /\ cycle'[c].due = cycle[c].due
                      /\ cycle'[c].parent = c - 1
  <2> SUFFICES ASSUME NEW c \in 1..n
               PROVE  /\ cycle'[c] \in CycleRow
                      /\ cycle'[c].status # "absent"
                      /\ cycle'[c].recurring <=> (c = n /\ c \notin due)
                      /\ cycle'[c].due = cycle[c].due
                      /\ cycle'[c].parent = c - 1
    OBVIOUS
  <2>0. c \in Cycles /\ c <= n
    <3>1. n \in Nat
      BY <1>2
    <3>2. c <= n
      BY <3>1
    <3>3. c \in Cycles
      BY <1>7
    <3> QED
      BY <3>2, <3>3
  <2>1. /\ c \in Cycles /\ c <= n /\ cycle[c] \in CycleRow /\ cycle[c].status # "absent"
        /\ cycle[c].recurring <=> c = n
        /\ cycle[c].recurring \in BOOLEAN
        /\ cycle[c].parent = c - 1
    BY <1>1, <1>2, <2>0 DEF InLine, Exists, CycleRow
  <2> HIDE DEF Row
  <2>2. CASE c \in late \cup due
    BY <1>6, <1>7, <2>1, <2>2
  <2>3. CASE c \notin late \cup due
    BY <1>7, <2>1, <2>3
  <2> QED
    BY <2>2, <2>3
<1> HIDE DEF Row, next
<1>9. job'[j] = NoJob /\ \A k \in Jobs \ {j} : job'[k] = job[k]
  BY <1>2
<1>10. NoJob \in JobRow /\ NoJob.step = "idle" /\ NoJob.late = {} /\ NoJob.due = {}
  BY DEF NoJob, JobRow
<1>11. job' \in [Jobs -> JobRow]
  BY <1>2, <1>10
<1>12. ASSUME \A k \in Jobs \ {j} : job[k].due \subseteq {c \in Cycles : cycle'[c].recurring}
       PROVE  ClaimsOK'
  <2>1. \A k \in Jobs : /\ job'[k].late \subseteq reached'
                        /\ job'[k].due \subseteq {c \in Cycles : cycle'[c].recurring}
                        /\ job'[k].step # "claimed" => job'[k].due = {}
    BY <1>2, <1>9, <1>10, <1>12 DEF RecurrenceInv, ClaimsOK
  <2>2. \A k, l \in Jobs :
          k # l /\ job'[k].step = "claimed" /\ job'[l].step = "claimed"
              => Holds(k)' \cap Holds(l)' = {}
    BY <1>9, <1>10 DEF RecurrenceInv, ClaimsOK, Holds
  <2> QED
    BY <2>1, <2>2 DEF ClaimsOK
<1>13. \A c \in 1..n : cycle[c].parent = c - 1 /\ (cycle[c].parent # 0 => cycle[c].parent \in 1..n)
  BY <1>1, <1>2 DEF InLine, Cycles
<1>14. \A c \in 1..n : /\ IsDate(cycle'[c].due)
                       /\ cycle'[c].parent # 0 => Follows(cycle[c].due, cycle[cycle[c].parent].due)'
  <2>1. \A c \in 1..n : /\ IsDate(cycle[c].due)
                        /\ cycle[c].parent # 0 => Follows(cycle[c].due, cycle[cycle[c].parent].due)
    BY <1>1, <1>7 DEF RecurrenceInv, DatesOK, InLine
  <2> QED
    BY <1>2, <1>8, <1>13, <2>1 DEF Follows
<1>15. CASE due = {}
  <2>1. \A c \in Cycles : c \notin 1..n => cycle'[c] = cycle[c]
    BY <1>4, <1>5, <1>15
  <2>2. cycle' \in [Cycles -> CycleRow]
    BY <1>2, <1>5, <1>8, <2>1
  <2>3. InLine(n)'
    <3> SUFFICES ASSUME NEW c \in Cycles
                 PROVE  /\ cycle'[c].status # "absent" <=> c <= n
                        /\ cycle'[c].recurring <=> c = n
                        /\ c <= n => cycle'[c].parent = c - 1
      BY DEF InLine, Exists
    <3>1. c \in 1..n <=> c <= n
      BY <1>2 DEF Cycles
    <3>2. CASE c \in 1..n
      BY <1>8, <1>15, <3>1, <3>2
    <3>3. CASE c \notin 1..n
      BY <1>1, <2>1, <3>1, <3>3 DEF InLine, Exists
    <3> QED
      BY <3>2, <3>3
  <2>4. RecurrenceShapeOK'
    BY <1>1, <1>2, <1>11, <2>2, <2>3 DEF RecurrenceShapeOK, InLine
  <2>5. ClaimsOK'
    <3>1. \A c \in Cycles : cycle'[c].recurring <=> cycle[c].recurring
      BY <1>1, <2>3 DEF InLine
    <3> QED
      BY <1>12, <3>1 DEF RecurrenceInv, ClaimsOK
  <2>6. DatesOK'
    BY <1>2, <1>14, <2>3 DEF DatesOK, InLine, Cycles
  <2> QED
    BY <2>3, <2>4, <2>5, <2>6 DEF RecurrenceInv
<1>16. CASE due # {}
  <2>1. due = {n} /\ n + 1 \in Cycles /\ n + 1 \notin late \cup due
    BY <1>2, <1>4, <1>5, <1>16
  <2>2. Max(due) = n
    BY <1>2, <2>1 DEF Max
  <2>3. /\ n \in 1..n /\ cycle[n].due \in Nat \X Nat /\ IsDate(cycle[n].due)
    BY <1>1, <1>2 DEF RecurrenceInv, DatesOK, InLine, CycleRow
  <2>4. /\ next.status = "draft" /\ next.recurring = TRUE /\ next.parent = n
        /\ next.due = Advance(cycle[n].due, interval)
    BY <2>2 DEF next
  <2>5. next \in CycleRow /\ Follows(next.due, cycle[n].due)
    <3>1. Advance(cycle[n].due, interval) \in Nat \X Nat
          /\ Follows(Advance(cycle[n].due, interval), cycle[n].due)
      BY <1>2, <2>3, AdvanceFollows
    <3> QED
      BY <1>2, <2>2, <2>4, <3>1 DEF next, CycleRow, CycleStatus
  <2>6. /\ cycle'[n + 1] = next
        /\ \A c \in Cycles : c \notin 1..(n + 1) => cycle'[c] = cycle[c]
    BY <1>2, <1>4, <1>5, <2>1
  <2>7. \A c \in Cycles : c \in 1..n \/ c = n + 1 \/ c \notin 1..(n + 1)
    BY <1>2
  <2>8. cycle' \in [Cycles -> CycleRow]
    BY <1>2, <1>5, <1>8, <2>5, <2>6, <2>7
  <2>9. InLine(n + 1)'
    <3> SUFFICES ASSUME NEW c \in Cycles
                 PROVE  /\ cycle'[c].status # "absent" <=> c <= n + 1
                        /\ cycle'[c].recurring <=> c = n + 1
                        /\ c <= n + 1 => cycle'[c].parent = c - 1
      BY DEF InLine, Exists
    <3>1. CASE c \in 1..n
      BY <1>2, <1>8, <2>1, <3>1
    <3>2. CASE c = n + 1
      BY <1>2, <2>4, <2>6, <3>2
    <3>3. CASE c \notin 1..(n + 1)
      BY <1>1, <1>2, <2>6, <3>3 DEF InLine, Exists, Cycles
    <3> QED
      BY <2>7, <3>1, <3>2, <3>3
  <2>10. RecurrenceShapeOK'
    <3>1. \A c \in Cycles : Exists(c) => Exists(c)'
      BY <1>1, <1>2, <2>9 DEF InLine, Cycles
    <3> QED
      BY <1>2, <1>11, <2>8, <3>1 DEF RecurrenceShapeOK
  <2>11. ClaimsOK'
    <3>1. ASSUME NEW k \in Jobs \ {j} PROVE job[k].due = {}
      <4>1. job[k].due \subseteq {n}
        BY <1>1 DEF RecurrenceInv, ClaimsOK, InLine
      <4>2. CASE job[k].step = "claimed"
        <5>1. Holds(j) \cap Holds(k) = {}
          BY <1>2, <4>2 DEF RecurrenceInv, ClaimsOK
        <5> QED
          BY <2>1, <4>1, <5>1 DEF Holds
      <4>3. CASE job[k].step # "claimed"
        BY <4>3 DEF RecurrenceInv, ClaimsOK
      <4> QED
        BY <4>2, <4>3
    <3> QED
      BY <1>12, <3>1
  <2>12. DatesOK'
    <3> SUFFICES ASSUME NEW c \in Cycles, Exists(c)'
                 PROVE  /\ IsDate(cycle'[c].due)
                        /\ cycle'[c].parent # 0 => Follows(cycle[c].due, cycle[cycle[c].parent].due)'
      BY DEF DatesOK
    <3>1. c \in 1..n \/ c = n + 1
      BY <1>2, <2>9 DEF InLine, Cycles
    <3>2. CASE c \in 1..n
      BY <1>14, <3>2
    <3>3. CASE c = n + 1
      BY <1>2, <1>8, <2>3, <2>4, <2>5, <2>6, <3>3 DEF Follows
    <3> QED
      BY <3>1, <3>2, <3>3
  <2> QED
    BY <2>1, <2>9, <2>10, <2>11, <2>12 DEF RecurrenceInv
<1> QED
  BY <1>15, <1>16

(* Every step keeps it.                                                    *)
LEMMA RecurrenceStepInv ==
    RecurrenceInv /\ [RecurrenceNext]_recurrenceVars => RecurrenceInv'
<1> SUFFICES ASSUME RecurrenceInv, [RecurrenceNext]_recurrenceVars PROVE RecurrenceInv'
  OBVIOUS
<1>type. job \in [Jobs -> JobRow] /\ reached \subseteq Cycles
  BY DEF RecurrenceInv, RecurrenceShapeOK
<1>1. ASSUME NEW j \in Jobs, JobReads(j) PROVE RecurrenceInv'
  <2>1. PICK late \in SUBSET {c \in reached : cycle[c].status = "sent"} :
            job' = [job EXCEPT ![j] = [step |-> "read", late |-> late, due |-> {}]]
    BY <1>1 DEF JobReads
  <2> DEFINE newRow == [step |-> "read", late |-> late, due |-> {}]
  <2>2. newRow \in JobRow /\ newRow.late \subseteq reached /\ newRow.due = {} /\ newRow.step = "read"
    BY <1>type DEF JobRow
  <2>3. job' = [job EXCEPT ![j] = newRow]
    BY <2>1
  <2> HIDE DEF newRow
  <2> QED
    BY <1>1, <2>2, <2>3, JobStep DEF JobReads
<1>2. ASSUME NEW j \in Jobs, JobClaims(j) PROVE RecurrenceInv'
  <2> DEFINE newRow == [job[j] EXCEPT !.step = "claimed", !.due = DueCycles(j)]
  <2>1. job' = [job EXCEPT ![j] = newRow]
    BY <1>2, <1>type DEF JobClaims
  <2>2. /\ newRow \in JobRow /\ newRow.late = job[j].late /\ newRow.due = DueCycles(j)
        /\ newRow.step = "claimed"
    BY <1>type DEF JobRow, DueCycles
  <2> HIDE DEF newRow
  <2>3. /\ newRow.late \subseteq reached
        /\ newRow.due \subseteq {c \in Cycles : cycle[c].recurring}
    BY <1>type, <2>2 DEF RecurrenceInv, ClaimsOK, DueCycles
  <2>4. (newRow.late \cup newRow.due) \cap HeldByOthers(j) = {}
    BY <1>2, <2>2 DEF JobClaims, DueCycles, SkippedBy
  <2> QED
    BY <1>2, <2>1, <2>2, <2>3, <2>4, JobStep DEF JobClaims
<1>3. ASSUME NEW j \in Jobs, JobAborts(j) PROVE RecurrenceInv'
  <2>1. /\ NoJob \in JobRow /\ NoJob.late = {} /\ NoJob.due = {} /\ NoJob.step = "idle"
    BY DEF NoJob, JobRow
  <2> QED
    BY <1>3, <2>1, JobStep DEF JobAborts
<1>4. CASE UNCHANGED recurrenceVars
  BY <1>4 DEF recurrenceVars, RecurrenceInv, RecurrenceShapeOK, InLine, ClaimsOK, Holds,
              DatesOK, Follows, Exists
<1> QED
  BY <1>1, <1>2, <1>3, <1>4, CycleStep, CommitJob DEF RecurrenceNext

(* For any number of cycles and of overlapping runs that may fail, one     *)
(* row carries the series on and no cycle spawned two                      *)
(* (domain/invoices/recurrence.py).                                        *)
THEOREM OneHeadAlways == RecurrenceSpec => []SeriesHasOneHead
<1>1. RecurrenceInv => SeriesHasOneHead
  <2> SUFFICES ASSUME RecurrenceInv PROVE SeriesHasOneHead
    OBVIOUS
  <2>1. PICK n \in Cycles : InLine(n)
    BY DEF RecurrenceInv
  <2>2. {c \in Cycles : cycle[c].recurring} = {n}
    BY <2>1 DEF InLine
  <2>3. Cardinality({c \in Cycles : cycle[c].recurring}) = 1
    BY <2>2, FS_Singleton
  <2>4. \A c, d \in Cycles : Exists(c) /\ Exists(d) /\ cycle[c].parent = cycle[d].parent => c = d
    BY <2>1 DEF InLine, Cycles
  <2> QED
    BY <2>3, <2>4 DEF SeriesHasOneHead
<1> QED
  BY <1>1, RecurrenceInitInv, RecurrenceStepInv, PTL DEF RecurrenceSpec

(* Whatever the interval and the first due date, leap years and short      *)
(* months included, every cycle falls due in its own period                *)
(* (recurrence.py, advance_due_date).                                      *)
THEOREM PeriodsAreAlwaysKept == RecurrenceSpec => []PeriodsAreKept
<1>1. RecurrenceInv => PeriodsAreKept
  BY DEF RecurrenceInv, DatesOK, Follows, PeriodsAreKept
<1> QED
  BY <1>1, RecurrenceInitInv, RecurrenceStepInv, PTL DEF RecurrenceSpec

-----------------------------------------------------------------------------
(***************************************************************************)
(* Why the trail explains the quantity and a build is whole.  A request    *)
(* has seen the quantity of every row it holds, and holds it alone, so     *)
(* that what it read is still there when it commits; and a build asks for  *)
(* less of every row it has locked or has still to lock.                   *)
(***************************************************************************)
StockShapeOK ==
    /\ item \in [Items -> ItemRow]
    /\ adjustment \in [Items -> Seq(AdjustmentRow)]
    /\ line \in [Boms \X Items -> Nat]
    /\ request \in [Requests -> StockRequestRow]

SeesWhatItHolds(r) ==
    \A i \in r.locks : item[i].exists /\ r.seen[i] = item[i].quantity

Takes(r) ==
    r.op = "consume" => /\ \A i \in r.locks : r.change[i] < 0
                        /\ \A k \in 1..Len(r.queue) : r.change[r.queue[k]] < 0

LocksExclude ==
    \A t, x \in Requests : t # x => request[t].locks \cap request[x].locks = {}

Explains(trail, r) ==
    trail # <<>> /\ ~r.edited =>
        /\ Last(trail).after = r.quantity
        /\ \A k \in 1..(Len(trail) - 1) : trail[k].after = trail[k + 1].before

ItemOK(trail, r) ==
    /\ ~r.exists => trail = <<>>
    /\ r.exists /\ ~r.edited => r.quantity >= 0
    /\ Explains(trail, r)

StockInv ==
    /\ StockShapeOK
    /\ \A t \in Requests : SeesWhatItHolds(request[t]) /\ Takes(request[t])
    /\ LocksExclude
    /\ \A i \in Items : ItemOK(adjustment[i], item[i])

(* A request that is none holds nothing and takes nothing.                 *)
LEMMA NoRequestRow ==
    /\ NoRequest \in StockRequestRow /\ NoRequest.op = "idle" /\ NoRequest.locks = {}
    /\ SeesWhatItHolds(NoRequest) /\ Takes(NoRequest)
<1>1. NoRequest \in StockRequestRow /\ NoRequest.op = "idle" /\ NoRequest.locks = {}
  BY DEF NoRequest, StockRequestRow
<1> QED
  BY <1>1 DEF SeesWhatItHolds, Takes

(* An entry that starts from the quantity there was extends the trail.     *)
LEMMA TrailGrows ==
    ASSUME NEW trail \in Seq(AdjustmentRow), NEW old \in ItemRow, ItemOK(trail, old),
           old.exists, NEW n \in Int, n >= 0
    PROVE  LET longer == Append(trail, [before |-> old.quantity, after |-> n])
           IN  /\ longer \in Seq(AdjustmentRow)
               /\ ItemOK(longer, [old EXCEPT !.quantity = n])
<1> DEFINE entry == [before |-> old.quantity, after |-> n]
           longer == Append(trail, entry)
           new == [old EXCEPT !.quantity = n]
<1>1. entry \in AdjustmentRow /\ entry.before = old.quantity /\ entry.after = n
  BY DEF AdjustmentRow, ItemRow
<1>2. new.exists = old.exists /\ new.quantity = n /\ new.edited = old.edited
  BY DEF ItemRow
<1> HIDE DEF entry, new
<1>3. /\ longer \in Seq(AdjustmentRow) /\ longer # <<>>
      /\ Len(longer) = Len(trail) + 1 /\ Len(trail) \in Nat
      /\ \A k \in 1..Len(trail) : longer[k] = trail[k]
      /\ longer[Len(trail) + 1] = entry
  BY <1>1, AppendProperties, LenProperties
<1> HIDE DEF longer
<1>4. ASSUME ~old.edited
      PROVE  /\ Last(longer).after = n
             /\ \A k \in 1..(Len(longer) - 1) : longer[k].after = longer[k + 1].before
  <2>1. Last(longer) = entry
    BY <1>3 DEF Last
  <2>2. ASSUME NEW k \in 1..(Len(longer) - 1)
        PROVE  longer[k].after = longer[k + 1].before
    <3>1. k \in 1..Len(trail) /\ trail # <<>>
      <4>1. k \in 1..Len(trail)
        BY <1>3, <2>2
      <4>2. Len(<<>>) = 0
        BY EmptySeq
      <4> QED
        BY <1>3, <4>1, <4>2
    <3>2. /\ trail[Len(trail)].after = old.quantity
          /\ \A m \in 1..(Len(trail) - 1) : trail[m].after = trail[m + 1].before
      BY <1>4, <3>1 DEF ItemOK, Explains, Last
    <3>3. CASE k = Len(trail)
      BY <1>1, <1>3, <3>1, <3>2, <3>3
    <3>4. CASE k # Len(trail)
      <4>1. k \in 1..(Len(trail) - 1) /\ k + 1 \in 1..Len(trail)
        BY <1>3, <3>1, <3>4
      <4>2. longer[k] = trail[k] /\ longer[k + 1] = trail[k + 1]
        BY <1>3, <3>1, <4>1
      <4> QED
        BY <3>2, <4>1, <4>2
    <3> QED
      BY <3>3, <3>4
  <2> QED
    BY <1>1, <2>1, <2>2
<1>5. ItemOK(longer, new)
  BY <1>2, <1>4 DEF ItemOK, Explains
<1> QED
  BY <1>3, <1>5 DEF longer, entry, new

(* A request that begins, goes on or ends without writing.                 *)
LEMMA RequestMoves ==
    ASSUME StockInv, NEW t \in Requests, NEW newRow \in StockRequestRow,
           request' = [request EXCEPT ![t] = newRow],
           UNCHANGED <<item, adjustment, line>>,
           SeesWhatItHolds(newRow), Takes(newRow),
           \A x \in Requests \ {t} : newRow.locks \cap request[x].locks = {}
    PROVE  StockInv'
<1>1. /\ request \in [Requests -> StockRequestRow] /\ request' \in [Requests -> StockRequestRow]
      /\ request'[t] = newRow
      /\ \A x \in Requests \ {t} : request'[x] = request[x]
  BY DEF StockInv, StockShapeOK
<1>2. StockShapeOK' /\ \A i \in Items : ItemOK(adjustment[i], item[i])'
  BY <1>1 DEF StockInv, StockShapeOK
<1>3. \A x \in Requests : SeesWhatItHolds(request[x])' /\ Takes(request[x])'
  BY <1>1 DEF StockInv, SeesWhatItHolds, Takes
<1>4. LocksExclude'
  BY <1>1 DEF StockInv, LocksExclude
<1> QED
  BY <1>2, <1>3, <1>4 DEF StockInv

(* A request begins without a lock.                                        *)
LEMMA RequestBegins ==
    ASSUME StockInv, NEW t \in Requests, NEW op \in {"adjust", "consume", "set"},
           NEW queue \in Seq(Items), NEW change \in [Items -> Int],
           BeginRequest(t, op, queue, change),
           op = "consume" => \A k \in 1..Len(queue) : change[queue[k]] < 0
    PROVE  StockInv'
<1> DEFINE newRow == [NoRequest EXCEPT !.op = op, !.queue = queue, !.change = change]
<1>1. /\ newRow \in StockRequestRow /\ newRow.op = op /\ newRow.queue = queue /\ newRow.change = change
      /\ newRow.locks = {}
  BY NoRequestRow DEF StockRequestRow
<1>2. request' = [request EXCEPT ![t] = newRow] /\ UNCHANGED <<item, adjustment, line>>
  BY DEF BeginRequest
<1> HIDE DEF newRow
<1>3. SeesWhatItHolds(newRow) /\ Takes(newRow)
  BY <1>1 DEF SeesWhatItHolds, Takes
<1> QED
  BY <1>1, <1>2, <1>3, RequestMoves

(* Every kind of request begins so.                                        *)
LEMMA BeginsKeep ==
    ASSUME StockInv, NEW t \in Requests,
           \/ \E i \in Items, d \in Deltas : AdjustItemQuantity(t, i, d)
           \/ \E i \in Items, q \in Quantities : UpdateItemQuantity(t, i, q)
           \/ \E b \in Boms, n \in Builds : ConsumeBom(t, b, n)
    PROVE  StockInv'
<1>1. ASSUME NEW i \in Items, NEW n \in Int PROVE <<i>> \in Seq(Items) /\ On(i, n) \in [Items -> Int]
  BY DEF On, NoRequest
<1>2. ASSUME NEW i \in Items, NEW d \in Deltas, AdjustItemQuantity(t, i, d) PROVE StockInv'
  BY <1>1, <1>2, StockConstants, RequestBegins DEF AdjustItemQuantity
<1>3. ASSUME NEW i \in Items, NEW q \in Quantities, UpdateItemQuantity(t, i, q) PROVE StockInv'
  BY <1>1, <1>3, StockConstants, RequestBegins DEF UpdateItemQuantity
<1>4. ASSUME NEW b \in Boms, NEW n \in Builds, ConsumeBom(t, b, n) PROVE StockInv'
  <2> DEFINE change == [i \in Items |-> -(line[<<b, i>>] * n)]
  <2>1. PICK queue \in SetToSeqs(LinesOf(b)) : BeginRequest(t, "consume", queue, change)
    BY <1>4 DEF ConsumeBom
  <2>2. n \in Nat /\ n > 0
    BY <1>4, StockConstants DEF ConsumeBom, ValidBuild
  <2>3. \A i \in Items : line[<<b, i>>] \in Nat
    BY DEF StockInv, StockShapeOK
  <2>4. ASSUME NEW m \in Nat PROVE -(m * n) \in Int /\ (m # 0 => -(m * n) < 0)
    <3>1. m * n \in Nat /\ (m # 0 => m * n > 0)
      BY <2>2
    <3> QED
      BY <3>1
  <2>5. /\ change \in [Items -> Int]
        /\ \A i \in LinesOf(b) : change[i] < 0
    BY <2>3, <2>4 DEF LinesOf
  <2> HIDE DEF change
  <2>6. IsFiniteSet(LinesOf(b)) /\ LinesOf(b) \subseteq Items
    BY StockConstants, FS_Subset DEF LinesOf
  <2>7. Cardinality(LinesOf(b)) \in Nat
    BY <2>6, FS_CardinalityType
  <2>8. queue \in [1..Cardinality(LinesOf(b)) -> LinesOf(b)]
    BY DEF SetToSeqs
  <2>9. queue \in Seq(LinesOf(b))
    BY <2>7, <2>8, SeqDef
  <2>10. queue \in Seq(Items)
    BY <2>6, <2>9, SeqMonotonic
  <2>11. \A k \in 1..Len(queue) : change[queue[k]] < 0
    BY <2>5, <2>9, ElementOfSeq
  <2> QED
    BY <2>1, <2>5, <2>10, <2>11, RequestBegins
<1> QED
  BY <1>2, <1>3, <1>4

(* A lock comes to a request while nobody else holds the row, with the     *)
(* quantity the row has.                                                   *)
LEMMA LockKeeps ==
    ASSUME StockInv, NEW t \in Requests, LockRow(t)
    PROVE  StockInv'
<1> DEFINE r == request[t]
           i == Head(r.queue)
           newRow == [r EXCEPT !.queue = Tail(@), !.seen[i] = item[i].quantity,
                            !.locks = IF item[i].exists THEN @ \cup {i} ELSE @]
<1>1. /\ request \in [Requests -> StockRequestRow] /\ r \in StockRequestRow
      /\ item \in [Items -> ItemRow]
  BY DEF StockInv, StockShapeOK
<1>2. /\ r.queue \in Seq(Items) /\ r.queue # <<>> /\ r.locks \subseteq Items
      /\ r.seen \in [Items -> Int] /\ r.change \in [Items -> Int]
  BY <1>1 DEF StockRequestRow, LockRow
<1>3. /\ i \in Items /\ Tail(r.queue) \in Seq(Items)
      /\ Len(Tail(r.queue)) = Len(r.queue) - 1 /\ Len(r.queue) \in Nat /\ Len(r.queue) >= 1
      /\ \A k \in 1..Len(Tail(r.queue)) : Tail(r.queue)[k] = r.queue[k + 1]
      /\ i = r.queue[1]
  BY <1>2, HeadTailProperties, EmptySeq
<1>4. /\ request' = [request EXCEPT ![t] = newRow]
      /\ UNCHANGED <<item, adjustment, line>>
      /\ MayLock(t, i)
  BY <1>1 DEF LockRow
<1> HIDE DEF i
<1>5. /\ newRow.queue = Tail(r.queue) /\ newRow.op = r.op /\ newRow.change = r.change
      /\ newRow.seen = [r.seen EXCEPT ![i] = item[i].quantity]
      /\ newRow.locks = IF item[i].exists THEN r.locks \cup {i} ELSE r.locks
  BY <1>1 DEF StockRequestRow
<1>6. item[i].quantity \in Int
  BY <1>1, <1>3 DEF ItemRow
<1>7. newRow \in StockRequestRow
  <2>1. /\ newRow.queue \in Seq(Items) /\ newRow.locks \in SUBSET Items
        /\ newRow.seen \in [Items -> Int]
    BY <1>2, <1>3, <1>5, <1>6
  <2> QED
    BY <1>1, <2>1 DEF StockRequestRow
<1> HIDE DEF newRow
<1>8. SeesWhatItHolds(newRow)
  BY <1>2, <1>3, <1>5 DEF StockInv, SeesWhatItHolds
<1>9. Takes(newRow)
  <2> SUFFICES ASSUME newRow.op = "consume"
               PROVE  /\ \A j \in newRow.locks : newRow.change[j] < 0
                      /\ \A k \in 1..Len(newRow.queue) : newRow.change[newRow.queue[k]] < 0
    BY DEF Takes
  <2>1. /\ \A j \in r.locks : r.change[j] < 0
        /\ \A k \in 1..Len(r.queue) : r.change[r.queue[k]] < 0
    BY <1>5 DEF StockInv, Takes
  <2>2. r.change[i] < 0
    BY <1>3, <2>1
  <2>3. ASSUME NEW k \in 1..Len(Tail(r.queue)) PROVE r.change[Tail(r.queue)[k]] < 0
    <3>1. k + 1 \in 1..Len(r.queue)
      BY <1>3, <2>3
    <3> QED
      BY <1>3, <2>1, <3>1
  <2> QED
    BY <1>5, <2>1, <2>2, <2>3
<1>10. \A x \in Requests \ {t} : newRow.locks \cap request[x].locks = {}
  <2>1. \A x \in Requests \ {t} : i \notin request[x].locks
    BY <1>4 DEF MayLock, Holder
  <2>2. \A x \in Requests \ {t} : r.locks \cap request[x].locks = {}
    BY DEF StockInv, LocksExclude
  <2> QED
    BY <1>5, <2>1, <2>2
<1> QED
  BY <1>4, <1>7, <1>8, <1>9, <1>10, RequestMoves

(* A commit writes rows nobody else holds; it ends with no lock.           *)
LEMMA RowsWritten ==
    ASSUME StockInv, NEW t \in Requests,
           request' = [request EXCEPT ![t] = NoRequest], UNCHANGED line,
           item' \in [Items -> ItemRow], adjustment' \in [Items -> Seq(AdjustmentRow)],
           \A i \in Items : i \notin request[t].locks =>
               item'[i] = item[i] /\ adjustment'[i] = adjustment[i],
           \A i \in request[t].locks : ItemOK(adjustment[i], item[i])'
    PROVE  StockInv'
<1>1. /\ request \in [Requests -> StockRequestRow] /\ request' \in [Requests -> StockRequestRow]
      /\ request'[t] = NoRequest
      /\ \A x \in Requests \ {t} : request'[x] = request[x]
      /\ \A x \in Requests : request[x].locks \subseteq Items
  BY NoRequestRow DEF StockInv, StockShapeOK, StockRequestRow
<1>2. StockShapeOK'
  BY <1>1 DEF StockInv, StockShapeOK
<1>3. ASSUME NEW x \in Requests PROVE SeesWhatItHolds(request[x])' /\ Takes(request[x])'
  <2>1. CASE x = t
    BY <1>1, <2>1, NoRequestRow DEF SeesWhatItHolds, Takes
  <2>2. CASE x # t
    <3>1. \A i \in request[x].locks : i \in Items /\ i \notin request[t].locks
      BY <1>1, <2>2 DEF StockInv, LocksExclude
    <3>2. SeesWhatItHolds(request[x]) /\ Takes(request[x])
      BY DEF StockInv
    <3> QED
      BY <1>1, <2>2, <3>1, <3>2 DEF SeesWhatItHolds, Takes
  <2> QED
    BY <2>1, <2>2
<1>4. LocksExclude'
  BY <1>1, NoRequestRow DEF StockInv, LocksExclude
<1>5. \A i \in Items : ItemOK(adjustment[i], item[i])'
  BY DEF StockInv, ItemOK, Explains
<1> QED
  BY <1>2, <1>3, <1>4, <1>5 DEF StockInv

(* What a request changes by a delta is what it has locked, all of it or   *)
(* nothing; the row still has the quantity that was seen.                  *)
LEMMA AdjustedRows ==
    ASSUME StockInv, NEW t \in Requests
    PROVE  /\ Adjusted(t) \in {{}, request[t].locks}
           /\ request[t].locks \subseteq Items
           /\ \A i \in request[t].locks :
                 /\ item[i] \in ItemRow /\ item[i].exists
                 /\ request[t].seen[i] = item[i].quantity
                 /\ request[t].change[i] \in Int /\ Result(t, i) \in Int
                 /\ Result(t, i) = item[i].quantity + request[t].change[i]
           /\ \A i \in Adjusted(t) : Result(t, i) >= 0
<1>1. /\ request[t] \in StockRequestRow /\ item \in [Items -> ItemRow]
      /\ SeesWhatItHolds(request[t])
  BY DEF StockInv, StockShapeOK
<1>2. request[t].locks \subseteq Items /\ request[t].change \in [Items -> Int]
  BY <1>1 DEF StockRequestRow
<1>3. \A i \in request[t].locks :
          /\ item[i] \in ItemRow /\ item[i].exists
          /\ request[t].seen[i] = item[i].quantity
          /\ request[t].change[i] \in Int /\ item[i].quantity \in Int
  BY <1>1, <1>2 DEF SeesWhatItHolds, ItemRow
<1> QED
  BY <1>2, <1>3 DEF Adjusted, Result

(* The commit of an adjustment or a build writes a row of the trail for    *)
(* every quantity it changes.                                              *)
LEMMA AdjustKeeps ==
    ASSUME StockInv, NEW t \in Requests, AdjustCommits(t)
    PROVE  StockInv'
<1>1. /\ item \in [Items -> ItemRow] /\ adjustment \in [Items -> Seq(AdjustmentRow)]
      /\ \A i \in Items : ItemOK(adjustment[i], item[i])
  BY DEF StockInv, StockShapeOK
<1> DEFINE longer(i) == Append(adjustment[i], [before |-> request[t].seen[i], after |-> Result(t, i)])
           newRow(i) == [item[i] EXCEPT !.quantity = Result(t, i)]
<1>2. /\ item' = [i \in Items |-> IF i \in Adjusted(t) THEN newRow(i) ELSE item[i]]
      /\ adjustment' = [i \in Items |-> IF i \in Adjusted(t) THEN longer(i) ELSE adjustment[i]]
      /\ request' = [request EXCEPT ![t] = NoRequest] /\ UNCHANGED line
  BY DEF AdjustCommits
<1>3. ASSUME NEW i \in Adjusted(t)
      PROVE  /\ i \in Items /\ newRow(i) \in ItemRow /\ longer(i) \in Seq(AdjustmentRow)
             /\ ItemOK(longer(i), newRow(i))
  <2>1. /\ i \in Items /\ item[i] \in ItemRow /\ item[i].exists
        /\ request[t].seen[i] = item[i].quantity
        /\ Result(t, i) \in Int /\ Result(t, i) >= 0
    BY AdjustedRows
  <2>2. adjustment[i] \in Seq(AdjustmentRow) /\ ItemOK(adjustment[i], item[i])
    BY <1>1, <2>1
  <2> DEFINE n == Result(t, i)
  <2>3. n \in Int /\ n >= 0
    BY <2>1
  <2> HIDE DEF n
  <2>4. /\ Append(adjustment[i], [before |-> item[i].quantity, after |-> n]) \in Seq(AdjustmentRow)
        /\ ItemOK(Append(adjustment[i], [before |-> item[i].quantity, after |-> n]),
                  [item[i] EXCEPT !.quantity = n])
    BY <2>1, <2>2, <2>3, TrailGrows
  <2>5. [item[i] EXCEPT !.quantity = n] \in ItemRow
    BY <2>1, <2>3 DEF ItemRow
  <2> QED
    BY <2>1, <2>4, <2>5 DEF n
<1> HIDE DEF longer, newRow
<1>4. item' \in [Items -> ItemRow] /\ adjustment' \in [Items -> Seq(AdjustmentRow)]
  BY <1>1, <1>2, <1>3
<1>5. Adjusted(t) \subseteq request[t].locks /\ request[t].locks \subseteq Items
  BY AdjustedRows
<1>6. \A i \in Items : ItemOK(adjustment[i], item[i])'
  BY <1>1, <1>2, <1>3 DEF ItemOK, Explains
<1>7. \A i \in Items : i \notin request[t].locks =>
          item'[i] = item[i] /\ adjustment'[i] = adjustment[i]
  BY <1>2, <1>5
<1> QED
  BY <1>2, <1>4, <1>5, <1>6, <1>7, RowsWritten

(* A quantity that was entered is marked as such.                          *)
LEMMA SetKeeps ==
    ASSUME StockInv, NEW t \in Requests, SetCommits(t)
    PROVE  StockInv'
<1> DEFINE newRow(i) == [item[i] EXCEPT !.quantity = request[t].change[i], !.edited = TRUE]
<1>1. /\ item \in [Items -> ItemRow] /\ adjustment \in [Items -> Seq(AdjustmentRow)]
      /\ request[t].locks \subseteq Items
      /\ \A i \in request[t].locks : request[t].change[i] \in Int /\ item[i].exists
  BY AdjustedRows DEF StockInv, StockShapeOK
<1>2. /\ item' = [i \in Items |-> IF i \in request[t].locks THEN newRow(i) ELSE item[i]]
      /\ request' = [request EXCEPT ![t] = NoRequest] /\ UNCHANGED <<line, adjustment>>
  BY DEF SetCommits
<1>3. \A i \in request[t].locks : /\ newRow(i) \in ItemRow /\ newRow(i).exists /\ newRow(i).edited = TRUE
                                  /\ i \in Items
  BY <1>1 DEF ItemRow
<1> HIDE DEF newRow
<1>4. item' \in [Items -> ItemRow]
  BY <1>1, <1>2, <1>3
<1>5. \A i \in request[t].locks : ItemOK(adjustment[i], item[i])'
  BY <1>2, <1>3 DEF ItemOK, Explains
<1> QED
  BY <1>1, <1>2, <1>4, <1>5, RowsWritten

(* An item comes without a trail, and goes with it, held by nobody.        *)
LEMMA ItemKeeps ==
    ASSUME StockInv, NEW i \in Items,
           (\E q \in Quantities : CreateItem(i, q)) \/ DeleteItem(i)
    PROVE  StockInv'
<1>1. /\ item \in [Items -> ItemRow] /\ adjustment \in [Items -> Seq(AdjustmentRow)]
      /\ UNCHANGED <<line, request>>
  BY DEF StockInv, StockShapeOK, CreateItem, DeleteItem
<1>2. /\ \A j \in Items \ {i} : item'[j] = item[j] /\ adjustment'[j] = adjustment[j]
      /\ \A t \in Requests : i \notin request[t].locks
      /\ item'[i] \in ItemRow /\ adjustment'[i] = <<>>
      /\ item' \in [Items -> ItemRow] /\ adjustment' \in [Items -> Seq(AdjustmentRow)]
      /\ item'[i].exists /\ ~item'[i].edited => item'[i].quantity >= 0
  <2>1. ASSUME NEW q \in Quantities, CreateItem(i, q)
        PROVE  /\ \A j \in Items \ {i} : item'[j] = item[j] /\ adjustment'[j] = adjustment[j]
               /\ \A t \in Requests : i \notin request[t].locks
               /\ item'[i] \in ItemRow /\ adjustment'[i] = <<>>
               /\ item' \in [Items -> ItemRow] /\ adjustment' \in [Items -> Seq(AdjustmentRow)]
               /\ item'[i].exists /\ ~item'[i].edited => item'[i].quantity >= 0
    <3> DEFINE newRow == [exists |-> TRUE, quantity |-> q, edited |-> q < 0]
    <3>1. q \in Int /\ newRow \in ItemRow /\ (~newRow.edited => newRow.quantity >= 0)
      <4> DEFINE edited == q < 0
      <4>1. q \in Int /\ edited \in BOOLEAN /\ (~edited => q >= 0)
        BY StockConstants
      <4>2. newRow = [exists |-> TRUE, quantity |-> q, edited |-> edited]
        OBVIOUS
      <4> HIDE DEF edited, newRow
      <4> QED
        BY <4>1, <4>2 DEF ItemRow
    <3>2. item' = [item EXCEPT ![i] = newRow] /\ ~item[i].exists /\ adjustment' = adjustment
      BY <2>1 DEF CreateItem
    <3> HIDE DEF newRow
    <3>3. adjustment[i] = <<>>
      BY <3>2 DEF StockInv, ItemOK
    <3>4. \A t \in Requests : i \notin request[t].locks
      BY <3>2 DEF StockInv, SeesWhatItHolds
    <3> QED
      BY <1>1, <3>1, <3>2, <3>3, <3>4
  <2>2. CASE DeleteItem(i)
    <3>1. NoItem \in ItemRow /\ ~NoItem.exists
      BY DEF NoItem, ItemRow
    <3>2. /\ item' = [item EXCEPT ![i] = NoItem] /\ adjustment' = [adjustment EXCEPT ![i] = <<>>]
          /\ Holder(i) = {}
      BY <2>2 DEF DeleteItem
    <3>3. <<>> \in Seq(AdjustmentRow)
      BY EmptySeq
    <3>4. \A t \in Requests : i \notin request[t].locks
      BY <3>2 DEF Holder
    <3> QED
      BY <1>1, <3>1, <3>2, <3>3, <3>4
  <2> QED
    BY <2>1, <2>2
<1>3. StockShapeOK'
  BY <1>1, <1>2 DEF StockInv, StockShapeOK
<1>4. \A t \in Requests : SeesWhatItHolds(request[t])' /\ Takes(request[t])'
  <2>1. \A t \in Requests : request[t].locks \subseteq Items
    BY AdjustedRows
  <2> QED
    BY <1>1, <1>2, <2>1 DEF StockInv, SeesWhatItHolds, Takes
<1>5. LocksExclude'
  BY <1>1 DEF StockInv, LocksExclude
<1>6. \A j \in Items : ItemOK(adjustment[j], item[j])'
  BY <1>2 DEF StockInv, ItemOK, Explains
<1> QED
  BY <1>3, <1>4, <1>5, <1>6 DEF StockInv

(* A bill of materials and its lines hold no stock.                        *)
LEMMA BomKeeps ==
    ASSUME StockInv, UNCHANGED <<item, adjustment, request>>, line' \in [Boms \X Items -> Nat]
    PROVE  StockInv'
<1>1. StockShapeOK' /\ LocksExclude' /\ \A i \in Items : ItemOK(adjustment[i], item[i])'
  BY DEF StockInv, StockShapeOK, LocksExclude
<1>2. \A t \in Requests : SeesWhatItHolds(request[t])' /\ Takes(request[t])'
  BY DEF StockInv, SeesWhatItHolds, Takes
<1> QED
  BY <1>1, <1>2 DEF StockInv

(* There is nothing in stock at the start.                                 *)
LEMMA StockInitInv == StockInit => StockInv
<1> SUFFICES ASSUME StockInit PROVE StockInv
  OBVIOUS
<1>1. NoItem \in ItemRow /\ ~NoItem.exists /\ <<>> \in Seq(AdjustmentRow)
  BY EmptySeq DEF NoItem, ItemRow
<1>2. StockShapeOK
  BY <1>1, NoRequestRow DEF StockInit, StockShapeOK
<1>3. \A t \in Requests : SeesWhatItHolds(request[t]) /\ Takes(request[t])
  BY NoRequestRow DEF StockInit
<1>4. LocksExclude
  BY NoRequestRow DEF StockInit, LocksExclude
<1>5. \A i \in Items : ItemOK(adjustment[i], item[i])
  BY <1>1 DEF StockInit, ItemOK, Explains
<1> QED
  BY <1>2, <1>3, <1>4, <1>5 DEF StockInv

(* Every step keeps it.                                                    *)
LEMMA StockStepInv == StockInv /\ [StockNext]_stockVars => StockInv'
<1> SUFFICES ASSUME StockInv, [StockNext]_stockVars PROVE StockInv'
  OBVIOUS
<1>line. line \in [Boms \X Items -> Nat]
  BY DEF StockInv, StockShapeOK
<1>1. CASE \E i \in Items : (\E q \in Quantities : CreateItem(i, q)) \/ DeleteItem(i)
  BY <1>1, ItemKeeps
<1>2. ASSUME NEW i \in Items, NEW b \in Boms, NEW n \in PerUnit, AddMaterialLine(b, i, n)
      PROVE  StockInv'
  BY <1>line, <1>2, StockConstants, BomKeeps DEF AddMaterialLine
<1>3. ASSUME NEW i \in Items, NEW b \in Boms, RemoveMaterialLine(b, i) PROVE StockInv'
  BY <1>line, <1>3, BomKeeps DEF RemoveMaterialLine
<1>4. ASSUME NEW b \in Boms, CreateBom(b) \/ DeleteBom(b) PROVE StockInv'
  BY <1>line, <1>4, BomKeeps DEF CreateBom, DeleteBom
<1>5. ASSUME NEW t \in Requests, DeadlockVictim(t) PROVE StockInv'
  <2>1. request' = [request EXCEPT ![t] = NoRequest] /\ UNCHANGED <<item, adjustment, line>>
    BY <1>5 DEF DeadlockVictim, RolledBack
  <2>2. \A x \in Requests \ {t} : NoRequest.locks \cap request[x].locks = {}
    BY NoRequestRow
  <2> QED
    BY <2>1, <2>2, NoRequestRow, RequestMoves
<1>6. CASE UNCHANGED stockVars
  BY <1>line, <1>6, BomKeeps DEF stockVars
<1> QED
  BY <1>1, <1>2, <1>3, <1>4, <1>5, <1>6, BeginsKeep, LockKeeps, AdjustKeeps, SetKeeps DEF StockNext

(* For any number of items, bills and concurrent requests: the trail of an *)
(* item whose quantity was never entered by hand starts each row where the *)
(* one before ended and ends at the quantity, which is never negative      *)
(* (domain/inventory/service.py, adjust_item_quantity).                    *)
THEOREM TrailAlwaysExplains == StockSpec => []TrailExplainsQuantity
<1>1. StockInv => TrailExplainsQuantity
  BY DEF StockInv, ItemOK, Explains, TrailExplainsQuantity
<1> QED
  BY <1>1, StockInitInv, StockStepInv, PTL DEF StockSpec

(* Whatever runs beside it, a build takes every one of its lines or        *)
(* nothing, and never adds stock (domain/inventory/service.py,             *)
(* consume_bom).                                                           *)
THEOREM BuildsAreAlwaysWhole == StockSpec => BuildsAreWhole
<1> DEFINE Whole(t) ==
              AdjustCommits(t) /\ request[t].op = "consume" =>
                  \/ item' = item
                  \/ \A i \in request[t].locks :
                         item'[i].quantity < item[i].quantity
                            /\ item'[i].quantity = item[i].quantity + request[t].change[i]
<1>1. StockInv => \A t \in Requests : Whole(t)
  <2> SUFFICES ASSUME StockInv, NEW t \in Requests,
                      AdjustCommits(t), request[t].op = "consume"
               PROVE  \/ item' = item
                      \/ \A i \in request[t].locks :
                             item'[i].quantity < item[i].quantity
                                /\ item'[i].quantity = item[i].quantity + request[t].change[i]
    OBVIOUS
  <2>1. item' = [i \in Items |-> IF i \in Adjusted(t)
                                 THEN [item[i] EXCEPT !.quantity = Result(t, i)]
                                 ELSE item[i]]
    BY DEF AdjustCommits
  <2>2. CASE Adjusted(t) = {}
    <3>1. item \in [Items -> ItemRow]
      BY DEF StockInv, StockShapeOK
    <3> QED
      BY <2>1, <2>2, <3>1
  <2>3. CASE Adjusted(t) = request[t].locks
    <3> SUFFICES ASSUME NEW i \in request[t].locks
                 PROVE  item'[i].quantity < item[i].quantity
                            /\ item'[i].quantity = item[i].quantity + request[t].change[i]
      OBVIOUS
    <3>1. /\ i \in Items /\ item[i] \in ItemRow
          /\ Result(t, i) = item[i].quantity + request[t].change[i]
          /\ request[t].change[i] \in Int
      BY AdjustedRows
    <3>2. item'[i].quantity = Result(t, i)
      BY <2>1, <2>3, <3>1 DEF ItemRow
    <3>3. request[t].change[i] < 0
      BY DEF StockInv, Takes
    <3>4. item[i].quantity \in Int
      BY <3>1 DEF ItemRow
    <3> QED
      BY <3>1, <3>2, <3>3, <3>4
  <2> QED
    BY <2>2, <2>3, AdjustedRows
<1>2. StockInv /\ [StockNext]_stockVars => [\A t \in Requests : Whole(t)]_stockVars
  BY <1>1
<1> QED
  BY <1>2, StockInitInv, StockStepInv, PTL DEF StockSpec, BuildsAreWhole

-----------------------------------------------------------------------------
(***************************************************************************)
(* Why a mailed link is a committed one, and no mail is lost to a dead     *)
(* token.  A send has passed the commit of its link before it can reach    *)
(* Google; a link that is minted keeps its kind, and one that is committed *)
(* stays so whatever the other sends commit or roll back.  A send that     *)
(* tries a second time does so with a token issued for it, past the cache: *)
(* Google has not revoked it unless it does so while the send has it.      *)
(***************************************************************************)
LinkRow == [status: {"absent", "open", "committed"}, person: People \cup {Nobody},
            kind: {"none", "claim", "verify", "reset"}]
SendRow == [step: {"idle", "minted", "kept", "token", "exchange", "post", "end"}, number: Nat,
            to: SUBSET People, tried: SUBSET People, all: SUBSET People,
            link: 0..MaxLinks, token: Nat, retried: BOOLEAN, revoked: BOOLEAN,
            refused: BOOLEAN]

MailShapeOK ==
    /\ gmail \in [cached: Nat, issued: Nat, revoked: SUBSET Nat]
    /\ link \in [1..MaxLinks -> LinkRow]
    /\ mailbox \subseteq Nat \X People \X (0..MaxLinks)
    /\ sent \in Nat
    /\ send \in [Sends -> SendRow]

\* A link that may be in somebody's mailbox.
Settled(r) == r.kind # "none" /\ (r.kind \in {"verify", "reset"} => r.status = "committed")

\* The link a send carries, before and after its commit.
LinkFits(links, r) ==
    /\ r.step = "minted" => r.link # 0 /\ links[r.link].kind # "none"
    /\ r.step # "minted" /\ r.link # 0 => Settled(links[r.link])

LinksAreCommitted ==
    /\ \A s \in Sends : LinkFits(link, send[s])
    /\ \A m \in mailbox : m[3] # 0 => Settled(link[m[3]])

\* What no step does to a link: take its kind, or its commit.
LinksStay ==
    \A l \in 1..MaxLinks : link[l].kind # "none" =>
        /\ link'[l].kind = link[l].kind
        /\ link[l].status = "committed" => link'[l].status = "committed"

\* A second try has a token of its own.
SecondTryOK(r) ==
    /\ r.retried => r.step \in {"exchange", "post"}
    /\ r.retried /\ r.step = "post" /\ r.token \in gmail.revoked => r.revoked

MailInv ==
    /\ MailShapeOK
    /\ LinksAreCommitted
    /\ gmail.revoked \subseteq 1..gmail.issued
    /\ \A s \in Sends : SecondTryOK(send[s]) /\ ~send[s].refused

(* A send that is none has not tried anything.                             *)
LEMMA NoSendRow ==
    /\ NoSend \in SendRow /\ ~NoSend.retried /\ ~NoSend.refused /\ NoSend.link = 0
    /\ NoSend.step = "idle"
  BY MailConstants DEF NoSend, SendRow

(* A link that may be in a mailbox still may be after any step, and a send *)
(* that does not move still fits its link.                                 *)
LEMMA LinksStaySettled ==
    ASSUME MailShapeOK, LinksStay, LinksAreCommitted
    PROVE  /\ \A l \in 1..MaxLinks : Settled(link[l]) => Settled(link'[l])
           /\ \A s \in Sends : LinkFits(link', send[s])
           /\ \A m \in mailbox : m[3] # 0 => Settled(link'[m[3]])
<1>1. \A l \in 1..MaxLinks : Settled(link[l]) => Settled(link'[l])
  BY DEF LinksStay, Settled
<1>2. ASSUME NEW s \in Sends PROVE LinkFits(link', send[s])
  <2>1. send[s].link \in 0..MaxLinks /\ MaxLinks \in Nat
    BY MailConstants DEF MailShapeOK, SendRow
  <2>2. send[s].link # 0 => send[s].link \in 1..MaxLinks
    BY <2>1
  <2> QED
    BY <1>1, <2>2 DEF LinksAreCommitted, LinkFits, LinksStay
<1>3. ASSUME NEW m \in mailbox, m[3] # 0 PROVE Settled(link'[m[3]])
  <2>1. m[3] \in 0..MaxLinks /\ MaxLinks \in Nat
    BY MailConstants DEF MailShapeOK
  <2>2. m[3] \in 1..MaxLinks
    BY <1>3, <2>1
  <2> QED
    BY <1>1, <1>3, <2>2 DEF LinksAreCommitted
<1> QED
  BY <1>1, <1>2, <1>3

(* One send moves while Google stays as it is; what it delivers is         *)
(* addressed, and comes after the commit of its link.                      *)
LEMMA SendMoves ==
    ASSUME MailInv, NEW s \in Sends, NEW newRow \in SendRow,
           send' = [send EXCEPT ![s] = newRow],
           ~newRow.retried, ~newRow.refused,
           mailbox' \subseteq mailbox \cup (Nat \X People \X {send[s].link}),
           mailbox' = mailbox \/ send[s].step # "minted",
           sent' \in Nat, gmail' = gmail,
           link' \in [1..MaxLinks -> LinkRow], LinksStay, LinkFits(link', newRow)
    PROVE  MailInv'
<1>1. /\ send \in [Sends -> SendRow] /\ send' \in [Sends -> SendRow]
      /\ send'[s] = newRow
      /\ \A x \in Sends \ {s} : send'[x] = send[x]
      /\ send[s].link \in 0..MaxLinks
      /\ MailShapeOK /\ LinksAreCommitted
  BY DEF MailInv, MailShapeOK, SendRow
<1>2. MailShapeOK'
  BY <1>1 DEF MailInv, MailShapeOK
<1>3. \A x \in Sends : SecondTryOK(send[x])' /\ ~send'[x].refused
  BY <1>1 DEF MailInv, SecondTryOK
<1>4. /\ \A x \in Sends : LinkFits(link', send[x])
      /\ \A m \in mailbox : m[3] # 0 => Settled(link'[m[3]])
  BY <1>1, LinksStaySettled
<1>5. ASSUME NEW m \in mailbox', m[3] # 0 PROVE Settled(link'[m[3]])
  <2>1. CASE m \in mailbox
    BY <1>4, <1>5, <2>1
  <2>2. CASE m \notin mailbox
    <3>1. m[3] = send[s].link /\ send[s].step # "minted"
      BY <2>2
    <3> QED
      BY <1>4, <1>5, <3>1 DEF LinkFits
  <2> QED
    BY <2>1, <2>2
<1>6. \A x \in Sends : LinkFits(link', send'[x])
  BY <1>1, <1>4
<1>7. LinksAreCommitted'
  BY <1>5, <1>6 DEF LinksAreCommitted, LinkFits, Settled
<1> QED
  BY <1>2, <1>3, <1>7 DEF MailInv

(* A new link takes a free row.                                            *)
LEMMA MintedLinks ==
    ASSUME MailInv, NEW l \in 1..MaxLinks, Free(l), NEW p \in People,
           NEW kind \in {"claim", "verify", "reset"}, link' = Minted(l, p, kind)
    PROVE  /\ link' \in [1..MaxLinks -> LinkRow] /\ LinksStay
           /\ link'[l].kind = kind /\ link'[l].status = "open"
           /\ l # 0 /\ l \in 0..MaxLinks
<1>1. link \in [1..MaxLinks -> LinkRow] /\ link[l].kind = "none"
  BY DEF MailInv, MailShapeOK, Free, NoLink
<1>2. l # 0 /\ l \in 0..MaxLinks
  BY MailConstants
<1> QED
  BY <1>1, <1>2 DEF Minted, LinkRow, LinksStay

(* Whoever is written to, about whatever, the send starts afresh.          *)
LEMMA StartsKeep ==
    ASSUME MailInv, NEW s \in Sends, NEW to \in SUBSET People, NEW l \in 0..MaxLinks,
           NEW step \in {"minted", "token"},
           Starts(s, step, to, l), UNCHANGED <<gmail, mailbox>>,
           link' \in [1..MaxLinks -> LinkRow], LinksStay,
           step = "minted" => l # 0 /\ link'[l].kind # "none",
           step # "minted" /\ l # 0 => Settled(link'[l])
    PROVE  MailInv'
<1> DEFINE n == sent + 1
           newRow == [NoSend EXCEPT !.step = step, !.number = n,
                                 !.to = to, !.all = to, !.link = l]
<1>1. send' = [send EXCEPT ![s] = newRow] /\ sent' = n /\ n \in Nat
  BY DEF Starts, MailInv, MailShapeOK
<1> HIDE DEF n
<1>2. /\ newRow \in SendRow /\ ~newRow.retried /\ ~newRow.refused
      /\ newRow.step = step /\ newRow.link = l
  BY <1>1, NoSendRow DEF SendRow
<1> HIDE DEF newRow
<1>3. /\ mailbox' \subseteq mailbox \cup (Nat \X People \X {send[s].link})
      /\ mailbox' = mailbox /\ sent' \in Nat /\ gmail' = gmail
  BY <1>1
<1>4. LinkFits(link', newRow)
  BY <1>2 DEF LinkFits
<1> QED
  BY <1>1, <1>2, <1>3, <1>4, SendMoves

(* Each notification is one.                                               *)
LEMMA NotificationsKeep ==
    ASSUME MailInv, NEW s \in Sends,
           \/ NotifyDisputeUpdated(s)
           \/ \E p \in People : \/ NotifyCustomer(s, p) \/ NotifyInvoiceSent(s, p)
                                \/ RequestLink(s, p, "verify") \/ RequestLink(s, p, "reset")
    PROVE  MailInv'
<1>1. /\ link \in [1..MaxLinks -> LinkRow]
      /\ link' = link => LinksStay
      /\ 0 \in 0..MaxLinks
  BY MailConstants DEF MailInv, MailShapeOK, LinksStay
<1>2. CASE NotifyDisputeUpdated(s)
  <2>1. PICK enabled \in SUBSET Admins : Starts(s, "token", enabled \ optedOut, 0)
    BY <1>2 DEF NotifyDisputeUpdated
  <2>2. enabled \ optedOut \in SUBSET People
    BY MailConstants
  <2> QED
    BY <1>1, <1>2, <2>1, <2>2, StartsKeep DEF NotifyDisputeUpdated
<1>3. ASSUME NEW p \in People, NotifyCustomer(s, p) PROVE MailInv'
  <2>1. {p} \in SUBSET People
    BY <1>3
  <2> QED
    BY <1>1, <1>3, <2>1, StartsKeep DEF NotifyCustomer
<1>4. ASSUME NEW p \in People, NotifyInvoiceSent(s, p) PROVE MailInv'
  <2>1. {p} \in SUBSET People
    BY <1>4
  <2>2. CASE p \in Contacts
    <3>1. PICK l \in 1..MaxLinks :
             Free(l) /\ link' = Minted(l, p, "claim") /\ Starts(s, "token", {p}, l)
      BY <1>4, <2>2 DEF NotifyInvoiceSent
    <3>2. /\ link' \in [1..MaxLinks -> LinkRow] /\ LinksStay
          /\ link'[l].kind = "claim" /\ l \in 0..MaxLinks
      BY <3>1, MintedLinks
    <3>3. Settled(link'[l])
      BY <3>2 DEF Settled
    <3> QED
      BY <1>1, <1>4, <2>1, <3>1, <3>2, <3>3, StartsKeep DEF NotifyInvoiceSent
  <2>3. CASE p \notin Contacts
    BY <1>1, <1>4, <2>1, <2>3, StartsKeep DEF NotifyInvoiceSent
  <2> QED
    BY <2>2, <2>3
<1>5. ASSUME NEW p \in People, NEW kind \in {"verify", "reset"}, RequestLink(s, p, kind)
      PROVE  MailInv'
  <2>1. {p} \in SUBSET People
    BY <1>5
  <2>2. PICK l \in 1..MaxLinks :
           Free(l) /\ link' = Minted(l, p, kind) /\ Starts(s, "minted", {p}, l)
    BY <1>5 DEF RequestLink
  <2>3. /\ link' \in [1..MaxLinks -> LinkRow] /\ LinksStay
        /\ link'[l].kind # "none" /\ l # 0 /\ l \in 0..MaxLinks
    BY <2>2, MintedLinks
  <2> QED
    BY <1>1, <1>5, <2>1, <2>2, <2>3, StartsKeep DEF RequestLink
<1> QED
  BY <1>2, <1>3, <1>4, <1>5

(* The request commits its link, or rolls it back and fails; only then is  *)
(* the mail scheduled.                                                     *)
LEMMA LinkStepsKeep ==
    ASSUME MailInv, NEW s \in Sends,
           CommitLink(s) \/ LinkCommitFails(s) \/ ScheduleMail(s)
    PROVE  MailInv'
<1> DEFINE r == send[s]
<1>1. /\ send \in [Sends -> SendRow] /\ r \in SendRow /\ ~r.refused /\ SecondTryOK(r)
      /\ link \in [1..MaxLinks -> LinkRow] /\ sent \in Nat
      /\ LinkFits(link, r)
  BY DEF MailInv, MailShapeOK, LinksAreCommitted
<1>2. r.link \in 0..MaxLinks /\ MaxLinks \in Nat
  BY <1>1, MailConstants DEF SendRow
<1>3. CASE CommitLink(s)
  <2>1. r.step = "minted" /\ r.link \in 1..MaxLinks
    BY <1>1, <1>2, <1>3 DEF CommitLink, LinkFits
  <2> DEFINE newRow == [r EXCEPT !.step = "kept"]
  <2>2. /\ send' = [send EXCEPT ![s] = newRow]
        /\ link' = [link EXCEPT ![r.link].status = "committed"]
        /\ UNCHANGED <<gmail, mailbox, sent>>
    BY <1>1, <1>3 DEF CommitLink
  <2>3. /\ newRow \in SendRow /\ newRow.refused = r.refused /\ newRow.retried = r.retried
        /\ newRow.step = "kept" /\ newRow.link = r.link
    BY <1>1 DEF SendRow
  <2> HIDE DEF newRow
  <2>4. link' \in [1..MaxLinks -> LinkRow] /\ LinksStay
    BY <1>1, <2>1, <2>2 DEF LinkRow, LinksStay
  <2>5. link'[r.link].status = "committed" /\ link'[r.link].kind # "none"
    BY <1>1, <2>1, <2>2 DEF LinkRow, LinkFits
  <2>6. LinkFits(link', newRow)
    BY <2>3, <2>5 DEF LinkFits, Settled
  <2>7. ~newRow.retried /\ ~newRow.refused
    BY <1>1, <2>1, <2>3 DEF SecondTryOK
  <2> QED
    BY <1>1, <2>2, <2>3, <2>4, <2>6, <2>7, SendMoves
<1>4. CASE LinkCommitFails(s)
  <2>1. r.step = "minted" /\ r.link \in 1..MaxLinks /\ link[r.link].status = "open"
    BY <1>1, <1>2, <1>4 DEF LinkCommitFails, LinkFits
  <2>2. /\ send' = [send EXCEPT ![s] = NoSend]
        /\ link' = [link EXCEPT ![r.link].status = "absent"]
        /\ UNCHANGED <<gmail, mailbox, sent>>
    BY <1>4 DEF LinkCommitFails
  <2>3. link' \in [1..MaxLinks -> LinkRow] /\ LinksStay
    BY <1>1, <2>1, <2>2 DEF LinkRow, LinksStay
  <2>4. LinkFits(link', NoSend)
    BY NoSendRow DEF LinkFits
  <2> QED
    BY <1>1, <2>2, <2>3, <2>4, NoSendRow, SendMoves
<1>5. CASE ScheduleMail(s)
  <2> DEFINE newRow == [r EXCEPT !.step = "token"]
  <2>1. /\ send' = [send EXCEPT ![s] = newRow] /\ r.step = "kept"
        /\ UNCHANGED <<gmail, link, mailbox, sent>>
    BY <1>1, <1>5 DEF ScheduleMail, MayBeScheduled
  <2>2. /\ newRow \in SendRow /\ newRow.refused = r.refused /\ newRow.retried = r.retried
        /\ newRow.step = "token" /\ newRow.link = r.link
    BY <1>1 DEF SendRow
  <2> HIDE DEF newRow
  <2>3. LinkFits(link', newRow) /\ LinksStay
    BY <1>1, <2>1, <2>2 DEF LinkFits, LinksStay
  <2>4. ~newRow.retried /\ ~newRow.refused
    BY <1>1, <2>1, <2>2 DEF SecondTryOK
  <2> QED
    BY <1>1, <2>1, <2>2, <2>3, <2>4, SendMoves
<1> QED
  BY <1>3, <1>4, <1>5

(* However a try ends, the send goes on without a second try pending; it   *)
(* is refused only if its token was revoked unnoticed, which it was not.   *)
LEMMA TriedKeeps ==
    ASSUME MailInv, NEW s \in Sends, NEW p \in People, NEW ok \in BOOLEAN, NEW refused \in BOOLEAN,
           Tried(s, p, ok, refused), refused => send[s].revoked, send[s].step # "minted",
           mailbox' \subseteq mailbox \cup (Nat \X People \X {send[s].link}),
           UNCHANGED <<sent, gmail, link>>
    PROVE  MailInv'
<1> DEFINE r == send[s]
           left == Remaining(s, p, ok)
           newRow == [r EXCEPT !.to = left, !.tried = @ \cup {p},
                            !.step = IF left = {} THEN "end" ELSE "token",
                            !.token = 0, !.retried = FALSE,
                            !.refused = @ \/ (refused /\ ~r.revoked)]
<1>1. send \in [Sends -> SendRow] /\ r \in SendRow /\ ~r.refused
  BY DEF MailInv, MailShapeOK
<1>2. left \in SUBSET People
  BY <1>1 DEF Remaining, SendRow
<1>3. send' = [send EXCEPT ![s] = newRow]
  BY <1>1 DEF Tried
<1> HIDE DEF left
<1>4. /\ newRow \in SendRow /\ ~newRow.retried
      /\ newRow.refused = (r.refused \/ (refused /\ ~r.revoked))
      /\ newRow.step # "minted" /\ newRow.link = r.link
  BY <1>1, <1>2 DEF SendRow
<1>5. ~newRow.refused
  BY <1>1, <1>4
<1> HIDE DEF newRow
<1>6. sent' \in Nat /\ link' \in [1..MaxLinks -> LinkRow] /\ LinksStay
  BY DEF MailInv, MailShapeOK, LinksStay
<1>7. LinkFits(link', newRow)
  BY <1>4 DEF MailInv, LinksAreCommitted, LinkFits
<1> QED
  BY <1>3, <1>4, <1>5, <1>6, <1>7, SendMoves

(* A mail that is delivered is the send's own.                             *)
LEMMA DeliversItsOwn ==
    ASSUME MailInv, NEW s \in Sends, NEW p \in People, Deliver(s, p)
    PROVE  mailbox' \subseteq mailbox \cup (Nat \X People \X {send[s].link})
<1>1. send[s].number \in Nat
  BY DEF MailInv, MailShapeOK, SendRow
<1> QED
  BY <1>1 DEF Deliver

(* The calls to Google: a second try asks for a new token.                 *)
LEMMA GmailStep ==
    ASSUME MailInv, NEW s \in Sends, NEW newRow \in SendRow,
           send' = [send EXCEPT ![s] = newRow], ~newRow.refused,
           gmail' \in [cached: Nat, issued: Nat, revoked: SUBSET Nat],
           gmail'.revoked = gmail.revoked, gmail.issued <= gmail'.issued,
           SecondTryOK(newRow), newRow.link = send[s].link,
           send[s].step # "minted", newRow.step # "minted",
           UNCHANGED <<link, mailbox, sent>>
    PROVE  MailInv'
<1>1. /\ send \in [Sends -> SendRow] /\ send' \in [Sends -> SendRow]
      /\ send'[s] = newRow
      /\ \A x \in Sends \ {s} : send'[x] = send[x]
      /\ gmail.issued \in Nat /\ gmail'.issued \in Nat
  BY DEF MailInv, MailShapeOK
<1>2. MailShapeOK'
  BY <1>1 DEF MailInv, MailShapeOK
<1>l. LinksAreCommitted'
  <2>1. \A x \in Sends : LinkFits(link, send'[x])
    BY <1>1 DEF MailInv, LinksAreCommitted, LinkFits
  <2> QED
    BY <2>1 DEF MailInv, LinksAreCommitted, LinkFits, Settled
<1>3. gmail'.revoked \subseteq 1..gmail'.issued
  BY <1>1 DEF MailInv
<1>4. \A x \in Sends : SecondTryOK(send[x])' /\ ~send'[x].refused
  BY <1>1 DEF MailInv, SecondTryOK
<1> QED
  BY <1>2, <1>l, <1>3, <1>4 DEF MailInv

(* Every one of those calls.                                               *)
LEMMA PostsKeep ==
    ASSUME MailInv, NEW s \in Sends,
           \/ GetToken(s) \/ TokenExchanged(s)
           \/ \E p \in People : \/ PostUnauthorized(s, p) \/ PostDelivered(s, p)
                                \/ \E arrived \in BOOLEAN : SendFails(s, p, arrived)
    PROVE  MailInv'
<1> DEFINE r == send[s]
<1>1. /\ send \in [Sends -> SendRow] /\ r \in SendRow /\ ~r.refused /\ SecondTryOK(r)
      /\ gmail \in [cached: Nat, issued: Nat, revoked: SUBSET Nat]
      /\ gmail.revoked \subseteq 1..gmail.issued
  BY DEF MailInv, MailShapeOK
<1>2. CASE GetToken(s)
  <2> DEFINE newRow == [r EXCEPT !.step = IF gmail.cached # 0 THEN "post" ELSE "exchange",
                              !.token = gmail.cached]
  <2>1. send' = [send EXCEPT ![s] = newRow] /\ r.step = "token" /\ UNCHANGED <<gmail, link, mailbox, sent>>
    BY <1>1, <1>2 DEF GetToken
  <2>2. /\ newRow \in SendRow /\ newRow.refused = r.refused /\ newRow.retried = r.retried
        /\ newRow.link = r.link /\ newRow.step # "minted"
    BY <1>1 DEF SendRow
  <2> HIDE DEF newRow
  <2>3. SecondTryOK(newRow)
    BY <1>1, <2>1, <2>2 DEF SecondTryOK
  <2>4. /\ gmail' \in [cached: Nat, issued: Nat, revoked: SUBSET Nat]
        /\ gmail'.revoked = gmail.revoked /\ gmail.issued <= gmail'.issued
        /\ ~newRow.refused
    BY <1>1, <2>1, <2>2
  <2> QED
    BY <2>1, <2>2, <2>3, <2>4, GmailStep
<1>3. CASE TokenExchanged(s)
  <2> DEFINE n == gmail.issued + 1
             newRow == [r EXCEPT !.step = "post", !.token = n]
             new == [gmail EXCEPT !.issued = n, !.cached = n]
  <2>n. n \in Nat /\ gmail.issued <= n /\ n \notin gmail.revoked
    BY <1>1
  <2>1. /\ send' = [send EXCEPT ![s] = newRow] /\ gmail' = new
        /\ r.step = "exchange" /\ UNCHANGED <<link, mailbox, sent>>
    BY <1>1, <1>3 DEF TokenExchanged
  <2> HIDE DEF n
  <2>2. /\ newRow \in SendRow /\ newRow.refused = r.refused /\ newRow.token = n
        /\ newRow.step = "post" /\ newRow.link = r.link
    BY <1>1, <2>n DEF SendRow
  <2>3. /\ new \in [cached: Nat, issued: Nat, revoked: SUBSET Nat]
        /\ new.revoked = gmail.revoked /\ gmail.issued <= new.issued
    BY <1>1, <2>n
  <2> HIDE DEF newRow, new
  <2>4. SecondTryOK(newRow)
    BY <2>2, <2>n DEF SecondTryOK
  <2> QED
    BY <1>1, <2>1, <2>2, <2>3, <2>4, GmailStep
<1>4. ASSUME NEW p \in People, PostUnauthorized(s, p) PROVE MailInv'
  <2>1. CASE r.retried
    <3>1. r.revoked
      BY <1>1, <1>4, <2>1 DEF PostUnauthorized, SecondTryOK
    <3>2. r.step # "minted"
      BY <1>4 DEF PostUnauthorized
    <3> QED
      BY <1>4, <2>1, <3>1, <3>2, TriedKeeps DEF PostUnauthorized
  <2>2. CASE ~r.retried
    <3> DEFINE newRow == [r EXCEPT !.step = AfterUnauthorized(s), !.retried = TRUE]
               new == [gmail EXCEPT !.cached = 0]
    <3>1. /\ send' = [send EXCEPT ![s] = newRow] /\ gmail' = new
          /\ r.step = "post" /\ UNCHANGED <<link, mailbox, sent>>
      BY <1>1, <1>4, <2>2 DEF PostUnauthorized
    <3>2. /\ newRow \in SendRow /\ newRow.refused = r.refused /\ newRow.step = "exchange"
          /\ newRow.link = r.link
      BY <1>1 DEF SendRow, AfterUnauthorized
    <3>3. /\ new \in [cached: Nat, issued: Nat, revoked: SUBSET Nat]
          /\ new.revoked = gmail.revoked /\ gmail.issued <= new.issued
      BY <1>1
    <3> HIDE DEF newRow, new
    <3>4. SecondTryOK(newRow)
      BY <3>2 DEF SecondTryOK
    <3> QED
      BY <1>1, <3>1, <3>2, <3>3, <3>4, GmailStep
  <2> QED
    BY <2>1, <2>2
<1>5. ASSUME NEW p \in People, PostDelivered(s, p) PROVE MailInv'
  <2>1. r.step # "minted"
    BY <1>5 DEF PostDelivered
  <2> QED
    BY <1>5, <2>1, TriedKeeps, DeliversItsOwn DEF PostDelivered
<1>6. ASSUME NEW p \in People, NEW arrived \in BOOLEAN, SendFails(s, p, arrived) PROVE MailInv'
  <2>1. mailbox' \subseteq mailbox \cup (Nat \X People \X {send[s].link})
    BY <1>6, DeliversItsOwn DEF SendFails
  <2>2. r.step # "minted"
    BY <1>6 DEF SendFails
  <2> QED
    BY <1>6, <2>1, <2>2, TriedKeeps DEF SendFails
<1> QED
  BY <1>2, <1>3, <1>4, <1>5, <1>6

(* The request's end commits or drops a link that is still open.           *)
LEMMA EndKeeps ==
    ASSUME MailInv, NEW s \in Sends, SendEnds(s)
    PROVE  MailInv'
<1> DEFINE l == send[s].link
<1>1. /\ link \in [1..MaxLinks -> LinkRow]
      /\ l \in 0..MaxLinks /\ MaxLinks \in Nat /\ sent \in Nat
  BY MailConstants DEF MailInv, MailShapeOK, SendRow
<1>2. link' \in [1..MaxLinks -> LinkRow] /\ LinksStay
  <2>1. CASE UNCHANGED link
    BY <1>1, <2>1 DEF LinksStay
  <2>2. CASE l # 0 /\ link[l].status = "open"
             /\ \E status \in {"committed", "absent"} : link' = [link EXCEPT ![l].status = status]
    <3>1. l \in 1..MaxLinks
      BY <1>1, <2>2
    <3> QED
      BY <1>1, <2>2, <3>1 DEF LinkRow, LinksStay
  <2> QED
    BY <2>1, <2>2 DEF SendEnds
<1>3. LinkFits(link', NoSend)
  BY NoSendRow DEF LinkFits
<1> QED
  BY <1>1, <1>2, <1>3, NoSendRow, SendMoves DEF SendEnds

(* Nothing was sent, and nothing mailed, at the start.                     *)
LEMMA MailInitInv == MailInit => MailInv
<1> SUFFICES ASSUME MailInit PROVE MailInv
  OBVIOUS
<1>1. NoLink \in LinkRow /\ NoLink.kind = "none"
  BY DEF NoLink, LinkRow
<1>2. MailShapeOK
  BY <1>1, NoSendRow DEF MailInit, MailShapeOK
<1>3. LinksAreCommitted
  BY NoSendRow DEF MailInit, LinksAreCommitted, LinkFits
<1>4. \A s \in Sends : SecondTryOK(send[s]) /\ ~send[s].refused
  BY NoSendRow DEF MailInit, SecondTryOK
<1> QED
  BY <1>2, <1>3, <1>4 DEF MailInv, MailInit

(* Every step of the sends, and of Google, keeps it.                       *)
LEMMA MailStepInv == MailInv /\ [MailNext]_mailVars => MailInv'
<1> SUFFICES ASSUME MailInv, [MailNext]_mailVars PROVE MailInv'
  OBVIOUS
<1>1. ASSUME UNCHANGED <<link, mailbox, sent, send>>,
             gmail' \in [cached: Nat, issued: Nat, revoked: SUBSET Nat],
             gmail'.revoked = gmail.revoked, gmail'.issued = gmail.issued
      PROVE  MailInv'
  <2>1. LinksAreCommitted'
    BY <1>1 DEF MailInv, LinksAreCommitted, LinkFits, Settled
  <2> QED
    BY <1>1, <2>1 DEF MailInv, MailShapeOK, SecondTryOK
<1>2. ASSUME NEW p \in People, Unsubscribe(p) PROVE MailInv'
  BY <1>1, <1>2 DEF Unsubscribe, MailInv, MailShapeOK
<1>3. CASE CacheExpires
  <2> DEFINE new == [gmail EXCEPT !.cached = 0]
  <2>1. /\ new \in [cached: Nat, issued: Nat, revoked: SUBSET Nat]
        /\ new.revoked = gmail.revoked /\ new.issued = gmail.issued
    BY DEF MailInv, MailShapeOK
  <2> QED
    BY <1>1, <1>3, <2>1 DEF CacheExpires
<1>4. ASSUME NEW k \in 1..MaxTokens, RevokeToken(k) PROVE MailInv'
  <2> DEFINE new == [gmail EXCEPT !.revoked = @ \cup {k}]
             hit(s) == send[s].step = "post" /\ send[s].retried /\ send[s].token = k
             newRow(s) == [send[s] EXCEPT !.revoked = @ \/ hit(s)]
  <2>1. /\ send \in [Sends -> SendRow]
        /\ gmail \in [cached: Nat, issued: Nat, revoked: SUBSET Nat]
        /\ gmail.revoked \subseteq 1..gmail.issued /\ k \in 1..gmail.issued
    BY <1>4 DEF MailInv, MailShapeOK, RevokeToken
  <2>2. /\ gmail' = new /\ send' = [s \in Sends |-> newRow(s)]
        /\ UNCHANGED <<link, mailbox, sent>>
    BY <1>4 DEF RevokeToken
  <2>3. /\ new \in [cached: Nat, issued: Nat, revoked: SUBSET Nat]
        /\ new.revoked = gmail.revoked \cup {k} /\ new.issued = gmail.issued
    BY <2>1
  <2>4. \A s \in Sends : hit(s) \in BOOLEAN
    OBVIOUS
  <2> HIDE DEF new, hit
  <2>5. \A s \in Sends : /\ newRow(s) \in SendRow
                         /\ newRow(s).revoked = (send[s].revoked \/ hit(s))
                         /\ newRow(s).retried = send[s].retried
                         /\ newRow(s).refused = send[s].refused
                         /\ newRow(s).step = send[s].step
                         /\ newRow(s).token = send[s].token
                         /\ newRow(s).link = send[s].link
    BY <2>1, <2>4 DEF SendRow
  <2> HIDE DEF newRow
  <2>6. MailShapeOK'
    BY <2>2, <2>3, <2>5 DEF MailInv, MailShapeOK
  <2>l. LinksAreCommitted'
    <3>1. \A s \in Sends : LinkFits(link, send'[s])
      BY <2>2, <2>5 DEF MailInv, LinksAreCommitted, LinkFits
    <3> QED
      BY <2>2, <3>1 DEF MailInv, LinksAreCommitted, LinkFits, Settled
  <2>7. gmail'.revoked \subseteq 1..gmail'.issued
    BY <2>1, <2>2, <2>3
  <2>8. ASSUME NEW s \in Sends PROVE SecondTryOK(send[s])' /\ ~send'[s].refused
    <3>1. send'[s] = newRow(s)
      BY <2>2
    <3>2. SecondTryOK(send[s]) /\ ~send[s].refused
      BY DEF MailInv
    <3> QED
      BY <2>2, <2>3, <2>5, <3>1, <3>2 DEF SecondTryOK, hit
  <2> QED
    BY <2>6, <2>l, <2>7, <2>8 DEF MailInv
<1>5. CASE UNCHANGED mailVars
  BY <1>1, <1>5 DEF mailVars, MailInv, MailShapeOK
<1> QED
  BY <1>2, <1>3, <1>4, <1>5, NotificationsKeep, LinkStepsKeep, PostsKeep, EndKeeps
     DEF MailNext

(* However the requests overlap and whichever of their commits fail, a     *)
(* link to verify or to reset that reached somebody is in the database     *)
(* (api/auth.py: commit, then add_task).                                   *)
THEOREM MailedLinksAlwaysCommitted == MailSpec => []MailedLinksAreCommitted
<1>1. MailInv => MailedLinksAreCommitted
  BY DEF MailInv, LinksAreCommitted, Settled, MailedLinksAreCommitted
<1> QED
  BY <1>1, MailInitInv, MailStepInv, PTL DEF MailSpec

(* For any number of concurrent sends sharing the cached token, and        *)
(* however often it expires or is revoked, a send is refused twice only if *)
(* the token minted for its second try was revoked meanwhile               *)
(* (domain/notifications/mailer.py, force_refresh).                        *)
THEOREM DeadTokensNeverLoseMail == MailSpec => []DeadTokensLoseNoMail
<1>1. MailInv => DeadTokensLoseNoMail
  BY DEF MailInv, DeadTokensLoseNoMail
<1> QED
  BY <1>1, MailInitInv, MailStepInv, PTL DEF MailSpec

-----------------------------------------------------------------------------
(***************************************************************************)
(* Why nobody is written to twice about a dispute.  The delivery that      *)
(* holds the payment's row is alone and has seen the status that is still  *)
(* recorded, so that its commit counts a change exactly when it goes on to *)
(* write; a mail sent, or given up, only lowers what is owed.              *)
(***************************************************************************)
Statuses == Recordable \cup {Undisputed}
DeliveryRow == [step: {"idle", "locked", "notify"}, status: Statuses, prior: Statuses]

DisputesTypeOK ==
    /\ reported \subseteq StripeStatuses
    /\ recorded \in Statuses
    /\ delivery \in [Deliveries -> DeliveryRow]
    /\ changes \in [Recordable -> Nat]
    /\ mails \in [Recordable -> Nat]

Reported(s) == reported \cap StatusMap[s] # {}

\* The delivery in progress knows a status Stripe reported; while it holds
\* the row, also the status recorded.
DeliveryOK(r) ==
    /\ r.step # "idle" => r.status \in Recordable /\ Reported(r.status)
    /\ r.step = "locked" => r.prior = recorded

OneHolder ==
    \A d, e \in Deliveries :
        delivery[d].step = "locked" /\ delivery[e].step = "locked" => d = e

ToWrite(s) == {d \in Deliveries : delivery[d].step = "notify" /\ delivery[d].status = s}

DisputesInv ==
    /\ DisputesTypeOK
    /\ \A d \in Deliveries : DeliveryOK(delivery[d])
    /\ OneHolder
    /\ MailsAreChanges

(* A count that loses members does not grow; a new one adds one at most,   *)
(* and one that goes takes one away.                                       *)
LEMMA ToWriteFits ==
    \A X \in SUBSET Deliveries :
        /\ Cardinality(X) \in Nat
        /\ \A Y \in SUBSET X : Cardinality(Y) <= Cardinality(X)
        /\ \A d \in Deliveries : Cardinality(X \cup {d}) <= Cardinality(X) + 1
        /\ \A d \in X : Cardinality(X \ {d}) = Cardinality(X) - 1
<1> SUFFICES ASSUME NEW X \in SUBSET Deliveries
             PROVE  /\ Cardinality(X) \in Nat
                    /\ \A Y \in SUBSET X : Cardinality(Y) <= Cardinality(X)
                    /\ \A d \in Deliveries : Cardinality(X \cup {d}) <= Cardinality(X) + 1
                    /\ \A d \in X : Cardinality(X \ {d}) = Cardinality(X) - 1
  OBVIOUS
<1>1. IsFiniteSet(X) /\ Cardinality(X) \in Nat
  BY DisputesConstants, FS_Subset, FS_CardinalityType
<1>2. \A Y \in SUBSET X : Cardinality(Y) <= Cardinality(X)
  BY <1>1, FS_Subset
<1>3. \A d \in Deliveries : Cardinality(X \cup {d}) \in {Cardinality(X), Cardinality(X) + 1}
  BY <1>1, FS_AddElement
<1>4. \A d \in X : Cardinality(X \ {d}) = Cardinality(X) - 1
  BY <1>1, FS_RemoveElement
<1> QED
  BY <1>1, <1>2, <1>3, <1>4

(* A delivery's row changes and nothing is recorded or written: no more    *)
(* is owed than before.                                                    *)
LEMMA DeliveryStep ==
    ASSUME DisputesInv, NEW d \in Deliveries, NEW newRow \in DeliveryRow,
           delivery' = [delivery EXCEPT ![d] = newRow],
           newRow.step # "notify",
           UNCHANGED <<reported, recorded, changes, mails>>,
           DeliveryOK(newRow),
           newRow.step = "locked" => RowIsFree(d)
    PROVE  DisputesInv'
<1>1. /\ delivery \in [Deliveries -> DeliveryRow]
      /\ delivery'[d] = newRow
      /\ \A e \in Deliveries \ {d} : delivery'[e] = delivery[e]
  BY DEF DisputesInv, DisputesTypeOK
<1>2. DisputesTypeOK'
  BY DEF DisputesInv, DisputesTypeOK, Statuses, DeliveryRow
<1>3. \A e \in Deliveries : DeliveryOK(delivery[e])'
  BY <1>1 DEF DisputesInv, DeliveryOK, Reported
<1>4. OneHolder'
  BY <1>1 DEF DisputesInv, OneHolder, RowIsFree
<1>5. ASSUME NEW s \in Recordable
      PROVE  mails'[s] + Cardinality(ToWrite(s))' <= changes'[s]
  <2>1. ToWrite(s)' \subseteq ToWrite(s) /\ ToWrite(s) \subseteq Deliveries
    BY <1>1 DEF ToWrite
  <2>2. /\ Cardinality(ToWrite(s))' <= Cardinality(ToWrite(s))
        /\ Cardinality(ToWrite(s))' \in Nat /\ Cardinality(ToWrite(s)) \in Nat
    BY <2>1, ToWriteFits
  <2>3. mails[s] + Cardinality(ToWrite(s)) <= changes[s] /\ mails[s] \in Nat /\ changes[s] \in Nat
    BY DEF DisputesInv, DisputesTypeOK, MailsAreChanges, ToWrite
  <2> QED
    BY <2>2, <2>3
<1>6. MailsAreChanges'
  BY <1>5 DEF DisputesInv, MailsAreChanges, ToWrite
<1> QED
  BY <1>2, <1>3, <1>4, <1>6 DEF DisputesInv

(* The commit counts the change it is going to write about.                *)
LEMMA RecordsStep ==
    ASSUME DisputesInv, NEW d \in Deliveries, RecordsDispute(d)
    PROVE  DisputesInv'
<1> DEFINE holder == delivery[d]
           new == IF holder.prior # holder.status THEN [holder EXCEPT !.step = "notify"] ELSE NoDelivery
<1>1. /\ holder.step = "locked"
      /\ recorded' = holder.status
      /\ changes' = IF recorded # holder.status THEN [changes EXCEPT ![holder.status] = @ + 1] ELSE changes
      /\ delivery' = [delivery EXCEPT ![d] = new]
      /\ UNCHANGED <<reported, mails>>
  BY DEF RecordsDispute
<1>2. /\ holder \in DeliveryRow /\ delivery \in [Deliveries -> DeliveryRow]
      /\ holder.status \in Recordable /\ Reported(holder.status) /\ holder.prior = recorded
  BY <1>1 DEF DisputesInv, DisputesTypeOK, DeliveryOK
<1>3. /\ new \in DeliveryRow
      /\ new.step # "locked"
      /\ new.step = "notify" <=> recorded # holder.status
      /\ new.step = "notify" => new.status = holder.status
  BY <1>2 DEF DeliveryRow, NoDelivery, Statuses
<1> HIDE DEF new
<1>4. /\ delivery'[d] = new
      /\ \A e \in Deliveries \ {d} : delivery'[e] = delivery[e] /\ delivery[e].step # "locked"
  BY <1>1, <1>2 DEF DisputesInv, OneHolder
<1>5. DisputesTypeOK'
  BY <1>1, <1>2, <1>3 DEF DisputesInv, DisputesTypeOK, Statuses, DeliveryRow
<1>6. \A e \in Deliveries : DeliveryOK(delivery[e])'
  <2>1. DeliveryOK(delivery[d])'
    BY <1>1, <1>2, <1>3, <1>4 DEF DeliveryOK, Reported, DeliveryRow
  <2>2. \A e \in Deliveries \ {d} : DeliveryOK(delivery[e])'
    BY <1>1, <1>4 DEF DisputesInv, DeliveryOK, Reported
  <2> QED
    BY <2>1, <2>2
<1>7. OneHolder'
  BY <1>3, <1>4 DEF OneHolder
<1>8. ASSUME NEW s \in Recordable
      PROVE  mails'[s] + Cardinality(ToWrite(s))' <= changes'[s]
  <2>1. /\ mails[s] + Cardinality(ToWrite(s)) <= changes[s]
        /\ mails[s] \in Nat /\ changes[s] \in Nat
        /\ changes'[s] = IF s = holder.status /\ recorded # holder.status THEN changes[s] + 1 ELSE changes[s]
    BY <1>1, <1>2 DEF DisputesInv, DisputesTypeOK, MailsAreChanges, ToWrite
  <2>2. ToWrite(s) \in SUBSET Deliveries
    BY DEF ToWrite
  <2>3. CASE s = holder.status /\ recorded # holder.status
    <3>1. ToWrite(s)' \subseteq ToWrite(s) \cup {d}
      BY <1>4 DEF ToWrite
    <3>2. ToWrite(s) \cup {d} \in SUBSET Deliveries
      BY <2>2
    <3>3. /\ Cardinality(ToWrite(s) \cup {d}) <= Cardinality(ToWrite(s)) + 1
          /\ Cardinality(ToWrite(s)) \in Nat
      BY <2>2, ToWriteFits
    <3>4. /\ Cardinality(ToWrite(s))' <= Cardinality(ToWrite(s) \cup {d})
          /\ Cardinality(ToWrite(s) \cup {d}) \in Nat
      BY <3>1, <3>2, ToWriteFits
    <3>5. Cardinality(ToWrite(s))' \in Nat
      BY <3>1, <3>2, ToWriteFits
    <3> QED
      BY <1>1, <2>1, <2>3, <3>3, <3>4, <3>5
  <2>4. CASE ~(s = holder.status /\ recorded # holder.status)
    <3>1. ToWrite(s)' \subseteq ToWrite(s)
      BY <1>3, <1>4, <2>4 DEF ToWrite
    <3>2. /\ Cardinality(ToWrite(s))' <= Cardinality(ToWrite(s))
          /\ Cardinality(ToWrite(s)) \in Nat
      BY <2>2, <3>1, ToWriteFits
    <3>3. Cardinality(ToWrite(s))' \in Nat
      BY <2>2, <3>1, ToWriteFits
    <3> QED
      BY <1>1, <2>1, <2>4, <3>2, <3>3
  <2> QED
    BY <2>3, <2>4
<1>9. MailsAreChanges'
  BY <1>1, <1>2, <1>8 DEF MailsAreChanges, ToWrite, Reported
<1> QED
  BY <1>5, <1>6, <1>7, <1>9 DEF DisputesInv

(* A mail moves one from what is owed to what was sent.                    *)
LEMMA NotifyStep ==
    ASSUME DisputesInv, NEW d \in Deliveries, NotifyAdmins(d)
    PROVE  DisputesInv'
<1> DEFINE t == delivery[d].status
<1>1. /\ delivery[d].step = "notify"
      /\ mails' = [mails EXCEPT ![t] = @ + 1]
      /\ delivery' = [delivery EXCEPT ![d] = NoDelivery]
      /\ UNCHANGED <<reported, recorded, changes>>
  BY DEF NotifyAdmins
<1>2. /\ delivery \in [Deliveries -> DeliveryRow] /\ t \in Recordable
      /\ NoDelivery \in DeliveryRow /\ NoDelivery.step = "idle"
  BY <1>1 DEF DisputesInv, DisputesTypeOK, DeliveryOK, NoDelivery, DeliveryRow, Statuses
<1>3. /\ delivery'[d] = NoDelivery
      /\ \A e \in Deliveries \ {d} : delivery'[e] = delivery[e]
  BY <1>1, <1>2
<1>4. DisputesTypeOK'
  BY <1>1, <1>2 DEF DisputesInv, DisputesTypeOK, Statuses, DeliveryRow
<1>5. \A e \in Deliveries : DeliveryOK(delivery[e])'
  BY <1>1, <1>2, <1>3 DEF DisputesInv, DeliveryOK, Reported
<1>6. OneHolder'
  BY <1>2, <1>3 DEF DisputesInv, OneHolder
<1>7. ASSUME NEW s \in Recordable
      PROVE  mails'[s] + Cardinality(ToWrite(s))' <= changes'[s]
  <2>1. /\ mails[s] + Cardinality(ToWrite(s)) <= changes[s]
        /\ mails[s] \in Nat /\ changes[s] \in Nat
        /\ mails'[s] = IF s = t THEN mails[s] + 1 ELSE mails[s]
        /\ changes'[s] = changes[s]
    BY <1>1, <1>2 DEF DisputesInv, DisputesTypeOK, MailsAreChanges, ToWrite
  <2>2. ToWrite(s) \in SUBSET Deliveries
    BY DEF ToWrite
  <2>3. CASE s = t
    <3>1. d \in ToWrite(s) /\ ToWrite(s)' = ToWrite(s) \ {d}
      BY <1>1, <1>2, <1>3, <2>3 DEF ToWrite
    <3>2. /\ Cardinality(ToWrite(s))' = Cardinality(ToWrite(s)) - 1
          /\ Cardinality(ToWrite(s)) \in Nat
      BY <2>2, <3>1, ToWriteFits
    <3> QED
      BY <2>1, <2>3, <3>2
  <2>4. CASE s # t
    <3>1. ToWrite(s)' = ToWrite(s)
      BY <1>1, <1>2, <1>3, <2>4 DEF ToWrite
    <3> QED
      BY <2>1, <2>4, <3>1
  <2> QED
    BY <2>3, <2>4
<1>8. MailsAreChanges'
  BY <1>1, <1>7 DEF DisputesInv, MailsAreChanges, ToWrite
<1> QED
  BY <1>4, <1>5, <1>6, <1>8 DEF DisputesInv

(* Nothing is recorded, owed or written at the start.                      *)
LEMMA DisputesInitInv == DisputesInit => DisputesInv
<1> SUFFICES ASSUME DisputesInit PROVE DisputesInv
  OBVIOUS
<1>1. NoDelivery \in DeliveryRow /\ NoDelivery.step = "idle"
  BY DEF NoDelivery, DeliveryRow, Statuses
<1>2. DisputesTypeOK
  BY <1>1 DEF DisputesInit, DisputesTypeOK, Statuses
<1>3. (\A d \in Deliveries : DeliveryOK(delivery[d])) /\ OneHolder
  BY <1>1 DEF DisputesInit, DeliveryOK, OneHolder
<1>4. \A s \in Recordable : ToWrite(s) = {}
  BY <1>1 DEF DisputesInit, ToWrite
<1>5. Cardinality({}) = 0
  BY FS_EmptySet
<1>6. \A s \in Recordable : mails[s] + Cardinality(ToWrite(s)) <= changes[s]
  BY <1>4, <1>5 DEF DisputesInit
<1>7. MailsAreChanges
  BY <1>6 DEF DisputesInit, MailsAreChanges, ToWrite
<1> QED
  BY <1>2, <1>3, <1>7 DEF DisputesInv

(* Every step of Stripe and of the deliveries keeps it.                    *)
LEMMA DisputesStepInv == DisputesInv /\ [DisputesNext]_disputeVars => DisputesInv'
<1> SUFFICES ASSUME DisputesInv, [DisputesNext]_disputeVars PROVE DisputesInv'
  OBVIOUS
<1>1. NoDelivery \in DeliveryRow /\ NoDelivery.step = "idle" /\ DeliveryOK(NoDelivery)
  BY DEF NoDelivery, DeliveryRow, Statuses, DeliveryOK
<1>2. ASSUME reported' \subseteq StripeStatuses, reported \subseteq reported',
             UNCHANGED <<recorded, delivery, changes, mails>>
      PROVE  DisputesInv'
  <2>1. DisputesTypeOK' /\ OneHolder'
    BY <1>2 DEF DisputesInv, DisputesTypeOK, Statuses, DeliveryRow, OneHolder
  <2>2. \A d \in Deliveries : DeliveryOK(delivery[d])'
    BY <1>2 DEF DisputesInv, DeliveryOK, Reported
  <2>3. MailsAreChanges'
    BY <1>2 DEF DisputesInv, MailsAreChanges
  <2> QED
    BY <2>1, <2>2, <2>3 DEF DisputesInv
<1>3. ASSUME NEW status \in StripeStatuses, DisputeMoves(status) PROVE DisputesInv'
  BY <1>2, <1>3 DEF DisputeMoves, DisputesInv, DisputesTypeOK
<1>4. ASSUME NEW d \in Deliveries, NEW status \in reported, DisputeEvent(d, status)
      PROVE  DisputesInv'
  <2>1. ASSUME NEW to \in Recordable, status \in StatusMap[to],
               delivery' = [delivery EXCEPT ![d] =
                               [step |-> "locked", status |-> to, prior |-> recorded]]
        PROVE  DisputesInv'
    <3> DEFINE newRow == [step |-> "locked", status |-> to, prior |-> recorded]
    <3>1. newRow \in DeliveryRow /\ newRow.step = "locked" /\ DeliveryOK(newRow)
      BY <2>1 DEF DisputesInv, DisputesTypeOK, DeliveryRow, Statuses, DeliveryOK, Reported
    <3>2. UNCHANGED <<reported, recorded, changes, mails>> /\ RowIsFree(d)
      BY <1>4 DEF DisputeEvent
    <3>3. newRow.step # "notify"
      OBVIOUS
    <3>4. delivery' = [delivery EXCEPT ![d] = newRow]
      BY <2>1
    <3> HIDE DEF newRow
    <3> QED
      BY <3>1, <3>2, <3>3, <3>4, DeliveryStep
  <2>2. CASE UNCHANGED delivery
    BY <1>2, <1>4, <2>2 DEF DisputeEvent, DisputesInv, DisputesTypeOK
  <2> QED
    BY <1>4, <2>1, <2>2 DEF DisputeEvent
<1>5. ASSUME NEW d \in Deliveries, AbandonsDispute(d) PROVE DisputesInv'
  BY <1>1, <1>5, DeliveryStep DEF AbandonsDispute
<1>6. CASE UNCHANGED disputeVars
  BY <1>2, <1>6 DEF disputeVars, DisputesInv, DisputesTypeOK
<1> QED
  BY <1>3, <1>4, <1>5, <1>6, RecordsStep, NotifyStep DEF DisputesNext

(* However the events of a dispute are repeated and overlap, the admins    *)
(* are written to at most once for each change of the recorded status, and *)
(* the status is one Stripe reported (payments/stripe webhook handlers).   *)
THEOREM MailsAreAlwaysChanges == DisputesSpec => []MailsAreChanges
<1>1. DisputesInv => MailsAreChanges
  BY DEF DisputesInv
<1> QED
  BY <1>1, DisputesInitInv, DisputesStepInv, PTL DEF DisputesSpec

=============================================================================
