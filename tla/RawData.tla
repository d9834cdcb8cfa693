-------------------------------- MODULE RawData --------------------------------
(***************************************************************************)
(* The admin's raw data editor: rows of any table but sessions are         *)
(* inserted, updated and deleted, every write leaves a full before/after   *)
(* snapshot in admin_audit_log in the same transaction, and a snapshot can *)
(* be replayed backwards.  The application writes the same rows meanwhile. *)
(*                                                                         *)
(* update_row and delete_row lock the row before they take the snapshot    *)
(* and are two actions: lock and read, write and commit.                   *)
(***************************************************************************)
EXTENDS Integers, Sequences, SequencesExt

CONSTANTS
    Rows,         \* primary keys
    Columns,      \* columns the tool lets an admin edit
    Values,       \* values of those columns
    Edits,        \* admin requests in progress at once
    MaxEntries    \* bound on the audit log

ASSUME RawDataConstants == MaxEntries \in Nat

\* password_hash as the tool meets it: a hash (written by the application),
\* NULL, or the text that stands for one in a snapshot.
Hashes == {"hash", "null", "<redacted>"}
None == [kind |-> "none"]

VARIABLES
    row,     \* [Rows -> row or None]; a row is [kind, cells, hash]
    log,     \* admin_audit_log, in the order of the commits
    edit     \* [Edits -> the write an admin request is about to make, or NoEdit]

rawDataVars == <<row, log, edit>>

NoEdit == [op |-> "idle"]

RawDataInit ==
    /\ row \in [Rows -> {[kind |-> "row", cells |-> c, hash |-> "hash"] :
                            c \in [Columns -> Values]} \cup {None}]
    /\ log = <<>>
    /\ edit = [t \in Edits |-> NoEdit]

\* _serialize_row: every column, the hash struck out.
Snapshot(state) == IF state = None THEN None ELSE [state EXCEPT !.hash = "<redacted>"]

Locked(r) == \E t \in Edits : edit[t] # NoEdit /\ edit[t].target = r

Entry(action, r, before, after) ==
    [action |-> action, target |-> r, before |-> before, after |-> after]

\* The audit rows of one request: the write's own, and, if it replays entry
\* k (0: it does not), the revert's, which quotes that entry's states.
Written(entry, k) ==
    log \o IF k = 0 THEN <<entry>>
           ELSE <<entry, Entry("data.revert", entry.target, log[k].after, log[k].before)>>

Tagged(action, k) ==
    CASE k = 0 -> action
      [] k # 0 /\ action = "data.update" -> "data.update.revert-replay"
      [] k # 0 /\ action = "data.delete" -> "data.delete.revert-replay"
      [] k # 0 /\ action = "data.insert" -> "data.insert.revert-replay"

-----------------------------------------------------------------------------
(***************************************************************************)
(* The write paths.                                                        *)
(***************************************************************************)

\* Mutant: a plain SELECT takes the snapshot.
ReadsUnlocked(r) == TRUE

\* SELECT ... FOR UPDATE waits for whoever holds the row.
MayRead(r) == ~Locked(r)

BeginEdit(t, op, r, cells, k) ==
    /\ edit[t] = NoEdit
    /\ row[r] # None /\ MayRead(r)
    /\ edit' = [edit EXCEPT ![t] = [op |-> op, target |-> r, cells |-> cells, replays |-> k,
                                    before |-> Snapshot(row[r])]]
    /\ UNCHANGED <<row, log>>

\* cells: the new values of the columns the request names.
UpdateRow(t, r, cells) == BeginEdit(t, "update", r, cells, 0)
DeleteRow(t, r) == BeginEdit(t, "delete", r, <<>>, 0)

Overwritten(state, cells) ==
    [state EXCEPT !.cells = [c \in Columns |-> IF c \in DOMAIN cells THEN cells[c] ELSE @[c]]]

UpdateCommits(t) ==
    LET r == edit[t].target
        k == edit[t].replays
        after == Overwritten(row[r], edit[t].cells)
    IN  /\ edit[t].op = "update" /\ row[r] # None
        /\ row' = [row EXCEPT ![r] = after]
        /\ log' = Written(Entry(IF edit[t].before = Snapshot(after) THEN "data.update.noop"
                                ELSE Tagged("data.update", k),
                                r, edit[t].before, Snapshot(after)), k)
        /\ edit' = [edit EXCEPT ![t] = NoEdit]

DeleteCommits(t) ==
    LET r == edit[t].target
        k == edit[t].replays
    IN  /\ edit[t].op = "delete"
        /\ row' = [row EXCEPT ![r] = None]
        /\ log' = Written(Entry(Tagged("data.delete", k), r, edit[t].before, None), k)
        /\ edit' = [edit EXCEPT ![t] = NoEdit]

\* IntegrityError: a constraint, or a row of another table, forbids the
\* write.  Everything is rolled back.
WriteRejected(t) ==
    /\ edit[t] # NoEdit
    /\ edit' = [edit EXCEPT ![t] = NoEdit]
    /\ UNCHANGED <<row, log>>

\* What an INSERT stores of the values it is given: never a hash.
Inserted(state) == [state EXCEPT !.hash = "null"]

Inserts(r, state, k) ==
    /\ row[r] = None
    /\ row' = [row EXCEPT ![r] = Inserted(state)]
    /\ log' = Written(Entry(Tagged("data.insert", k), r, None, Snapshot(state)), k)
    /\ UNCHANGED edit

InsertRow(r, cells) ==
    Inserts(r, [kind |-> "row", cells |-> cells, hash |-> "null"], 0)

-----------------------------------------------------------------------------
(***************************************************************************)
(* revert_change: the entry's before-state through the same write paths.   *)
(* A noop answers without a write; replays and reverts are refused.        *)
(***************************************************************************)

\* Mutant: the entry is replayed forwards.
ReplaysForwards(k) == log[k].after

\* The state an entry is reverted to.
RevertsTo(k) == log[k].before

RevertChange(t, k) ==
    \/ /\ log[k].action = "data.update" /\ RevertsTo(k) # None
       /\ BeginEdit(t, "update", log[k].target, RevertsTo(k).cells, k)
    \/ log[k].action = "data.delete" /\ Inserts(log[k].target, RevertsTo(k), k)
    \/ log[k].action = "data.insert" /\ BeginEdit(t, "delete", log[k].target, <<>>, k)

\* The application's own handlers: a changed column, a password that is
\* set; they wait for the row, and leave no entry.
ApplicationWrites(r, state) ==
    /\ row[r] # None /\ ~Locked(r)
    /\ row' = [row EXCEPT ![r] = state]
    /\ UNCHANGED <<log, edit>>

-----------------------------------------------------------------------------
Partial == UNION {[C -> Values] : C \in SUBSET Columns \ {{}}}

RawDataNext ==
    \/ \E t \in Edits :
          \/ /\ Len(log) < MaxEntries
             /\ \E r \in Rows : DeleteRow(t, r) \/ \E cells \in Partial : UpdateRow(t, r, cells)
          \/ Len(log) < MaxEntries /\ \E k \in DOMAIN log : RevertChange(t, k)
          \/ UpdateCommits(t) \/ DeleteCommits(t) \/ WriteRejected(t)
    \/ \E r \in Rows :
          \/ Len(log) < MaxEntries /\ \E cells \in [Columns -> Values] : InsertRow(r, cells)
          \/ row[r] # None /\ \E cells \in Partial, h \in {row[r].hash, "hash"} :
                ApplicationWrites(r, [Overwritten(row[r], cells) EXCEPT !.hash = h])

RawDataSpec == RawDataInit /\ [][RawDataNext]_rawDataVars

-----------------------------------------------------------------------------
(* The audit row of a write says exactly what the write found and what it  *)
(* left, whoever else was writing: its before-state is what makes it       *)
(* possible to undo.                                                       *)
AuditIsExact ==
    [][log' # log =>
          LET e == log'[Len(log) + 1]
          IN  e.before = Snapshot(row[e.target]) /\ e.after = Snapshot(row'[e.target])]_rawDataVars

(* Undoing an entry while the row is as that entry left it brings back the *)
(* row as it was before it, deleted rows too (not their hash).             *)
UndoRestores ==
    [][Len(log') = Len(log) + 2 =>
          \A k \in DOMAIN log :
              LET r == log[k].target
              IN  /\ log[k].action \in {"data.update", "data.delete", "data.insert"}
                  /\ Last(log') = Entry("data.revert", r, log[k].after, log[k].before)
                  /\ Snapshot(row[r]) = log[k].after
                  => Snapshot(row'[r]) = log[k].before]_rawDataVars

=============================================================================
