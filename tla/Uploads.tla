-------------------------------- MODULE Uploads --------------------------------
(***************************************************************************)
(* Uploaded files: receipts, documents, evidence of budget entries, proofs *)
(* of payment.  A request flushes the row, with the hash of what it        *)
(* received, then writes the object, and only then commits; so it may      *)
(* leave an object without a row, never a row without its object.  The     *)
(* key of an object holds a fresh id, except that of evidence, which is    *)
(* the budget entry and the file's own name.                               *)
(***************************************************************************)
EXTENDS FiniteSets

CONSTANTS
    Files,      \* upload requests; each one's bytes are its own
    Names,      \* entry/filename of an evidence file, after safe_filename
    Backend,    \* "local" or "r2"
    NoFile

Kinds == {"receipt", "document", "evidence", "proof"}
Torn == "torn"   \* what a failed write to the local disk may leave behind

ASSUME UploadsConstants ==
    /\ Backend \in {"local", "r2"} /\ Names \cap Files = {}
    /\ NoFile \notin Files \cup {Torn}

VARIABLES
    object,   \* [keys -> the upload whose bytes are stored, Torn or NoFile]
    record    \* [Files -> the row, and the request that adds it]

uploadsVars == <<object, record>>

NoRecord == [step |-> "none", kind |-> NoFile, key |-> NoFile, reconciled |-> FALSE]

UploadsInit ==
    /\ object = [k \in Files \cup Names |-> NoFile]
    /\ record = [f \in Files |-> NoRecord]

-----------------------------------------------------------------------------
\* The row is added and flushed; the checks of the content type, of the size
\* and of what it belongs to have passed.
FlushRow(f, kind, key) ==
    /\ record[f] = NoRecord
    /\ record' = [record EXCEPT ![f] =
          [step |-> "flushed", kind |-> kind, key |-> key, reconciled |-> FALSE]]
    /\ UNCHANGED object

CreateReceipt(f) == FlushRow(f, "receipt", f)
CreateDocument(f) == FlushRow(f, "document", f)
AttachProof(f) == FlushRow(f, "proof", f)
AttachEvidence(f, name) == FlushRow(f, "evidence", name)

PutObject(f) ==
    /\ record[f].step = "flushed"
    /\ object' = [object EXCEPT ![record[f].key] = f]
    /\ record' = [record EXCEPT ![f].step = "stored"]

\* The write fails and the transaction is rolled back.  R2 replaces an object
\* as a whole; a local file may have been truncated.
PutFails(f) ==
    /\ record[f].step = "flushed"
    /\ \E left \in {object[record[f].key]} \cup (IF Backend = "local" THEN {Torn} ELSE {}) :
          object' = [object EXCEPT ![record[f].key] = left]
    /\ record' = [record EXCEPT ![f].step = "failed"]

\* Mutant: the row is committed first and the file written after it.
CommitsFirst(r) == r.step \in {"flushed", "stored"}

MayCommit(r) == r.step = "stored"

CommitRow(f) ==
    /\ MayCommit(record[f])
    /\ record' = [record EXCEPT ![f].step = "live"]
    /\ UNCHANGED object

\* The last commit fails, or the process dies: the object is orphaned.
CommitFails(f) ==
    /\ record[f].step = "stored"
    /\ record' = [record EXCEPT ![f].step = "failed"]
    /\ UNCHANGED object

\* Receipts and documents are marked deleted; their objects are kept.
MarkDeleted(f, kind) ==
    /\ record[f].step = "live" /\ record[f].kind = kind
    /\ record' = [record EXCEPT ![f].step = "deleted"]
    /\ UNCHANGED object

DeleteReceipt(f) == MarkDeleted(f, "receipt")
DeleteDocument(f) == MarkDeleted(f, "document")

\* A receipt is matched with a budget entry that is there; not for good.
ReconcileReceipt(f) ==
    /\ record[f].step = "live" /\ record[f].kind = "receipt"
    /\ record' = [record EXCEPT ![f].reconciled = TRUE]
    /\ UNCHANGED object

UploadsNext ==
    \E f \in Files :
        \/ CreateReceipt(f) \/ CreateDocument(f) \/ AttachProof(f)
        \/ \E name \in Names : AttachEvidence(f, name)
        \/ PutObject(f) \/ PutFails(f) \/ CommitRow(f) \/ CommitFails(f)
        \/ DeleteReceipt(f) \/ DeleteDocument(f) \/ ReconcileReceipt(f)

UploadsSpec == UploadsInit /\ [][UploadsNext]_uploadsVars

-----------------------------------------------------------------------------
Kept(f) == record[f].step \in {"live", "deleted"}

(* A committed row has its object, whatever fails in between; and apart    *)
(* from evidence it is the very bytes whose hash the row holds.            *)
RowsHaveTheirFile ==
    \A f \in Files : Kept(f) =>
        /\ object[record[f].key] # NoFile
        /\ record[f].kind # "evidence" => object[record[f].key] = f

=============================================================================
