----------------------------- MODULE StatusLog ------------------------------
(***************************************************************************)
(* DocumentRepository.update_status for one document, when several threads *)
(* and processes write its status: celery tasks, redelivered tasks and     *)
(* scripts/reindex.py.  tb_document_status_log is the append-only original *)
(* and tb_document_status the snapshot that readers look at.               *)
(*                                                                         *)
(* One call is a SELECT of the snapshot, without a lock, and a commit that *)
(* flushes an UPDATE of the snapshot row and an INSERT into the log.       *)
(* SQLAlchemy flushes mappers by class name, DocumentStatus before         *)
(* DocumentStatusLog, so the row lock of the UPDATE is held when the log   *)
(* id is drawn; and it writes a column only if its value differs from the  *)
(* one that was read.                                                      *)
(***************************************************************************)
EXTENDS Naturals, FiniteSets

CONSTANTS
    Writers,      \* threads and processes that write the status
    Codes,        \* status codes
    Registered,   \* "00", the code create() writes
    Nobody,       \* the row lock is free
    MaxRows       \* bound: ids drawn from the log's sequence

ASSUME StatusAssumption ==
    /\ Registered \in Codes
    /\ Nobody \notin Writers
    /\ MaxRows \in Nat

VARIABLES
    log,        \* committed rows of tb_document_status_log
    nextId,     \* the next value of its BIGSERIAL id
    snapshot,   \* committed tb_document_status.status_code
    rowLock,    \* whose transaction has updated the snapshot row
    pc,         \* where each writer stands in update_status
    code,       \* the status_code it was called with
    from,       \* the status it read
    row         \* the log id its transaction has drawn

vars == <<log, nextId, snapshot, rowLock, pc, code, from, row>>

LogRow == [id : Nat, from : Codes \cup {"null"}, to : Codes]

TypeOK ==
    /\ log \subseteq LogRow
    /\ nextId \in Nat
    /\ snapshot \in Codes
    /\ rowLock \in Writers \cup {Nobody}
    /\ pc \in [Writers -> {"idle", "update", "insert", "commit"}]
    /\ code \in [Writers -> Codes]
    /\ from \in [Writers -> Codes]
    /\ row \in [Writers -> Nat]

\* create() has committed the document and its first log row.
Init ==
    /\ log = {[id |-> 0, from |-> "null", to |-> Registered]}
    /\ nextId = 1
    /\ snapshot = Registered
    /\ rowLock = Nobody
    /\ pc = [w \in Writers |-> "idle"]
    /\ code = [w \in Writers |-> Registered]
    /\ from = [w \in Writers |-> Registered]
    /\ row = [w \in Writers |-> 0]

Goto(w, p, q) == pc[w] = p /\ pc' = [pc EXCEPT ![w] = q]

\* The SELECT: what it finds becomes from_status.
Read(w, c) ==
    /\ Goto(w, "idle", "update")
    /\ code' = [code EXCEPT ![w] = c]
    /\ from' = [from EXCEPT ![w] = snapshot]
    /\ UNCHANGED <<log, nextId, snapshot, rowLock, row>>

\* The UPDATE waits for the row lock; other readers still see the old status.
Update(w) ==
    /\ Goto(w, "update", "insert")
    /\ rowLock = Nobody /\ rowLock' = w
    /\ UNCHANGED <<log, nextId, snapshot, code, from, row>>

\* The INSERT draws its id.
Insert(w) ==
    /\ Goto(w, "insert", "commit")
    /\ nextId <= MaxRows /\ nextId' = nextId + 1
    /\ row' = [row EXCEPT ![w] = nextId]
    /\ UNCHANGED <<log, snapshot, rowLock, code, from>>

\* Mutant: the snapshot is left for later.
CommitLogOnly(w) ==
    /\ Goto(w, "commit", "idle")
    /\ log' = log \cup {[id |-> row[w], from |-> from[w], to |-> code[w]]}
    /\ rowLock' = Nobody
    /\ UNCHANGED <<nextId, snapshot, code, from, row>>

\* Mutant: from_status is taken after the new status was assigned.
CommitOwnFrom(w) ==
    /\ Goto(w, "commit", "idle")
    /\ log' = log \cup {[id |-> row[w], from |-> code[w], to |-> code[w]]}
    /\ snapshot' = code[w]
    /\ rowLock' = Nobody
    /\ UNCHANGED <<nextId, code, from, row>>

\* A status equal to the one that was read is not part of the UPDATE.
Commit(w) ==
    /\ Goto(w, "commit", "idle")
    /\ log' = log \cup {[id |-> row[w], from |-> from[w], to |-> code[w]]}
    /\ snapshot' = IF code[w] = from[w] THEN snapshot ELSE code[w]
    /\ rowLock' = Nobody
    /\ UNCHANGED <<nextId, code, from, row>>

\* Any statement may fail, or the process die: the transaction is rolled back,
\* the id it drew is not used again, and update_status returns False.
Fail(w) ==
    /\ pc[w] # "idle" /\ pc' = [pc EXCEPT ![w] = "idle"]
    /\ rowLock' = IF rowLock = w THEN Nobody ELSE rowLock
    /\ UNCHANGED <<log, nextId, snapshot, code, from, row>>

Step(w) == (\E c \in Codes : Read(w, c)) \/ Update(w) \/ Insert(w) \/ Commit(w) \/ Fail(w)

Next == \E w \in Writers : Step(w)

Spec == Init /\ [][Next]_vars

-----------------------------------------------------------------------------
\* Properties.

\* The rows that say the status changed.
Changes == {r \in log : r.from # r.to}

\* Whoever writes at the same time, the snapshot is the status that the last
\* change of the log leads to: rows enter the log in the order of the updates,
\* because the id is drawn behind the snapshot's row lock.  (A row that names one
\* status twice does not count: it may leave a newer snapshot as it is.)
SnapshotIsLastChange == \A r \in Changes : (\A s \in Changes : s.id <= r.id) => r.to = snapshot

\* from_status is never a status the document has not been in before the row:
\* what update_status reads is committed, and its log row with it.
FromWasReal ==
    \A r \in log : r.from # "null" => \E s \in log : s.id < r.id /\ s.to = r.from

\* The inductive invariant of SnapshotIsLastChange: from the update to the
\* commit a writer holds the row lock, ids in the log are below the ones still
\* to be drawn, and below the one the lock holder has drawn.
LockInv == \A w \in Writers : pc[w] \in {"insert", "commit"} => rowLock = w

IdInv ==
    /\ \A r \in log : r.id < nextId
    /\ \A w \in Writers : pc[w] = "commit" => /\ row[w] < nextId
                                              /\ \A r \in log : r.id < row[w]

StatusInv == TypeOK /\ LockInv /\ IdInv /\ SnapshotIsLastChange

\* What FromWasReal rests on: the snapshot, and whatever a writer has read from
\* it, is the to_status of some committed row.
ReadInv ==
    /\ \E s \in log : s.to = snapshot
    /\ \A w \in Writers : pc[w] # "idle" => \E s \in log : s.to = from[w]

=============================================================================
