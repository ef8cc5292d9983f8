-------------------------- MODULE StatusLogProofs ---------------------------
(***************************************************************************)
(* update_status, for any number of writers, codes and log rows: the       *)
(* snapshot is the status the last change in the log leads to.             *)
(***************************************************************************)
EXTENDS StatusLog, TLAPS

\* After create() the log holds one row, and the snapshot is its status.
LEMMA StatusStart == Init => StatusInv
  BY StatusAssumption
  DEF Init, StatusInv, TypeOK, LogRow, LockInv, IdInv, SnapshotIsLastChange, Changes

\* A commit appends above every committed row, so that the rows that say a
\* change have a new last one, or the snapshot stays.
LEMMA CommitStep ==
    ASSUME StatusInv, NEW w \in Writers, Commit(w)
    PROVE  StatusInv'
<1> DEFINE new == [id |-> row[w], from |-> from[w], to |-> code[w]]
<1>1. log' = log \cup {new} /\ new \in LogRow
    BY DEF StatusInv, TypeOK, Commit, Goto, LogRow
<1>2. pc[w] = "commit" /\ pc' = [pc EXCEPT ![w] = "idle"] /\ rowLock = w /\ rowLock' = Nobody
    BY DEF StatusInv, LockInv, Commit, Goto
<1>3. \A v \in Writers : pc'[v] \notin {"insert", "commit"}
    BY <1>2 DEF StatusInv, TypeOK, LockInv
<1>4. TypeOK'
    BY <1>1, <1>2 DEF StatusInv, TypeOK, Commit, Goto
<1>5. LockInv'
    BY <1>3 DEF LockInv
<1>6. IdInv'
  <2>1. \A r \in log : r.id < nextId
      BY DEF StatusInv, IdInv
  <2>2. new.id < nextId /\ nextId' = nextId
      BY <1>2 DEF StatusInv, IdInv, Commit
  <2> QED
      BY <1>1, <1>3, <2>1, <2>2 DEF IdInv
<1>7. SnapshotIsLastChange'
  <2>1. \A r \in log : r.id < new.id
      BY <1>2 DEF StatusInv, IdInv
  <2>2. CASE code[w] = from[w]
    <3>1. Changes' = Changes /\ snapshot' = snapshot
        BY <1>1, <2>2 DEF Changes, Commit
    <3> QED
        BY <3>1 DEF StatusInv, SnapshotIsLastChange
  <2>3. CASE code[w] # from[w]
    <3>1. Changes' = Changes \cup {new} /\ snapshot' = new.to
        BY <1>1, <2>3 DEF Changes, Commit
    <3>2. \A r \in Changes : r.id \in Nat /\ r.id < new.id
        BY <2>1 DEF Changes, StatusInv, TypeOK, LogRow
    <3>3. new.id \in Nat
        BY DEF StatusInv, TypeOK
    <3> HIDE DEF new
    <3>4. SUFFICES ASSUME NEW r \in Changes', \A s \in Changes' : s.id <= r.id
                   PROVE  r.to = snapshot'
        BY DEF SnapshotIsLastChange
    <3>5. r = new
        BY <3>1, <3>2, <3>3, <3>4
    <3> QED
        BY <3>1, <3>5
  <2> QED
      BY <2>2, <2>3
<1> QED
    BY <1>4, <1>5, <1>6, <1>7 DEF StatusInv

\* No other step touches the log or the snapshot.
LEMMA StatusStep == StatusInv /\ [Next]_vars => StatusInv'
<1> SUFFICES ASSUME StatusInv, [Next]_vars
             PROVE  StatusInv'
    OBVIOUS
<1> USE StatusAssumption
<1>1. CASE UNCHANGED vars
    BY <1>1 DEF vars, StatusInv, TypeOK, LockInv, IdInv, SnapshotIsLastChange, Changes
<1>2. ASSUME NEW w \in Writers, NEW c \in Codes, Read(w, c)
      PROVE  StatusInv'
    BY <1>2 DEF Read, Goto, StatusInv, TypeOK, LockInv, IdInv, SnapshotIsLastChange, Changes
<1>3. ASSUME NEW w \in Writers, Update(w)
      PROVE  StatusInv'
    BY <1>3 DEF Update, Goto, StatusInv, TypeOK, LockInv, IdInv, SnapshotIsLastChange, Changes
<1>4. ASSUME NEW w \in Writers, Insert(w)
      PROVE  StatusInv'
  <2>1. TypeOK' /\ LockInv'
      BY <1>4 DEF Insert, Goto, StatusInv, TypeOK, LockInv
  <2>2. SnapshotIsLastChange'
      BY <1>4 DEF Insert, StatusInv, SnapshotIsLastChange, Changes
  <2>3. \A v \in Writers : pc'[v] = "commit" => v = w
      BY <1>4 DEF Insert, Goto, StatusInv, TypeOK, LockInv
  <2>4. nextId \in Nat /\ nextId' = nextId + 1 /\ row'[w] = nextId /\ log' = log
      BY <1>4 DEF Insert, StatusInv, TypeOK
  <2>5. \A r \in log : r.id \in Nat /\ r.id < nextId
      BY DEF StatusInv, TypeOK, LogRow, IdInv
  <2>6. IdInv'
      BY <2>3, <2>4, <2>5 DEF IdInv
  <2> QED
      BY <2>1, <2>2, <2>6 DEF StatusInv
<1>5. ASSUME NEW w \in Writers, Fail(w)
      PROVE  StatusInv'
    BY <1>5 DEF Fail, StatusInv, TypeOK, LockInv, IdInv, SnapshotIsLastChange, Changes
<1> QED
    BY <1>1, <1>2, <1>3, <1>4, <1>5, CommitStep DEF Next, Step

\* The strengthened invariant of the two status tables.
THEOREM StatusInvariant == Spec => []StatusInv
  BY StatusStart, StatusStep, PTL DEF Spec

\* repository.py: the snapshot follows the log's changes, however many threads
\* and processes write the status of one document at the same time.
THEOREM SnapshotFollowsLog == Spec => []SnapshotIsLastChange
<1>1. StatusInv => SnapshotIsLastChange
    BY DEF StatusInv
<1> QED
    BY <1>1, StatusInvariant, PTL

\* A row is committed above a row whose to_status it took for its from_status.
LEMMA HistoryStep ==
    StatusInv /\ ReadInv /\ FromWasReal /\ [Next]_vars => ReadInv' /\ FromWasReal'
<1> SUFFICES ASSUME StatusInv, ReadInv, FromWasReal, [Next]_vars
             PROVE  ReadInv' /\ FromWasReal'
    OBVIOUS
<1>1. CASE UNCHANGED vars
    BY <1>1 DEF vars, ReadInv, FromWasReal
<1>2. ASSUME NEW w \in Writers, NEW c \in Codes, Read(w, c)
      PROVE  ReadInv' /\ FromWasReal'
    BY <1>2 DEF Read, Goto, StatusInv, TypeOK, ReadInv, FromWasReal
<1>3. ASSUME NEW w \in Writers, Update(w) \/ Insert(w) \/ Fail(w)
      PROVE  ReadInv' /\ FromWasReal'
    BY <1>3 DEF Update, Insert, Fail, Goto, StatusInv, TypeOK, ReadInv, FromWasReal
<1>4. ASSUME NEW w \in Writers, Commit(w)
      PROVE  ReadInv' /\ FromWasReal'
  <2> DEFINE new == [id |-> row[w], from |-> from[w], to |-> code[w]]
  <2>1. log' = log \cup {new}
      BY <1>4 DEF Commit
  <2>2. pc[w] = "commit" /\ pc' = [pc EXCEPT ![w] = "idle"] /\ from' = from
      BY <1>4 DEF Commit, Goto
  <2>3. \E s \in log : s.to = from[w] /\ s.id < new.id
      BY <2>2 DEF ReadInv, StatusInv, IdInv
  <2>4. snapshot' \in {snapshot, new.to}
      BY <1>4 DEF Commit
  <2>5. ReadInv'
      BY <2>1, <2>2, <2>4 DEF ReadInv, StatusInv, TypeOK
  <2>6. FromWasReal'
      BY <2>1, <2>3 DEF FromWasReal
  <2> QED
      BY <2>5, <2>6
<1> QED
    BY <1>1, <1>2, <1>3, <1>4 DEF Next, Step

\* repository.py: a from_status, even a stale one, is a status the document
\* was in before.
THEOREM FromIsReal == Spec => []FromWasReal
<1>1. Init => ReadInv /\ FromWasReal
    BY StatusAssumption DEF Init, ReadInv, FromWasReal
<1> QED
    BY <1>1, HistoryStep, StatusInvariant, PTL DEF Spec

=============================================================================
