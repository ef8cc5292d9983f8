--------------------------- MODULE LazyInitProofs ---------------------------
(***************************************************************************)
(* The double-checked locking of LazyInit, for any number of threads and   *)
(* any number of failures: one object is built, and callers see a cell     *)
(* that is filled once.  Then the same of the Qdrant singleton, whose      *)
(* build() prepares a collection that outlives the process, for any number *)
(* of indexes and of deaths of the process.                                *)
(***************************************************************************)
EXTENDS QdrantInit, TLAPS

\* Nothing has been built at the start.
LEMMA LazyStart == Init => LazyInv
  BY LazyAssumption DEF Init, LazyInv, TypeOK, LockInv, InLock, CellInv, CountInv, Place

\* Each step of a call keeps the lock, the cell and the count in agreement.
LEMMA LazyStep == LazyInv /\ [Next]_vars => LazyInv'
<1> SUFFICES ASSUME LazyInv, [Next]_vars
             PROVE  LazyInv'
    OBVIOUS
<1> USE LazyAssumption
<1>1. CASE UNCHANGED vars
    BY <1>1 DEF vars, LazyInv, TypeOK, LockInv, InLock, CellInv, CountInv
<1>2. ASSUME NEW t \in Threads, Call(t)
      PROVE  LazyInv'
    BY <1>2 DEF Call, Move, LazyInv, TypeOK, Place, LockInv, InLock, CellInv, CountInv
<1>3. ASSUME NEW t \in Threads, Check(t)
      PROVE  LazyInv'
    BY <1>3 DEF Check, Move, LazyInv, TypeOK, Place, LockInv, InLock, CellInv, CountInv
<1>4. ASSUME NEW t \in Threads, Acquire(t)
      PROVE  LazyInv'
    BY <1>4 DEF Acquire, Move, LazyInv, TypeOK, Place, LockInv, InLock, CellInv, CountInv
<1>5. ASSUME NEW t \in Threads, Recheck(t)
      PROVE  LazyInv'
    BY <1>5 DEF Recheck, Move, LazyInv, TypeOK, Place, LockInv, InLock, CellInv, CountInv
<1>6. ASSUME NEW t \in Threads, Build(t)
      PROVE  LazyInv'
    BY <1>6 DEF Build, Move, LazyInv, TypeOK, Place, LockInv, InLock, CellInv, CountInv
<1>7. ASSUME NEW t \in Threads, BuildFails(t)
      PROVE  LazyInv'
    BY <1>7 DEF BuildFails, Move, LazyInv, TypeOK, Place, LockInv, InLock, CellInv, CountInv
<1>8. ASSUME NEW t \in Threads, Publish(t)
      PROVE  LazyInv'
    BY <1>8 DEF Publish, Move, LazyInv, TypeOK, Place, LockInv, InLock, CellInv, CountInv
<1>9. ASSUME NEW t \in Threads, Release(t)
      PROVE  LazyInv'
    BY <1>9 DEF Release, Move, LazyInv, TypeOK, Place, LockInv, InLock, CellInv, CountInv
<1>10. ASSUME NEW t \in Threads, Return(t)
       PROVE  LazyInv'
    BY <1>10 DEF Return, Move, LazyInv, TypeOK, Place, LockInv, InLock, CellInv, CountInv
<1> QED
    BY <1>1, <1>2, <1>3, <1>4, <1>5, <1>6, <1>7, <1>8, <1>9, <1>10 DEF Next, Step, Finish

\* The strengthened invariant of the singletons.
THEOREM LazyInvariant == Spec => []LazyInv
  BY LazyStart, LazyStep, PTL DEF Spec

\* get_embedding_model: the model is loaded at most once in a process, for any
\* number of threads that ask for it at the same time.
THEOREM OneObject == Spec => []BuiltOnce
<1>1. LazyInv => BuiltOnce
    BY DEF LazyInv, TypeOK, CountInv, BuiltOnce
<1> QED
    BY <1>1, LazyInvariant, PTL

\* A step of the locking fills the empty cell, hands out its content, or does
\* nothing a caller could see.
LEMMA StepMaps ==
    LazyInv /\ [Next]_vars => [Once!Next]_<<cell, got>>
<1> SUFFICES ASSUME LazyInv, [Next]_vars
             PROVE  Once!Next \/ UNCHANGED <<cell, got>>
    OBVIOUS
<1>1. ASSUME NEW t \in Threads, Publish(t)
      PROVE  Once!Fill
    BY <1>1 DEF Publish, Move, LazyInv, TypeOK, CellInv, CountInv, Once!Fill
<1>2. ASSUME NEW t \in Threads, Return(t)
      PROVE  Once!Get(t)
    BY <1>2 DEF Return, Move, LazyInv, CellInv, Once!Get
<1>3. ASSUME NEW t \in Threads, ~Publish(t), ~Return(t), Step(t)
      PROVE  UNCHANGED <<cell, got>>
    BY <1>3 DEF Step, Finish, Call, Check, Acquire, Recheck, Build, BuildFails, Release
<1>4. CASE UNCHANGED vars
    BY <1>4 DEF vars
<1> QED
    BY <1>1, <1>2, <1>3, <1>4 DEF Next, Step, Finish, Once!Next

\* The locking implements a cell that is filled once: no call returns None, no
\* two calls return different objects.
THEOREM Implements == Spec => ImplementsOnceCell
<1>1. Init => Once!Init
    BY DEF Init, Once!Init
<1> QED
    BY <1>1, LazyInvariant, StepMaps, PTL DEF Spec, ImplementsOnceCell, Once!Spec

-----------------------------------------------------------------------------
\* The Qdrant singleton.

\* A request leaves the locking alone, everything else is a step of it; a new
\* process starts as the first one did.
LEMMA QdrantSteps ==
    ASSUME [QNext]_allVars
    PROVE  [Next]_vars \/ Die
BY DEF QNext, QStep, QFinish, Ring, Elsewhere, Exists, Create, CreateIndex, Client, RequestFails,
       Next, Step, Finish, allVars, vars

\* The lock, the cell and the count agree in every life of the process.
LEMMA QdrantKeepsLazy ==
    ASSUME LazyInv, [QNext]_allVars
    PROVE  LazyInv'
<1>1. CASE [Next]_vars
  BY <1>1, LazyStep
<1>2. CASE Die
  BY <1>2, LazyAssumption DEF Die, LazyInv, TypeOK, LockInv, InLock, CellInv, CountInv, Place
<1>3. QED BY <1>1, <1>2, QdrantSteps

\* Only the holder of the lock is inside build().
LEMMA OneBuilds ==
    ASSUME LazyInv, NEW t \in Threads, pc[t] \in {"recheck", "build", "publish"}
    PROVE  \A u \in Threads : u # t => pc[u] \notin {"recheck", "build", "publish"}
BY DEF LazyInv, LockInv, InLock

\* The steps outside the requests: build() is entered with the first request to
\* ask, and left when there is none to ask.
LEMMA LockingKeepsQdrant ==
    ASSUME QdrantInv, NEW t \in Threads,
           Ring(t) \/ Client(t) \/ RequestFails(t) \/ Elsewhere(t)
    PROVE  QTypeOK' /\ RequestInv' /\ PreparationInv'
<1> USE DEF QdrantInv, LazyInv, TypeOK, CellInv, QTypeOK, Request, qdrantVars, Move
<1>1. CASE RequestFails(t)
  <2>1. /\ pc' = [pc EXCEPT ![t] = "idle"] /\ request' = [request EXCEPT ![t] = "exists"]
        /\ UNCHANGED <<collection, indexes, crashes>> /\ failures' # 0
    BY <1>1 DEF RequestFails, BuildFails
  <2>2. QTypeOK' /\ RequestInv' /\ PreparationInv'
    BY <2>1 DEF RequestInv, PreparationInv
  <2>3. QED BY <2>2
<1>2. CASE Client(t)
  <2>1. /\ pc' = [pc EXCEPT ![t] = "publish"] /\ request' = [request EXCEPT ![t] = "exists"]
        /\ UNCHANGED <<collection, indexes, crashes, cell, failures>>
        /\ request[t] = "none"
    BY <1>2 DEF Client, Build
  <2>2. RequestInv' /\ QTypeOK'
    BY <2>1 DEF RequestInv
  <2>3. PreparationInv'
    BY <2>1 DEF PreparationInv, Prepared
  <2>4. QED BY <2>2, <2>3
<1>3. CASE Publish(t) /\ UNCHANGED qdrantVars
  <2>1. /\ pc' = [pc EXCEPT ![t] = "release"] /\ pc[t] = "publish" /\ UNCHANGED failures
    BY <1>3 DEF Publish
  <2>2. QED BY <1>3, <2>1 DEF RequestInv, PreparationInv, Prepared
<1>4. ASSUME NEW l \in Place \ {"publish"}, pc[t] # "build", Move(t, pc[t], l),
             UNCHANGED <<cell, failures, qdrantVars>>
      PROVE  QTypeOK' /\ RequestInv' /\ PreparationInv'
  BY <1>4 DEF RequestInv, PreparationInv, Prepared
<1>5. CASE Ring(t)
  BY <1>5, <1>4 DEF Ring, Call, Place
<1>6. CASE Elsewhere(t) /\ ~Publish(t)
  BY <1>6, <1>4 DEF Elsewhere, Check, Acquire, Recheck, Release, Return, Place
<1>7. QED BY <1>1, <1>2, <1>3, <1>5, <1>6 DEF Elsewhere

\* The requests: what the answer to "exists" said is still so when the collection
\* is created.
LEMMA RequestsKeepQdrant ==
    ASSUME QdrantInv, NEW t \in Threads, Exists(t) \/ Create(t) \/ CreateIndex(t)
    PROVE  QTypeOK' /\ RequestInv' /\ PreparationInv'
<1> USE QdrantAssumption DEF QdrantInv, QTypeOK, Request, Ask, vars
<1>1. pc[t] = "build" /\ \A u \in Threads : u # t => pc[u] # "build" /\ request[u] = "exists"
  BY OneBuilds DEF Exists, Create, CreateIndex, RequestInv
<1>2. QTypeOK'
  <2>1. collection' \in BOOLEAN
    BY DEF Exists, Create, CreateIndex
  <2>2. request' \in [Threads -> Request]
    BY DEF Exists, Create, CreateIndex
  <2>3. indexes' \in Nat /\ crashes' \in Nat
    BY DEF Exists, Create, CreateIndex
  <2>4. QED BY <2>1, <2>2, <2>3
<1>3. RequestInv'
  BY <1>1 DEF Exists, Create, CreateIndex, RequestInv, PreparationInv
<1>4. pc[t] = "build" /\ cell = 0 /\ \A u \in Threads : u # t => pc[u] # "publish"
  BY <1>1, OneBuilds DEF LazyInv, CellInv
<1>5. PreparationInv'
  <2>1. CASE Exists(t)
    <3>1. \A u \in Threads : request[u] # "index"
      BY <1>1, <2>1 DEF Exists
    <3>2. QED BY <1>1, <1>4, <2>1, <3>1 DEF Exists, PreparationInv, Prepared
  <2>2. CASE Create(t)
    <3>1. request'[t] = "index" /\ request' = [request EXCEPT ![t] = "index"]
      BY <2>2 DEF Create
    <3>2. QED BY <1>1, <1>4, <2>2, <3>1 DEF Create, PreparationInv, Prepared
  <2>3. CASE CreateIndex(t)
    <3>1. collection /\ indexes < Indexes
      BY <2>3 DEF CreateIndex, RequestInv
    <3>2. QED BY <1>1, <1>4, <2>3, <3>1 DEF CreateIndex, PreparationInv, Prepared
  <2>4. QED BY <2>1, <2>2, <2>3
<1>6. QED BY <1>2, <1>3, <1>5

\* The inductive invariant of the preparation of the collection.
THEOREM QdrantInvariant == QSpec => []QdrantInv
<1>1. QInit => QdrantInv
  <2> SUFFICES ASSUME QInit PROVE QdrantInv
    OBVIOUS
  <2>1. ~collection /\ collection \in BOOLEAN
    BY DEF QInit
  <2>2. \A t \in Threads : request[t] = "exists" /\ pc[t] = "idle"
    BY DEF QInit, Init
  <2>3. /\ indexes = 0 /\ crashes = 0 /\ cell = 0 /\ LazyInv
        /\ request \in [Threads -> Request]
    BY LazyStart DEF QInit, Init, Request
  <2>4. QTypeOK
    BY <2>1, <2>3 DEF QTypeOK
  <2>5. RequestInv /\ PreparationInv
    BY <2>1, <2>2, <2>3 DEF RequestInv, PreparationInv
  <2>6. QED BY <2>3, <2>4, <2>5 DEF QdrantInv
<1>2. ASSUME QdrantInv, [QNext]_allVars PROVE QdrantInv'
  <2>1. LazyInv'
    BY <1>2, QdrantKeepsLazy DEF QdrantInv
  <2>2. CASE Die
    <3>1. QTypeOK'
      BY <1>2, <2>2 DEF Die, QdrantInv, QTypeOK, Request
    <3>2. \A t \in Threads : request'[t] = "exists"
      BY <2>2 DEF Die
    <3>3. crashes' # 0 /\ UNCHANGED <<collection, indexes>>
      BY <1>2, <2>2 DEF Die, QdrantInv, QTypeOK
    <3>4. RequestInv' /\ PreparationInv'
      BY <1>2, <3>2, <3>3 DEF QdrantInv, RequestInv, PreparationInv
    <3>5. QED BY <2>1, <3>1, <3>4 DEF QdrantInv
  <2>3. CASE UNCHANGED allVars
    BY <1>2, <2>1, <2>3
       DEF allVars, vars, qdrantVars, QdrantInv, QTypeOK, RequestInv, PreparationInv, Prepared
  <2>4. ASSUME NEW t \in Threads, QStep(t) PROVE QdrantInv'
    BY <1>2, <2>1, <2>4, LockingKeepsQdrant, RequestsKeepQdrant DEF QStep, QFinish, QdrantInv
  <2>5. QED BY <1>2, <2>2, <2>3, <2>4 DEF QNext
<1>3. QED BY <1>1, <1>2, PTL DEF QSpec

\* Two threads never both create the collection, however many ask for the client
\* at once, however often requests fail or the process dies.
THEOREM CollectionOnce == QSpec => []CreatedOnce
<1>1. QdrantInv => CreatedOnce
  BY DEF QdrantInv, RequestInv, CreatedOnce
<1>2. QED BY <1>1, QdrantInvariant, PTL

\* Whoever holds the client can filter by every field, unless a preparation was
\* interrupted between create_collection and the last index.
THEOREM PreparedIfQuiet == QSpec => []PreparedUnlessInterrupted
<1>1. QdrantInv => PreparedUnlessInterrupted
  BY DEF QdrantInv, PreparationInv, PreparedUnlessInterrupted
<1>2. QED BY <1>1, QdrantInvariant, PTL

\* With the requests and the deaths of the process the singleton still implements
\* the cell that is filled once in the life of a process.
THEOREM QdrantImplements == QSpec => ImplementsOnceCell
<1>1. QInit => Once!Init
  BY DEF QInit, Init, Once!Init
<1>2. QdrantInv /\ [QNext]_allVars => [Once!Next]_<<cell, got>>
  <2> SUFFICES ASSUME QdrantInv, [QNext]_allVars
               PROVE  [Once!Next]_<<cell, got>>
    OBVIOUS
  <2>1. CASE Die
    BY <2>1 DEF Die, Once!Next, Once!Restart
  <2>2. CASE [Next]_vars
    BY <2>2, StepMaps DEF QdrantInv
  <2>3. QED BY <2>1, <2>2, QdrantSteps
<1>3. QED BY <1>1, <1>2, QdrantInvariant, PTL DEF QSpec, ImplementsOnceCell, Once!Spec

=============================================================================
