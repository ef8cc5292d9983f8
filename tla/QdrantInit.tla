----------------------------- MODULE QdrantInit -----------------------------
(***************************************************************************)
(* embed.py's _get_qdrant(): the lazy singleton whose build() prepares a   *)
(* collection in another process.  _ensure_collection() asks whether the   *)
(* collection exists and, if not, creates it and then its payload indexes, *)
(* one request after the other; any request may fail, and the worker may   *)
(* die between two of them, while what Qdrant has done stays done.         *)
(***************************************************************************)
EXTENDS LazyInit

CONSTANTS
    Indexes,      \* how many payload indexes the searches filter by (5)
    MaxCrashes    \* bound: deaths of the worker process

ASSUME QdrantAssumption == Indexes \in Nat \ {0} /\ MaxCrashes \in Nat

VARIABLES
    collection,   \* the collection exists in Qdrant
    indexes,      \* how many of its payload indexes exist
    request,      \* what a thread inside build() asks Qdrant next
    crashes

qdrantVars == <<collection, indexes, request, crashes>>
allVars == <<vars, qdrantVars>>
Request == {"exists", "create", "index", "none"}

QInit ==
    /\ Init
    /\ collection = FALSE /\ indexes = 0
    /\ request = [t \in Threads |-> "exists"]
    /\ crashes = 0

Ask(t, from, to) == pc[t] = "build" /\ request[t] = from /\ request' = [request EXCEPT ![t] = to]

\* collection_exists(): if it does, there is nothing to prepare.
Exists(t) ==
    /\ Ask(t, "exists", IF collection THEN "none" ELSE "create")
    /\ UNCHANGED <<vars, collection, indexes, crashes>>

\* create_collection() fails on a collection that exists; see RequestFails.
Create(t) ==
    /\ Ask(t, "create", "index")
    /\ ~collection /\ collection' = TRUE
    /\ UNCHANGED <<vars, indexes, crashes>>

CreateIndex(t) ==
    /\ Ask(t, "index", IF indexes + 1 = Indexes THEN "none" ELSE "index")
    /\ indexes' = indexes + 1
    /\ UNCHANGED <<vars, collection, crashes>>

\* The client is assigned only when its collection has been looked after.
Client(t) ==
    /\ Build(t) /\ request[t] = "none"
    /\ request' = [request EXCEPT ![t] = "exists"]
    /\ UNCHANGED <<collection, indexes, crashes>>

\* Qdrant does not answer, or refuses: the exception leaves build().
RequestFails(t) ==
    /\ BuildFails(t) /\ request[t] # "none"
    /\ request' = [request EXCEPT ![t] = "exists"]
    /\ UNCHANGED <<collection, indexes, crashes>>

Ring(t) == Call(t) /\ UNCHANGED qdrantVars

Elsewhere(t) ==
    /\ \/ Check(t) \/ Acquire(t) \/ Recheck(t) \/ Publish(t)
       \/ Release(t) \/ Return(t)
    /\ UNCHANGED qdrantVars

\* The process dies; the one that replaces it starts with nothing in memory.
Die ==
    /\ crashes < MaxCrashes /\ crashes' = crashes + 1
    /\ cell' = 0 /\ lock' = Nobody /\ built' = 0
    /\ pc' = [t \in Threads |-> "idle"]
    /\ object' = [t \in Threads |-> 0]
    /\ got' = [t \in Threads |-> 0]
    /\ request' = [t \in Threads |-> "exists"]
    /\ UNCHANGED <<failures, collection, indexes>>

QFinish(t) ==
    \/ Exists(t) \/ Create(t) \/ CreateIndex(t) \/ Client(t) \/ RequestFails(t)
    \/ Elsewhere(t)

QStep(t) == Ring(t) \/ QFinish(t)

QNext == Die \/ \E t \in Threads : QStep(t)

QSpec == QInit /\ [][QNext]_allVars

\* A thread inside a call goes on; nobody has to call, nothing has to fail.
QFairSpec == QSpec /\ \A t \in Threads : WF_allVars(QFinish(t))

-----------------------------------------------------------------------------
\* Properties.

\* _get_qdrant: two threads that both saw "no collection" would both create it
\* and one of them would fail.  The lock prevents it, also when earlier attempts
\* failed or the process died in the middle of one.
CreatedOnce == \A t \in Threads : pc[t] = "build" /\ request[t] = "create" => ~collection

Prepared == collection /\ indexes = Indexes

\* embed.py: the client is made public only "after the preparation of the
\* collection has ended"; whoever holds it can filter by every indexed field.
\* It is so as long as no preparation was interrupted: once a request has
\* failed, or the process died, between create_collection and the last index,
\* the next call finds the collection and skips what is missing, for good.
PreparedUnlessInterrupted ==
    failures = 0 /\ crashes = 0 /\ cell # 0 => Prepared

\* The inductive invariant behind both: a request is under way only inside
\* build(), "create" was decided on while there was no collection, and indexes are
\* missing only while somebody creates them or after an interruption.
QTypeOK == /\ collection \in BOOLEAN /\ indexes \in Nat
           /\ request \in [Threads -> Request] /\ crashes \in Nat

RequestInv ==
    \A t \in Threads : /\ pc[t] # "build" => request[t] = "exists"
                       /\ request[t] = "create" => ~collection
                       /\ request[t] = "index" => collection /\ indexes < Indexes

PreparationInv ==
    /\ ~collection => indexes = 0
    /\ failures = 0 /\ crashes = 0 =>
          /\ collection => Prepared \/ \E t \in Threads : request[t] = "index"
          /\ \A t \in Threads : request[t] = "none" \/ pc[t] = "publish" => Prepared
          /\ cell # 0 => Prepared

QdrantInv == LazyInv /\ QTypeOK /\ RequestInv /\ PreparationInv

=============================================================================
