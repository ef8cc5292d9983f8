------------------------------ MODULE LazyInit ------------------------------
(***************************************************************************)
(* The lazy singletons of one process: get_embedding_model() (BGE-M3, 2.2  *)
(* GB a copy), _get_qdrant(), paddle's _get_engine() and the semantic      *)
(* router's _get_cache().  All four are the same double-checked locking:   *)
(*                                                                         *)
(*     if X is not None: return X                                          *)
(*     with lock:                                                          *)
(*         if X is None: X = build()                                       *)
(*     return X                                                            *)
(*                                                                         *)
(* Threads call it over and over; build() takes long and may raise, which  *)
(* releases the lock and leaves X unset.                                   *)
(***************************************************************************)
EXTENDS Naturals, FiniteSets

CONSTANTS
    Threads,       \* threads of the process
    Nobody,        \* the lock is free
    MaxFailures    \* bound: how often build() raises

ASSUME LazyAssumption == Nobody \notin Threads /\ MaxFailures \in Nat

VARIABLES
    cell,      \* the module variable: 0 for None, else the number of the object
    lock,      \* who holds the lock
    pc,        \* where each thread stands in the call
    object,    \* the object a thread has built and not yet assigned
    built,     \* how many objects build() has made
    got,       \* what the last call of each thread returned
    failures

vars == <<cell, lock, pc, object, built, got, failures>>

Place == {"idle", "check", "wait", "recheck", "build", "publish", "release", "return"}

\* Every variable keeps its type; the places of a thread are those of the call.
TypeOK ==
    /\ cell \in Nat
    /\ lock \in Threads \cup {Nobody}
    /\ pc \in [Threads -> Place]
    /\ object \in [Threads -> Nat]
    /\ built \in Nat
    /\ got \in [Threads -> Nat]
    /\ failures \in Nat

Init ==
    /\ cell = 0 /\ lock = Nobody
    /\ pc = [t \in Threads |-> "idle"]
    /\ object = [t \in Threads |-> 0]
    /\ built = 0
    /\ got = [t \in Threads |-> 0]
    /\ failures = 0

Move(t, from, to) == pc[t] = from /\ pc' = [pc EXCEPT ![t] = to]

Call(t) == Move(t, "idle", "check") /\ UNCHANGED <<cell, lock, object, built, got, failures>>

\* The fast path, without the lock.
Check(t) ==
    /\ \/ cell # 0 /\ Move(t, "check", "return")
       \/ cell = 0 /\ Move(t, "check", "wait")
    /\ UNCHANGED <<cell, lock, object, built, got, failures>>

\* Mutant: the lock is not waited for.
AcquireAtOnce(t) ==
    /\ Move(t, "wait", "recheck")
    /\ lock' = t
    /\ UNCHANGED <<cell, object, built, got, failures>>

Acquire(t) ==
    /\ Move(t, "wait", "recheck")
    /\ lock = Nobody /\ lock' = t
    /\ UNCHANGED <<cell, object, built, got, failures>>

\* Somebody else may have built it while this thread waited.
Recheck(t) ==
    /\ \/ cell # 0 /\ Move(t, "recheck", "release")
       \/ cell = 0 /\ Move(t, "recheck", "build")
    /\ UNCHANGED <<cell, lock, object, built, got, failures>>

Build(t) ==
    /\ Move(t, "build", "publish")
    /\ built' = built + 1
    /\ object' = [object EXCEPT ![t] = built + 1]
    /\ UNCHANGED <<cell, lock, got, failures>>

\* Mutant: the exception leaves with the lock.
BuildFailsLocked(t) ==
    /\ Move(t, "build", "idle")
    /\ failures < MaxFailures /\ failures' = failures + 1
    /\ UNCHANGED <<cell, lock, object, built, got>>

\* The exception passes through the with statement, to the caller.
BuildFails(t) ==
    /\ Move(t, "build", "idle")
    /\ failures < MaxFailures /\ failures' = failures + 1
    /\ lock' = Nobody
    /\ UNCHANGED <<cell, object, built, got>>

Publish(t) ==
    /\ Move(t, "publish", "release")
    /\ cell' = object[t]
    /\ object' = [object EXCEPT ![t] = 0]
    /\ UNCHANGED <<lock, built, got, failures>>

Release(t) ==
    /\ Move(t, "release", "return")
    /\ lock' = Nobody
    /\ UNCHANGED <<cell, object, built, got, failures>>

\* The module variable is read once more, outside the lock.
Return(t) ==
    /\ Move(t, "return", "idle")
    /\ got' = [got EXCEPT ![t] = cell]
    /\ UNCHANGED <<cell, lock, object, built, failures>>

Finish(t) ==
    \/ Check(t) \/ Acquire(t) \/ Recheck(t) \/ Build(t) \/ BuildFails(t)
    \/ Publish(t) \/ Release(t) \/ Return(t)

Step(t) == Call(t) \/ Finish(t)

Next == \E t \in Threads : Step(t)

Spec == Init /\ [][Next]_vars

-----------------------------------------------------------------------------
\* Properties.

\* The comment of get_embedding_model: preparation happens once.  The model is
\* never in memory twice, however many threads ask at the same time and however
\* often the first attempts fail.
BuiltOnce == built <= 1

\* Who stands where: the lock serialises everything from the second look on,
\* an object under construction means an empty cell, and nobody returns before
\* there is something to return.
InLock(t) == pc[t] \in {"recheck", "build", "publish", "release"}

LockInv == \A t \in Threads : InLock(t) => lock = t

CellInv ==
    \A t \in Threads : /\ pc[t] \in {"build", "publish"} => cell = 0
                       /\ pc[t] \in {"release", "return"} => cell # 0
                       /\ pc[t] = "publish" => object[t] = built

CountInv == /\ cell # 0 \/ (\E t \in Threads : pc[t] = "publish") => built = 1
            /\ cell = 0 /\ (\A t \in Threads : pc[t] # "publish") => built = 0

\* The inductive invariant behind BuiltOnce and the implementation of OnceCell.
LazyInv == TypeOK /\ LockInv /\ CellInv /\ CountInv

\* A call that has begun ends, returning or raising: a thread whose build()
\* raised does not leave the others waiting for the lock.
CallsEnd == \A t \in Threads : pc[t] = "check" ~> pc[t] = "idle"

Once == INSTANCE OnceCell WITH cell <- cell, got <- got, Threads <- Threads

\* Callers cannot tell the locking from a cell that is filled once: no call
\* returns None and no two calls return different objects.
ImplementsOnceCell == Once!Spec

=============================================================================
