------------------------------ MODULE OnceCell ------------------------------
(***************************************************************************)
(* What the lazy singletons of the repository promise: in the life of a    *)
(* process an object is put in the cell once, and whoever asks gets that   *)
(* object and no other.                                                    *)
(***************************************************************************)
EXTENDS Naturals

CONSTANT Threads

VARIABLES
    cell,   \* 0, or the number of the object
    got     \* what each thread was handed last

Init == cell = 0 /\ got = [t \in Threads |-> 0]

Fill == cell = 0 /\ cell' \in Nat \ {0} /\ UNCHANGED got

Get(t) == cell # 0 /\ got' = [got EXCEPT ![t] = cell] /\ UNCHANGED cell

\* The process is replaced by a new one.
Restart == cell' = 0 /\ got' = [t \in Threads |-> 0]

Next == Fill \/ Restart \/ \E t \in Threads : Get(t)

Spec == Init /\ [][Next]_<<cell, got>>

=============================================================================
