------------------------------ MODULE Windows ------------------------------
(***************************************************************************)
(* _sliding_window of utils/chunker_fixed.py: a text is cut into windows   *)
(* of at most WindowSize characters, the next of which starts OverlapSize  *)
(* characters before the end of the one before it.  A text is its length   *)
(* and the positions of the characters it may be cut behind: line breaks,  *)
(* spaces and full stops.                                                  *)
(***************************************************************************)
EXTENDS Integers, Sequences

CONSTANTS
    WindowSize,    \* FIXED_WINDOW_SIZE
    OverlapSize    \* FIXED_OVERLAP_SIZE

\* 800 and 150.
ASSUME WindowsAssumption ==
    /\ WindowSize \in Nat \ {0} /\ OverlapSize \in Nat
    /\ 2 * OverlapSize <= WindowSize

\* Where a window that starts at s may end early: in its second half.
Late(breaks, s) == {b \in breaks : b < s + WindowSize /\ WindowSize < 2 * (b - s)}

\* The window that starts at s ends at e, behind the last place to cut at, if
\* the text goes on.
IsEnd(breaks, length, s, e) ==
    IF s + WindowSize < length /\ Late(breaks, s) # {}
    THEN e - 1 \in Late(breaks, s) /\ \A b \in Late(breaks, s) : b < e
    ELSE e = s + WindowSize

NextStart(s, e) ==
    IF e - s - OverlapSize > 0 THEN e - OverlapSize ELSE s + WindowSize \div 2

\* The windows <<start, end>> of a text, one after the other from its start.
IsCutting(W, breaks, length) ==
    /\ \A w \in W : /\ w[1] < length
                    /\ IsEnd(breaks, length, w[1], w[2])
                    /\ w[1] = 0 \/ \E v \in W : w[1] = NextStart(v[1], v[2])
    /\ \E w \in W : length <= w[2]

EndOf(breaks, length, s) == CHOOSE e \in s..(s + WindowSize) : IsEnd(breaks, length, s, e)

\* The loop.
WindowsFrom(breaks, length) ==
    LET end(s) == EndOf(breaks, length, s)
        next(s) == NextStart(s, end(s))
        from[s \in 0..length] ==
            IF s >= length THEN <<>>
            ELSE <<<<s, end(s)>>>> \o (IF next(s) < length THEN from[next(s)] ELSE <<>>)
    IN  from[0]

\* A text that fits is one window.
SlidingWindow(breaks, length) ==
    IF length <= WindowSize THEN <<<<0, length>>>> ELSE WindowsFrom(breaks, length)

=============================================================================
