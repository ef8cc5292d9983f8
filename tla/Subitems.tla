------------------------------ MODULE Subitems ------------------------------
(***************************************************************************)
(* parse_subitems of scripts/parse_clauses.py: the paragraphs (hang),      *)
(* items (ho) and sub-items (mok) of an article, from the marks its lines  *)
(* begin with.  A mark counts only when it is the next of its numbering,   *)
(* so that a number in the middle of the text is not taken for one.        *)
(*                                                                         *)
(* A line is the kind of mark it begins with, "none" if none, and the      *)
(* mark's number; blank lines are left out.  A reader is where it is in    *)
(* the outline: how many paragraphs there are, whether the first of them   *)
(* is the container of items that have no paragraph, and the items and     *)
(* sub-items so far of the paragraph and the item it is in.                *)
(***************************************************************************)
EXTENDS Integers, Sequences, FiniteSets

CONSTANTS
    Circled,    \* as many paragraphs can be numbered, _CIRCLED
    Letters     \* and sub-items, _MOK_SEQ

ASSUME SubitemsAssumption == Circled \in Nat /\ Letters \in Nat

Start == [hangs |-> 0, container |-> FALSE, ho |-> 0, mok |-> 0]

\* The container is made for the first item, whether or not it is numbered 1.
Contained(r) == IF r.hangs = 0 THEN [r EXCEPT !.hangs = 1, !.container = TRUE] ELSE r

\* What a line does to the reader; a line that is no mark continues the text.
Read(r, line) ==
    CASE line.mark = "hang" /\ r.hangs < Circled /\ line.no = r.hangs + 1 ->
             [r EXCEPT !.hangs = @ + 1, !.ho = 0, !.mok = 0]
      [] line.mark = "ho" ->
             LET c == Contained(r)
             IN  IF line.no = c.ho + 1 THEN [c EXCEPT !.ho = @ + 1, !.mok = 0] ELSE c
      [] line.mark = "mok" /\ r.hangs > 0 /\ r.mok < Letters /\ line.no = r.mok + 1 ->
             [r EXCEPT !.mok = @ + 1]
      [] OTHER -> r

\* The readers after each of the lines.
Readers(lines) ==
    LET readers[n \in 0 .. Len(lines)] ==
            IF n = 0 THEN Start ELSE Read(readers[n - 1], lines[n])
    IN  readers

\* The node that gets line n: a new one, or the item or paragraph it continues,
\* never the sub-item; <<>> before the first of them, where a line is lost.
SubitemOf(lines, n) ==
    LET r == Readers(lines)[n]
        opens == r # Readers(lines)[n - 1] /\ lines[n].mark = "mok"
    IN  IF r.hangs = 0 THEN <<>>
        ELSE <<IF r.container /\ r.hangs = 1 THEN 0 ELSE r.hangs, r.ho, IF opens THEN r.mok ELSE 0>>

\* subitem_counts: the container is no paragraph.
Counts(lines) ==
    LET nodes == {SubitemOf(lines, n) : n \in DOMAIN lines} \ {<<>>}
    IN  <<Cardinality({i[1] : i \in {j \in nodes : j[1] # 0}}),
          Cardinality({<<i[1], i[2]>> : i \in {j \in nodes : j[2] # 0}}),
          Cardinality({i \in nodes : i[3] # 0})>>

=============================================================================
