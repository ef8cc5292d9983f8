---------------------------- MODULE ReadingOrder ----------------------------
(***************************************************************************)
(* scripts/reconstruct_reading_order.py and scripts/blocks.py: the text of *)
(* a page in several columns, which the conversion reads across them, is   *)
(* put in the order a reader reads it, from the places of its blocks.      *)
(*                                                                         *)
(* A block is its page, 0 where the layout tree has none, and the lower    *)
(* left corner of its box; y grows upwards.  Blocks come in the order in   *)
(* which the layout tree is walked.                                        *)
(***************************************************************************)
EXTENDS Integers, FiniteSets

CONSTANT ColGap    \* COL_GAP

ASSUME ReadingOrderAssumption == ColGap \in Nat

LayoutBlock == [page : Nat, x : Int, y : Int]

\* page_column_bounds: the middle, doubled, of every wide gap between the left
\* edges on page p.
Bounds(blocks, p) ==
    LET xs == {blocks[i].x : i \in {j \in DOMAIN blocks : blocks[j].page = p}}
    IN  {g[1] + g[2] : g \in {h \in xs \X xs :
            h[2] - h[1] > ColGap /\ \A c \in xs : ~(h[1] < c /\ c < h[2])}}

\* column_index counts the bounds up to a block: fewer for i than for j.
LeftOf(blocks, i, j) ==
    \E b \in Bounds(blocks, blocks[i].page) : 2 * blocks[i].x < b /\ b <= 2 * blocks[j].x

\* The key of the sort, and the order of the blocks where the keys are equal.
Before(blocks, i, j) ==
    LET a == blocks[i]
        b == blocks[j]
    IN  \/ a.page < b.page
        \/ /\ a.page = b.page
           /\ \/ LeftOf(blocks, i, j)
              \/ /\ ~LeftOf(blocks, j, i)
                 /\ a.y > b.y \/ (a.y = b.y /\ i < j)

\* The blocks S, one after the other.
Sorted(blocks, S) ==
    [k \in 1..Cardinality(S) |->
        CHOOSE i \in S : Cardinality({j \in S : Before(blocks, j, i)}) = k - 1]

\* reorder of blocks.py has all blocks, first those without a page.
Reorder(blocks) == Sorted(blocks, DOMAIN blocks)

\* reorder of reconstruct_reading_order.py leaves those out.
ReorderNodes(blocks) == Sorted(blocks, {i \in DOMAIN blocks : blocks[i].page # 0})

=============================================================================
