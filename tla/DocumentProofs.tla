--------------------------- MODULE DocumentProofs ---------------------------
(***************************************************************************)
(* Theorems about documents.  First how a page and a text are laid out:    *)
(* the reading order of the blocks of a page, for any width of a gap, any  *)
(* blocks and any number of pages; the columns page triage finds, for any  *)
(* band of search, any page and any blocks; and the windows the fixed      *)
(* chunker cuts a text into, for any size of a window and any text.        *)
(* Then the rows of a document, for any stretches of lines, any answers of *)
(* Paddle, any sizes of chunks and any number of cuts: what the OCR read   *)
(* is kept, each once, and the rows under a heading are numbered in their  *)
(* order.  The inductive invariant DocInv speaks of the rows, and of the   *)
(* points that a recovery makes rows of again.  It needs that either       *)
(* chunker returns a list, whatever lines it is given (CutIsList), which   *)
(* is proved stage by stage: each recursion of the chunkers has the value  *)
(* of its last stage, by induction over the number of them (UpTo).         *)
(***************************************************************************)
EXTENDS ReadingOrder, Triage, Documents, FiniteSetTheorems, SequenceTheorems,
        WellFoundedInduction, TLAPS

-----------------------------------------------------------------------------
\* Reading order.

\* Bounds are numbers, as the left edges are.
LEMMA BoundsAreNumbers ==
    ASSUME NEW D, NEW blocks \in [D -> LayoutBlock], NEW p
    PROVE  Bounds(blocks, p) \subseteq Int
<1> DEFINE xs == {blocks[i].x : i \in {j \in DOMAIN blocks : blocks[j].page = p}}
<1>1. xs \subseteq Int
  BY DEF LayoutBlock
<1> QED
  BY <1>1 DEF Bounds

\* Columns are ordered from left to right, and being in one column is transitive.
LEMMA ColumnsOrdered ==
    ASSUME NEW D, NEW blocks \in [D -> LayoutBlock],
           NEW i \in D, NEW j \in D, NEW k \in D,
           blocks[i].page = blocks[j].page, blocks[j].page = blocks[k].page
    PROVE  /\ ~LeftOf(blocks, i, i)
           /\ LeftOf(blocks, i, j) => ~LeftOf(blocks, j, i)
           /\ LeftOf(blocks, i, j) /\ LeftOf(blocks, j, k) => LeftOf(blocks, i, k)
           /\ LeftOf(blocks, i, k) => LeftOf(blocks, i, j) \/ LeftOf(blocks, j, k)
<1> DEFINE B == Bounds(blocks, blocks[i].page)
<1>1. B \subseteq Int
  BY BoundsAreNumbers
<1>2. blocks[i].x \in Int /\ blocks[j].x \in Int /\ blocks[k].x \in Int
  BY DEF LayoutBlock
<1> HIDE DEF B
<1>3. \A m, n \in {i, j, k} :
          LeftOf(blocks, m, n) <=> \E b \in B : 2 * blocks[m].x < b /\ b <= 2 * blocks[n].x
  BY DEF LeftOf, B
<1> QED
  BY <1>1, <1>2, <1>3

\* The reading order is a strict total order of the blocks: sorting by it puts
\* each block in one place, whatever the order the layout tree has them in
\* within the pages (reorder).
THEOREM ReadingOrderIsTotal ==
    ASSUME NEW n \in Nat, NEW blocks \in [1..n -> LayoutBlock]
    PROVE  /\ \A i \in 1..n : ~Before(blocks, i, i)
           /\ \A i, j \in 1..n : i # j => Before(blocks, i, j) \/ Before(blocks, j, i)
           /\ \A i, j, k \in 1..n :
                 Before(blocks, i, j) /\ Before(blocks, j, k) => Before(blocks, i, k)
<1>1. ASSUME NEW i \in 1..n
      PROVE  ~Before(blocks, i, i)
  <2>1. ~LeftOf(blocks, i, i)
    BY <1>1, ColumnsOrdered
  <2>2. blocks[i].page \in Nat /\ blocks[i].y \in Int
    BY <1>1 DEF LayoutBlock
  <2> QED
    BY <1>1, <2>1, <2>2 DEF Before
<1>2. ASSUME NEW i \in 1..n, NEW j \in 1..n, i # j
      PROVE  Before(blocks, i, j) \/ Before(blocks, j, i)
  <2>1. /\ blocks[i].page \in Nat /\ blocks[i].y \in Int
        /\ blocks[j].page \in Nat /\ blocks[j].y \in Int
    BY <1>2 DEF LayoutBlock
  <2> QED
    BY <1>2, <2>1 DEF Before
<1>3. ASSUME NEW i \in 1..n, NEW j \in 1..n, NEW k \in 1..n,
             Before(blocks, i, j), Before(blocks, j, k)
      PROVE  Before(blocks, i, k)
  <2>1. /\ blocks[i].page \in Nat /\ blocks[i].y \in Int
        /\ blocks[j].page \in Nat /\ blocks[j].y \in Int
        /\ blocks[k].page \in Nat /\ blocks[k].y \in Int
    BY <1>3 DEF LayoutBlock
  <2>2. blocks[i].page <= blocks[j].page /\ blocks[j].page <= blocks[k].page
    BY <1>3, <2>1 DEF Before
  <2>3. CASE blocks[i].page < blocks[k].page
    BY <2>3 DEF Before
  <2>4. CASE blocks[i].page = blocks[k].page
    <3>1. blocks[i].page = blocks[j].page /\ blocks[j].page = blocks[k].page
      BY <2>1, <2>2, <2>4
    <3>2. /\ LeftOf(blocks, i, j) /\ LeftOf(blocks, j, k) => LeftOf(blocks, i, k)
          /\ LeftOf(blocks, i, j) => LeftOf(blocks, i, k) \/ LeftOf(blocks, k, j)
          /\ LeftOf(blocks, j, k) => LeftOf(blocks, j, i) \/ LeftOf(blocks, i, k)
          /\ LeftOf(blocks, k, i) => LeftOf(blocks, k, j) \/ LeftOf(blocks, j, i)
      BY <3>1, ColumnsOrdered
    <3>3. /\ LeftOf(blocks, i, j) \/ (/\ ~LeftOf(blocks, j, i)
                                     /\ \/ blocks[i].y > blocks[j].y
                                        \/ blocks[i].y = blocks[j].y /\ i < j)
          /\ LeftOf(blocks, j, k) \/ (/\ ~LeftOf(blocks, k, j)
                                     /\ \/ blocks[j].y > blocks[k].y
                                        \/ blocks[j].y = blocks[k].y /\ j < k)
      BY <1>3, <2>1, <3>1 DEF Before
    <3>4. /\ LeftOf(blocks, i, j) => ~LeftOf(blocks, j, i)
          /\ LeftOf(blocks, j, k) => ~LeftOf(blocks, k, j)
      BY <3>1, ColumnsOrdered
    <3>5. \/ LeftOf(blocks, i, k)
          \/ /\ ~LeftOf(blocks, k, i)
             /\ \/ blocks[i].y > blocks[k].y
                \/ blocks[i].y = blocks[k].y /\ i < k
      BY <1>3, <2>1, <3>2, <3>3, <3>4
    <3> QED
      BY <2>4, <3>5 DEF Before
  <2> QED
    BY <2>1, <2>2, <2>3, <2>4
<1> QED
  BY <1>1, <1>2, <1>3

\* Blocks that are read as of different columns stand more than the gap apart: a
\* line that is indented less stays in its column (page_column_bounds).
THEOREM ColumnsApart ==
    ASSUME NEW D, NEW blocks \in [D -> LayoutBlock], NEW i \in D, NEW j \in D,
           blocks[i].page = blocks[j].page, LeftOf(blocks, i, j)
    PROVE  blocks[j].x - blocks[i].x > ColGap
<1> DEFINE xs == {blocks[m].x : m \in {l \in DOMAIN blocks : blocks[l].page = blocks[i].page}}
<1>1. xs \subseteq Int /\ blocks[i].x \in xs /\ blocks[j].x \in xs
  BY DEF LayoutBlock
<1>2. PICK b \in Bounds(blocks, blocks[i].page) : 2 * blocks[i].x < b /\ b <= 2 * blocks[j].x
  BY DEF LeftOf
<1>3. PICK lo \in xs, hi \in xs :
          b = lo + hi /\ hi - lo > ColGap /\ \A c \in xs : ~(lo < c /\ c < hi)
  BY <1>2 DEF Bounds
<1> HIDE DEF xs
<1>4. lo \in Int /\ hi \in Int /\ blocks[i].x \in Int /\ blocks[j].x \in Int
  BY <1>1
<1>5. ~(lo < blocks[i].x /\ blocks[i].x < hi) /\ ~(lo < blocks[j].x /\ blocks[j].x < hi)
  BY <1>1, <1>3
<1>6. blocks[i].x <= lo /\ hi <= blocks[j].x
  BY <1>2, <1>3, <1>4, <1>5, ReadingOrderAssumption
<1> QED
  BY <1>3, <1>4, <1>6, ReadingOrderAssumption

-----------------------------------------------------------------------------
\* Columns and gutters.

\* A gutter stands at a place no block covers.
LEMMA GutterIsFree ==
    ASSUME NEW D, NEW blocks \in [D -> Node], NEW w \in Nat, NEW g \in Gutters(blocks, w)
    PROVE  g.at \in Free(blocks, w) /\ g.at \in Int /\ g.width \in Nat \ {0}
<1> DEFINE free == Free(blocks, w)
           size(r) == r[2] - r[1] + 1
<1>1. free \subseteq Int
  BY TriageAssumption DEF Free
<1>2. PICK r \in free \X free : /\ r[1] <= r[2] /\ r[1]..r[2] \subseteq free
                               /\ g = [at |-> r[2] - size(r) \div 2, width |-> size(r)]
  BY DEF Gutters
<1>3. r[1] \in Int /\ r[2] \in Int /\ size(r) \in Nat \ {0}
  BY <1>1, <1>2
<1>4. r[2] - size(r) \div 2 \in r[1]..r[2]
  BY <1>2, <1>3
<1> QED
  BY <1>2, <1>3, <1>4

\* A gutter has every block on exactly one of its sides: the blocks counted to
\* its left and right are all blocks of the page and none is counted twice, so
\* that a title across both columns leaves no gutter there (signals_from_odl).
THEOREM GutterSplitsPage ==
    ASSUME NEW D, NEW blocks \in [D -> Node], NEW w \in Nat, NEW g \in Gutters(blocks, w),
           \A i \in D : blocks[i].left <= blocks[i].right
    PROVE  /\ Left(blocks, g) \cup Right(blocks, g) = D
           /\ Left(blocks, g) \cap Right(blocks, g) = {}
<1>1. g.at \in Free(blocks, w) /\ g.at \in Int
  BY GutterIsFree
<1>2. ASSUME NEW i \in D
      PROVE  (blocks[i].right <= g.at) <=> ~(blocks[i].left >= g.at)
  <2>1. blocks[i].left \in Int /\ blocks[i].right \in Int /\ blocks[i].left <= blocks[i].right
    BY <1>2 DEF Node
  <2>2. ~(blocks[i].left <= g.at /\ g.at <= blocks[i].right)
    BY <1>1, <1>2 DEF Free
  <2> QED
    BY <1>1, <2>1, <2>2
<1>3. DOMAIN blocks = D
  OBVIOUS
<1> QED
  BY <1>2, <1>3 DEF Left, Right

\* There is at most one gutter: the first of the widest stretches.
THEOREM OneGutter ==
    ASSUME NEW D, NEW blocks \in [D -> Node], NEW w \in Nat,
           NEW g \in Gutters(blocks, w), NEW h \in Gutters(blocks, w)
    PROVE  g = h
<1> DEFINE free == Free(blocks, w)
           runs == {r \in free \X free : r[1] <= r[2] /\ r[1]..r[2] \subseteq free}
           size(r) == r[2] - r[1] + 1
           first(r) == \A s \in runs : size(s) < size(r) \/ (size(s) = size(r) /\ r[1] <= s[1])
<1>1. free \subseteq Int
  BY TriageAssumption DEF Free
<1>2. PICK r \in runs : first(r) /\ g = [at |-> r[2] - size(r) \div 2, width |-> size(r)]
  BY DEF Gutters
<1>3. PICK s \in runs : first(s) /\ h = [at |-> s[2] - size(s) \div 2, width |-> size(s)]
  BY DEF Gutters
<1>4. r[1] \in Int /\ r[2] \in Int /\ s[1] \in Int /\ s[2] \in Int
  BY <1>1, <1>2, <1>3
<1>5. r[1] = s[1] /\ r[2] = s[2]
  BY <1>2, <1>3, <1>4
<1> QED
  BY <1>2, <1>3, <1>5

-----------------------------------------------------------------------------
\* Windows.

\* A window is not longer than it may be, the next one starts behind its start,
\* and no text is left out between them.
THEOREM WindowsProgress ==
    ASSUME NEW breaks \in SUBSET Int, NEW length \in Nat, NEW s \in Nat, NEW e \in Int,
           IsEnd(breaks, length, s, e)
    PROVE  /\ s < NextStart(s, e) /\ NextStart(s, e) <= e
           /\ e - s <= WindowSize
           /\ NextStart(s, e) = e - OverlapSize
<1> USE WindowsAssumption DEF NextStart
<1>1. CASE s + WindowSize < length /\ Late(breaks, s) # {}
  <2>1. e - 1 \in Late(breaks, s) BY <1>1 DEF IsEnd
  <2>2. e - 1 < s + WindowSize /\ WindowSize < 2 * (e - 1 - s) BY <2>1 DEF Late
  <2>3. e - s - OverlapSize > 0 BY <2>2
  <2> QED BY <2>2, <2>3
<1>2. CASE ~(s + WindowSize < length /\ Late(breaks, s) # {})
  <2>1. e = s + WindowSize BY <1>2 DEF IsEnd
  <2> QED BY <2>1
<1> QED BY <1>1, <1>2

\* However a text is cut, each stretch that is not longer than the overlap is
\* as a whole in one of the windows: what is said within OverlapSize characters
\* is never torn.
THEOREM ShortStretchesWhole ==
    ASSUME NEW breaks \in SUBSET Nat, NEW length \in Nat, NEW W \in SUBSET (Nat \X Nat),
           IsCutting(W, breaks, length),
           NEW a \in Nat, NEW b \in Nat, a <= b, b <= length, b - a <= OverlapSize
    PROVE  \E w \in W : w[1] <= a /\ b <= w[2]
<1> DEFINE Reaching == {w[1] : w \in {v \in W : b <= v[2]}}
<1>1. Reaching # {} /\ Reaching \subseteq Nat
  <2>1. PICK w \in W : length <= w[2] BY DEF IsCutting
  <2>2. b <= w[2] BY <2>1
  <2> QED BY <2>2
<1> DEFINE Less == {p \in Nat \X Nat : p[1] < p[2]}
<1>2. \E s \in Reaching : \A r \in Reaching : ~(<<r, s>> \in Less)
  <2>1. OpToRel(<, Nat) = Less BY Zenon DEF OpToRel
  <2>2. IsWellFoundedOn(Less, Nat) BY <2>1, NatLessThanWellFounded, Zenon
  <2> HIDE DEF Less, Reaching
  <2> QED BY <1>1, <2>2, WFMin
<1>3. PICK s \in Reaching : \A r \in Reaching : s <= r
  <2>1. ASSUME NEW r \in Nat, NEW s \in Nat, ~(<<r, s>> \in Less) PROVE s <= r
    <3>1. <<r, s>> \in Less <=> r < s OBVIOUS
    <3> QED BY <2>1, <3>1
  <2> HIDE DEF Less, Reaching
  <2> QED BY <1>1, <1>2, <2>1
<1>4. PICK w \in W : w[1] = s /\ b <= w[2] OBVIOUS
<1>5. CASE s = 0 BY <1>4, <1>5
<1>6. CASE s # 0
  <2>1. PICK v \in W : s = NextStart(v[1], v[2]) BY <1>4, <1>6 DEF IsCutting
  <2>2. IsEnd(breaks, length, v[1], v[2]) /\ v[1] \in Nat /\ v[2] \in Nat BY DEF IsCutting
  <2>3. v[1] < s /\ s = v[2] - OverlapSize BY <2>1, <2>2, WindowsProgress
  <2>4. ~(b <= v[2])
    <3>1. SUFFICES ASSUME b <= v[2] PROVE FALSE OBVIOUS
    <3>2. v[1] \in Reaching BY <3>1
    <3> QED BY <3>2, <1>1, <1>3, <2>2, <2>3
  <2>5. s <= a BY <2>2, <2>3, <2>4, WindowsAssumption
  <2> QED BY <1>4, <2>5
<1> QED BY <1>5, <1>6

-----------------------------------------------------------------------------
\* Lists, and what is made of them.

IsList(s) == s \in Seq({s[k] : k \in DOMAIN s})

\* A list has its places.
LEMMA PlacesOfList ==
    ASSUME NEW s, IsList(s)
    PROVE  Len(s) \in Nat /\ DOMAIN s = 1..Len(s) /\ s = [k \in 1..Len(s) |-> s[k]]
<1> DEFINE S == {s[k] : k \in DOMAIN s}
<1>1. s \in Seq(S)
  BY DEF IsList
<1> HIDE DEF S
<1> QED
  BY <1>1, LenProperties

\* A function of the first numbers is a list.
LEMMA ListOf ==
    ASSUME NEW n \in Nat, NEW s, s = [k \in 1..n |-> s[k]]
    PROVE  IsList(s) /\ Len(s) = n
<1> DEFINE S == {s[k] : k \in DOMAIN s}
<1>1. DOMAIN s = 1..n
  OBVIOUS
<1>2. s \in [1..n -> S]
  BY <1>1
<1>3. s \in Seq(S)
  <2>1. s \in UNION {[1..m -> S] : m \in Nat}
    BY <1>2
  <2> HIDE DEF S
  <2> QED
    BY <2>1, SeqDef
<1>4. Len(s) = n
  <2> HIDE DEF S
  <2> QED
    BY <1>1, <1>3, LenProperties
<1> QED
  BY <1>3, <1>4 DEF IsList

\* Two lists, one behind the other.
LEMMA ConcatList ==
    ASSUME NEW s, IsList(s), NEW t, IsList(t)
    PROVE  /\ IsList(s \o t)
           /\ Len(s \o t) = Len(s) + Len(t)
           /\ \A k \in 1..Len(s) : (s \o t)[k] = s[k]
           /\ \A k \in 1..Len(t) : (s \o t)[Len(s) + k] = t[k]
<1> DEFINE S == {s[k] : k \in DOMAIN s} \cup {t[k] : k \in DOMAIN t}
           u == s \o t
<1>1. s \in Seq(S) /\ t \in Seq(S)
  BY DEF IsList
<1> HIDE DEF S
<1>2. /\ u \in Seq(S) /\ Len(u) = Len(s) + Len(t) /\ Len(s) \in Nat /\ Len(t) \in Nat
      /\ \A k \in 1..(Len(s) + Len(t)) : u[k] = IF k <= Len(s) THEN s[k] ELSE t[k - Len(s)]
  BY <1>1, ConcatProperties, LenProperties
<1>3. u = [k \in 1..Len(u) |-> u[k]] /\ Len(u) \in Nat
  BY <1>2, LenProperties
<1> HIDE DEF u
<1>4. IsList(u)
  BY <1>3, ListOf
<1>5. /\ \A k \in 1..Len(s) : k \in 1..(Len(s) + Len(t)) /\ k <= Len(s)
      /\ \A k \in 1..Len(t) : /\ Len(s) + k \in 1..(Len(s) + Len(t))
                              /\ ~(Len(s) + k <= Len(s)) /\ Len(s) + k - Len(s) = k
  BY <1>2
<1> QED
  BY <1>2, <1>4, <1>5 DEF u

\* A set of numbers has a least element.
LEMMA LeastNumber ==
    ASSUME NEW S \in SUBSET Nat, S # {}
    PROVE  \E m \in S : \A n \in S : m <= n
<1> DEFINE Less == OpToRel(<, Nat)
<1>1. IsWellFoundedOn(Less, Nat)
  BY NatLessThanWellFounded
<1>2. \A m, n \in Nat : <<m, n>> \in Less <=> m < n
  BY DEF OpToRel
<1> HIDE DEF Less
<1>3. PICK m \in S : \A n \in S : ~(<<n, m>> \in Less)
  BY <1>1, WFMin
<1>4. ASSUME NEW n \in S
      PROVE  m <= n
  <2>1. m \in Nat /\ n \in Nat
    BY <1>3, <1>4
  <2>2. ~(n < m)
    BY <1>2, <1>3, <1>4, <2>1
  <2> QED
    BY <2>1, <2>2
<1> QED
  BY <1>3, <1>4

\* What holds of the first and goes on from each to the next holds of all.
LEMMA UpTo ==
    ASSUME NEW n \in Nat, NEW P, 0 \in P, \A k \in 1..n : k - 1 \in P => k \in P
    PROVE  \A k \in 0..n : k \in P
<1> DEFINE left == {k \in 0..n : k \notin P}
<1> SUFFICES ASSUME left # {}
             PROVE  FALSE
  OBVIOUS
<1>1. left \in SUBSET Nat
  OBVIOUS
<1>2. PICK m \in left : \A k \in left : m <= k
  BY <1>1, LeastNumber
<1>3. m \in 1..n /\ m - 1 \in 0..n
  BY <1>2
<1>4. m - 1 \in P
  BY <1>2, <1>3
<1> QED
  BY <1>2, <1>3, <1>4

\* Places of a text have a first and a last one.
LEMMA FirstAndLast ==
    ASSUME NEW n \in Nat, NEW S \in SUBSET (1..n), S # {}
    PROVE  /\ Min(S) \in S /\ \A k \in S : Min(S) <= k
           /\ Max(S) \in S /\ \A k \in S : k <= Max(S)
<1>1. \E m \in S : \A k \in S : m <= k
  <2>1. S \in SUBSET Nat
    OBVIOUS
  <2> QED
    BY <2>1, LeastNumber
<1>2. \E m \in S : \A k \in S : m >= k
  <2> DEFINE T == {n - k : k \in S}
  <2>1. T \in SUBSET Nat /\ T # {}
    <3>1. \A k \in S : n - k \in Nat
      OBVIOUS
    <3> QED
      BY <3>1
  <2>2. PICK t \in T : \A u \in T : t <= u
    BY <2>1, LeastNumber
  <2>3. PICK m \in S : t = n - m
    BY <2>2
  <2>4. \A k \in S : n - m <= n - k
    BY <2>2, <2>3
  <2>5. \A k \in S : m >= k
    BY <2>4
  <2> QED
    BY <2>5
<1>3. Min(S) \in S /\ \A k \in S : Min(S) <= k
  BY <1>1 DEF Min
<1>4. Max(S) \in S /\ \A k \in S : Max(S) >= k
  BY <1>2 DEF Max
<1>5. \A k \in S : k \in Int
  OBVIOUS
<1> QED
  BY <1>3, <1>4, <1>5

\* An element put in at a place moves those from there on by one.
LEMMA InsertList ==
    ASSUME NEW s, IsList(s), NEW p \in 1..(Len(s) + 1), NEW e
    PROVE  /\ IsList(InsertAt(s, p, e))
           /\ Len(InsertAt(s, p, e)) = Len(s) + 1
           /\ \A k \in 1..(Len(s) + 1) :
                 InsertAt(s, p, e)[k] = IF k < p THEN s[k] ELSE IF k = p THEN e ELSE s[k - 1]
<1> DEFINE n == Len(s)
           a == SubSeq(s, 1, p - 1)
           b == SubSeq(s, p, n)
<1>1. n \in Nat /\ DOMAIN s = 1..n
  BY PlacesOfList
<1>2. a = [k \in 1..(p - 1) |-> s[k]] /\ p - 1 \in Nat
  BY <1>1 DEF SubSeq
<1>3. b = [k \in 1..(n - p + 1) |-> s[p + k - 1]] /\ n - p + 1 \in Nat
  BY <1>1 DEF SubSeq
<1>4. IsList(a) /\ Len(a) = p - 1
  BY <1>2, ListOf
<1>5. IsList(b) /\ Len(b) = n - p + 1
  <2>1. b = [k \in 1..(n - p + 1) |-> b[k]]
    BY <1>3
  <2> QED
    BY <1>3, <2>1, ListOf
<1>6. IsList(<<e>>) /\ Len(<<e>>) = 1
  BY DEF IsList
<1> HIDE DEF n, a, b
<1>7. /\ IsList(a \o <<e>>) /\ Len(a \o <<e>>) = p
      /\ \A k \in 1..(p - 1) : (a \o <<e>>)[k] = a[k]
      /\ (a \o <<e>>)[p] = e
  <2>1. /\ IsList(a \o <<e>>) /\ Len(a \o <<e>>) = Len(a) + Len(<<e>>)
        /\ \A k \in 1..Len(a) : (a \o <<e>>)[k] = a[k]
        /\ \A k \in 1..Len(<<e>>) : (a \o <<e>>)[Len(a) + k] = <<e>>[k]
    BY <1>4, <1>6, ConcatList
  <2>2. (a \o <<e>>)[p - 1 + 1] = e
    BY <1>4, <1>6, <2>1
  <2>3. p - 1 + 1 = p
    BY <1>1
  <2> QED
    BY <1>4, <1>6, <2>1, <2>2, <2>3
<1> DEFINE c == a \o <<e>>
           u == c \o b
<1> HIDE DEF c
<1>8. /\ IsList(u) /\ Len(u) = p + (n - p + 1)
      /\ \A k \in 1..p : u[k] = c[k]
      /\ \A k \in 1..(n - p + 1) : u[p + k] = b[k]
  <2>1. IsList(c) /\ IsList(b)
    BY <1>5, <1>7 DEF c
  <2>2. /\ IsList(c \o b) /\ Len(c \o b) = Len(c) + Len(b)
        /\ \A k \in 1..Len(c) : (c \o b)[k] = c[k]
        /\ \A k \in 1..Len(b) : (c \o b)[Len(c) + k] = b[k]
    BY <2>1, ConcatList
  <2>3. Len(c) = p /\ Len(b) = n - p + 1
    BY <1>5, <1>7 DEF c
  <2> QED
    BY <2>2, <2>3
<1> HIDE DEF u
<1>9. \A k \in 1..(n + 1) : u[k] = IF k < p THEN s[k] ELSE IF k = p THEN e ELSE s[k - 1]
  <2> TAKE k \in 1..(n + 1)
  <2>1. CASE k < p
    BY <1>1, <1>2, <1>7, <1>8, <2>1 DEF c
  <2>2. CASE k = p
    BY <1>1, <1>7, <1>8, <2>2 DEF c
  <2>3. CASE k > p
    <3>1. k - p \in 1..(n - p + 1) /\ p + (k - p) = k /\ p + (k - p) - 1 = k - 1
      BY <1>1, <2>3
    <3>2. u[p + (k - p)] = b[k - p]
      BY <1>8, <3>1
    <3>3. b[k - p] = s[p + (k - p) - 1]
      BY <1>3, <3>1
    <3> QED
      BY <1>1, <2>3, <3>1, <3>2, <3>3
  <2> QED
    BY <1>1, <2>1, <2>2, <2>3
<1>10. p + (n - p + 1) = n + 1
  BY <1>1
<1> QED
  BY <1>8, <1>9, <1>10 DEF InsertAt, u, c, a, b, n

-----------------------------------------------------------------------------
\* Lists of lists, and rows put in one after the other.

\* FlattenSeq is the last of its stages, each of which is the one before and
\* the next list.
LEMMA FlattenStages ==
    ASSUME NEW ss, Len(ss) \in Nat \ {0}
    PROVE  \E f : /\ f[1] = ss[1]
                  /\ \A i \in 2..Len(ss) : f[i] = f[i - 1] \o ss[i]
                  /\ FlattenSeq(ss) = f[Len(ss)]
<1> DEFINE N == Len(ss)
           Is(f, m) == f = [i \in 1..m |-> IF i = 1 THEN ss[i] ELSE f[i - 1] \o ss[i]]
           able == {m \in Nat : \E f : Is(f, m)}
<1>1. 0 \in able
  <2>1. Is([i \in 1..0 |-> 0], 0)
    OBVIOUS
  <2> QED
    BY <2>1
<1>2. ASSUME NEW m \in 1..N, m - 1 \in able
      PROVE  m \in able
  <2>1. m \in Nat \ {0} /\ N \in Nat
    OBVIOUS
  <2>2. PICK f : Is(f, m - 1)
    BY <1>2
  <2> DEFINE g == [i \in 1..m |-> IF i = m THEN (IF m = 1 THEN ss[m] ELSE f[m - 1] \o ss[m]) ELSE f[i]]
  <2>3. \A i \in 1..(m - 1) : f[i] = IF i = 1 THEN ss[i] ELSE f[i - 1] \o ss[i]
    BY <2>2
  <2>4. \A i \in 1..m : g[i] = IF i = 1 THEN ss[i] ELSE g[i - 1] \o ss[i]
    BY <2>1, <2>3
  <2>5. Is(g, m)
    BY <2>4
  <2> QED
    BY <2>1, <2>5
<1> HIDE DEF able
<1>3. N \in able
  <2>1. N \in Nat /\ N \in 0..N
    OBVIOUS
  <2> HIDE DEF N
  <2> QED
    BY <1>1, <1>2, <2>1, UpTo
<1>4. \E f : Is(f, N)
  BY <1>3 DEF able
<1> DEFINE flatten[i \in 1..N] == IF i = 1 THEN ss[i] ELSE flatten[i - 1] \o ss[i]
<1>5. Is(flatten, N)
  BY <1>4
<1>6. FlattenSeq(ss) = flatten[N]
  BY DEF FlattenSeq
<1> HIDE DEF flatten
<1>7. /\ flatten[1] = ss[1]
      /\ \A i \in 2..N : flatten[i] = flatten[i - 1] \o ss[i]
  <2>1. \A i \in 1..N : flatten[i] = IF i = 1 THEN ss[i] ELSE flatten[i - 1] \o ss[i]
    BY <1>5
  <2>2. /\ N \in Nat \ {0} /\ 1 \in 1..N
        /\ \A i \in 2..N : i \in 1..N /\ i # 1
    OBVIOUS
  <2> HIDE DEF N
  <2> QED
    BY <2>1, <2>2
<1> QED
  BY <1>6, <1>7

\* A merge is the last of its stages, each of which has one row more.
LEMMA MergeStages ==
    ASSUME NEW chunks, NEW kept, Len(kept) \in Nat
    PROVE  \E f : /\ f[0] = chunks
                  /\ \A n \in 1..Len(kept) : f[n] = WithOcr(f[n - 1], kept[n])
                  /\ Merged(chunks, kept) = f[Len(kept)]
<1> DEFINE N == Len(kept)
           Is(f, m) == f = [n \in 0..m |-> IF n = 0 THEN chunks ELSE WithOcr(f[n - 1], kept[n])]
           able == {m \in Nat : \E f : Is(f, m)}
<1>1. 0 \in able
  <2>1. Is([n \in 0..0 |-> chunks], 0)
    OBVIOUS
  <2> QED
    BY <2>1
<1>2. ASSUME NEW m \in 1..N, m - 1 \in able
      PROVE  m \in able
  <2>1. m \in Nat \ {0} /\ N \in Nat
    OBVIOUS
  <2>2. PICK f : Is(f, m - 1)
    BY <1>2
  <2> DEFINE g == [n \in 0..m |-> IF n = m THEN WithOcr(f[m - 1], kept[m]) ELSE f[n]]
  <2>3. \A n \in 0..(m - 1) : f[n] = IF n = 0 THEN chunks ELSE WithOcr(f[n - 1], kept[n])
    BY <2>2
  <2>4. \A n \in 0..m : g[n] = IF n = 0 THEN chunks ELSE WithOcr(g[n - 1], kept[n])
    BY <2>1, <2>3
  <2>5. Is(g, m)
    BY <2>4
  <2> QED
    BY <2>1, <2>5
<1> HIDE DEF able
<1>3. N \in able
  <2>1. N \in Nat /\ N \in 0..N
    OBVIOUS
  <2> HIDE DEF N
  <2> QED
    BY <1>1, <1>2, <2>1, UpTo
<1>4. \E f : Is(f, N)
  BY <1>3 DEF able
<1> DEFINE upto[n \in 0..N] == IF n = 0 THEN chunks ELSE WithOcr(upto[n - 1], kept[n])
<1>5. Is(upto, N)
  BY <1>4
<1>6. Merged(chunks, kept) = upto[N]
  BY DEF Merged
<1> HIDE DEF upto
<1>7. /\ upto[0] = chunks
      /\ \A n \in 1..N : upto[n] = WithOcr(upto[n - 1], kept[n])
  BY <1>5
<1> QED
  BY <1>6, <1>7

-----------------------------------------------------------------------------
\* The rows of the OCR.

\* A record with the fields of a row.
IsRow(r) ==
    r \in [path : {r.path}, kind : {r.kind}, lines : {r.lines}, caption : {r.caption},
           len : {r.len}, start : {r.start}, end : {r.end}, part : {r.part},
           total : {r.total}, ocr : {r.ocr}, seq : {r.seq}]

\* What an image gave are rows of an image or of a table.
AreRows(s) ==
    /\ IsList(s)
    /\ \A k \in DOMAIN s : IsRow(s[k]) /\ (s[k].ocr # <<>> => s[k].kind \in {"image", "table"})

\* Rows of the OCR of the places in I, no two of which are the same.
AreRead(s, I) ==
    /\ AreRows(s)
    /\ \A k \in DOMAIN s : s[k].ocr \in I \X Nat
    /\ \A j, k \in DOMAIN s : s[j].ocr = s[k].ocr => j = k

\* Rows behind rows.
LEMMA ReadBehind ==
    ASSUME NEW s, NEW I \in SUBSET Nat, AreRead(s, I),
           NEW t, NEW J \in SUBSET Nat, AreRead(t, J),
           \A j \in DOMAIN s, k \in DOMAIN t : s[j].ocr # t[k].ocr
    PROVE  AreRead(s \o t, I \cup J)
<1> DEFINE u == s \o t
           m == Len(s)
           n == Len(t)
<1>1. IsList(s) /\ IsList(t)
  BY DEF AreRead, AreRows
<1>2. /\ m \in Nat /\ DOMAIN s = 1..m
      /\ n \in Nat /\ DOMAIN t = 1..n
  BY <1>1, PlacesOfList
<1>3. /\ IsList(u) /\ Len(u) = m + n
      /\ \A k \in 1..m : u[k] = s[k]
      /\ \A k \in 1..n : u[m + k] = t[k]
  BY <1>1, ConcatList
<1>4. DOMAIN u = 1..(m + n)
  BY <1>3, PlacesOfList
<1> HIDE DEF u, m, n
<1>5. \A k \in 1..(m + n) : \/ k \in 1..m /\ u[k] = s[k]
                            \/ k - m \in 1..n /\ u[k] = t[k - m]
  <2> TAKE k \in 1..(m + n)
  <2>1. CASE k <= m
    <3>1. k \in 1..m
      BY <1>2, <2>1
    <3>2. u[k] = s[k]
      BY <1>3, <3>1
    <3> QED
      BY <3>1, <3>2
  <2>2. CASE k > m
    <3>1. k - m \in 1..n /\ m + (k - m) = k
      BY <1>2, <2>2
    <3> QED
      BY <1>3, <3>1
  <2> QED
    BY <1>2, <2>1, <2>2
<1>6. \A k \in 1..(m + n) : /\ IsRow(u[k])
                            /\ u[k].ocr # <<>> => u[k].kind \in {"image", "table"}
                            /\ u[k].ocr \in (I \cup J) \X Nat
  <2> TAKE k \in 1..(m + n)
  <2>1. \A j \in 1..m : /\ IsRow(s[j]) /\ s[j].ocr \in I \X Nat
                        /\ s[j].ocr # <<>> => s[j].kind \in {"image", "table"}
    BY <1>2 DEF AreRead, AreRows
  <2>2. \A j \in 1..n : /\ IsRow(t[j]) /\ t[j].ocr \in J \X Nat
                        /\ t[j].ocr # <<>> => t[j].kind \in {"image", "table"}
    BY <1>2 DEF AreRead, AreRows
  <2> QED
    BY <1>5, <2>1, <2>2
<1>7. \A j, k \in 1..(m + n) : u[j].ocr = u[k].ocr => j = k
  <2> TAKE j, k \in 1..(m + n)
  <2>1. /\ \A a, b \in 1..m : s[a].ocr = s[b].ocr => a = b
        /\ \A a, b \in 1..n : t[a].ocr = t[b].ocr => a = b
        /\ \A a \in 1..m, b \in 1..n : s[a].ocr # t[b].ocr
    BY <1>2 DEF AreRead
  <2>2. j \in Nat /\ k \in Nat
    BY <1>2
  <2> HAVE u[j].ocr = u[k].ocr
  <2>3. \/ j \in 1..m /\ k \in 1..m /\ s[j].ocr = s[k].ocr
        \/ j - m \in 1..n /\ k - m \in 1..n /\ t[j - m].ocr = t[k - m].ocr
    BY <1>5, <2>1
  <2>4. j = k \/ j - m = k - m
    BY <2>1, <2>3
  <2> QED
    BY <1>2, <2>2, <2>4
<1> QED
  BY <1>3, <1>4, <1>6, <1>7 DEF AreRead, AreRows, u

\* No rows.
LEMMA NoneRead ==
    ASSUME NEW I
    PROVE  AreRead(<<>>, I)
<1>1. <<>> = [k \in 1..0 |-> <<>>[k]]
  OBVIOUS
<1>2. IsList(<<>>)
  BY <1>1, ListOf
<1> QED
  BY <1>2 DEF AreRead, AreRows

\* What an answer has are finitely many blocks.
LEMMA BlocksFinite ==
    ASSUME NEW results \in Seq(Result)
    PROVE  IsFiniteSet(DOMAIN Answered(results))
<1>1. CASE results = <<>> \/ ~results[1].sure
  <2>1. Answered(results) = <<>>
    BY <1>1 DEF Answered
  <2>2. DOMAIN <<>> = {}
    OBVIOUS
  <2> QED
    BY <2>1, <2>2, FS_EmptySet
<1>2. CASE ~(results = <<>> \/ ~results[1].sure)
  <2> DEFINE r == results[1]
  <2>1. r \in Result
    <3>1. 1 \in 1..Len(results)
      BY <1>2, EmptySeq
    <3> QED
      BY <3>1, ElementOfSeq
  <2>2. Answered(results) = Blocks(r)
    BY <1>2 DEF Answered
  <2>3. r.parsing \in Seq([label : STRING, text : STRING]) /\ r.tables \in Seq(STRING)
    BY <2>1 DEF Result
  <2> HIDE DEF r
  <2>4. Len(r.parsing) \in Nat /\ DOMAIN r.parsing = 1..Len(r.parsing)
    BY <2>3, LenProperties
  <2>5. Len(r.tables) \in Nat /\ DOMAIN r.tables = 1..Len(r.tables)
    BY <2>3, LenProperties
  <2>6. CASE r.parsing # <<>>
    <3>1. DOMAIN Blocks(r) = 1..Len(r.parsing)
      BY <2>4, <2>6 DEF Blocks
    <3> QED
      BY <2>2, <2>4, <3>1, FS_Interval
  <2>7. CASE r.parsing = <<>>
    <3> DEFINE a == <<Block("text", r.lines)>>
               b == [i \in DOMAIN r.tables |-> Block("table", r.tables[i])]
    <3>1. IsList(a)
      BY DEF IsList
    <3>2. IsList(b)
      <4>1. b = [i \in 1..Len(r.tables) |-> b[i]]
        BY <2>5
      <4> HIDE DEF b
      <4> QED
        BY <2>5, <4>1, ListOf
    <3>3. Blocks(r) = a \o b
      BY <2>7 DEF Blocks
    <3> HIDE DEF a, b
    <3>4. IsList(Blocks(r))
      BY <3>1, <3>2, <3>3, ConcatList
    <3>5. Len(Blocks(r)) \in Nat /\ DOMAIN Blocks(r) = 1..Len(Blocks(r))
      BY <3>4, PlacesOfList
    <3> QED
      BY <2>2, <3>5, FS_Interval
  <2> QED
    BY <2>6, <2>7
<1> QED
  BY <1>1, <1>2

\* A row that the OCR made.
LEMMA OcrRowIsRow ==
    ASSUME NEW lines, NEW i, NEW kind, NEW k
    PROVE  /\ IsRow(OcrRow(lines, i, kind, k))
           /\ OcrRow(lines, i, kind, k).ocr = <<lines[i].at, k>>
           /\ OcrRow(lines, i, kind, k).kind = kind
BY DEF OcrRow, Row, Chunk, IsRow

\* The rows of one image.
LEMMA RowsOfImage ==
    ASSUME NEW lines, NEW i \in Nat, lines[i].at = i, NEW results \in Seq(Result)
    PROVE  AreRead(RowsOf(lines, i, results), {i})
<1> DEFINE blocks == Answered(results)
           tables == {k \in Filled(blocks, "table") : blocks[k].text \notin Stubs}
           c == Cardinality(tables)
           a == IF IsWorthy(lines, blocks) THEN <<OcrRow(lines, i, "image", 0)>> ELSE <<>>
           b == [k \in 1..c |-> OcrRow(lines, i, "table", k)]
<1>1. c \in Nat
  <2>1. tables \in SUBSET DOMAIN blocks
    BY DEF Filled
  <2>2. IsFiniteSet(DOMAIN blocks)
    BY BlocksFinite
  <2> QED
    BY <2>1, <2>2, FS_Subset, FS_CardinalityType
<1>2. RowsOf(lines, i, results) = a \o b
  BY DEF RowsOf
<1> HIDE DEF c
<1>3. AreRead(a, {i})
  <2>1. CASE a = <<>>
    BY <2>1, NoneRead
  <2>2. CASE a = <<OcrRow(lines, i, "image", 0)>>
    <3> DEFINE r == OcrRow(lines, i, "image", 0)
    <3>1. IsRow(r) /\ r.ocr = <<i, 0>> /\ r.kind = "image"
      BY OcrRowIsRow
    <3> HIDE DEF r
    <3>2. IsList(<<r>>) /\ DOMAIN <<r>> = {1} /\ <<r>>[1] = r
      BY DEF IsList
    <3>3. <<i, 0>> \in {i} \X Nat
      OBVIOUS
    <3>4. AreRead(<<r>>, {i})
      BY <3>1, <3>2, <3>3 DEF AreRead, AreRows
    <3> QED
      BY <2>2, <3>4 DEF r
  <2> QED
    BY <2>1, <2>2
<1>4. /\ \A k \in DOMAIN a : a[k].ocr = <<i, 0>>
  <2>1. a = <<>> \/ a = <<OcrRow(lines, i, "image", 0)>>
    OBVIOUS
  <2>2. OcrRow(lines, i, "image", 0).ocr = <<i, 0>>
    BY OcrRowIsRow
  <2> HIDE DEF a
  <2> QED
    BY <2>1, <2>2
<1>5. /\ DOMAIN b = 1..c
      /\ \A k \in 1..c : IsRow(b[k]) /\ b[k].ocr = <<i, k>> /\ b[k].kind = "table"
  BY OcrRowIsRow
<1>6. IsList(b)
  <2>1. b = [k \in 1..c |-> b[k]]
    OBVIOUS
  <2> HIDE DEF b
  <2> QED
    BY <1>1, <2>1, ListOf
<1> HIDE DEF a, b
<1>7. AreRead(b, {i})
  <2>1. \A j, k \in 1..c : b[j].ocr = b[k].ocr => j = k
    BY <1>5
  <2>2. \A k \in 1..c : b[k].ocr \in {i} \X Nat /\ b[k].kind \in {"image", "table"}
    <3>1. \A k \in 1..c : <<i, k>> \in {i} \X Nat
      BY <1>1
    <3> QED
      BY <1>5, <3>1
  <2> QED
    BY <1>5, <1>6, <2>1, <2>2 DEF AreRead, AreRows
<1>8. \A j \in DOMAIN a, k \in DOMAIN b : a[j].ocr # b[k].ocr
  <2> TAKE j \in DOMAIN a, k \in DOMAIN b
  <2>1. a[j].ocr = <<i, 0>> /\ b[k].ocr = <<i, k>> /\ k # 0
    BY <1>1, <1>4, <1>5
  <2> QED
    BY <2>1
<1>9. AreRead(a \o b, {i} \cup {i})
  BY <1>3, <1>7, <1>8, ReadBehind
<1> QED
  BY <1>2, <1>9

\* The rows of a document are those of its images, each once.
LEMMA OcrRowsRead ==
    ASSUME NEW lines \in Seq(Line), lines # <<>>, \A i \in DOMAIN lines : lines[i].at = i,
           NEW answers \in [Figures(lines) -> Found]
    PROVE  AreRead(OcrRows(lines, answers), DOMAIN lines)
<1> DEFINE ss == [i \in DOMAIN lines |->
                     IF i \in Figures(lines) THEN RowsOf(lines, i, answers[i]) ELSE <<>>]
           N == Len(lines)
<1>1. N \in Nat \ {0} /\ DOMAIN lines = 1..N
  BY EmptySeq, LenProperties
<1>2. \A i \in 1..N : AreRead(ss[i], {i})
  <2> TAKE i \in 1..N
  <2>1. CASE i \in Figures(lines)
    <3>1. answers[i] \in Seq(Result)
      BY <2>1, DocumentsAssumption
    <3>2. AreRead(RowsOf(lines, i, answers[i]), {i})
      BY <1>1, <3>1, RowsOfImage
    <3> QED
      BY <1>1, <2>1, <3>2
  <2>2. CASE i \notin Figures(lines)
    <3>1. ss[i] = <<>>
      BY <1>1, <2>2
    <3> QED
      BY <3>1, NoneRead
  <2> QED
    BY <2>1, <2>2
<1>3. Len(ss) = N
  <2>1. ss = [i \in 1..N |-> ss[i]]
    BY <1>1
  <2> HIDE DEF ss, N
  <2> QED
    BY <1>1, <2>1, ListOf
<1>4. OcrRows(lines, answers) = FlattenSeq(ss)
  BY DEF OcrRows
<1> HIDE DEF ss, N
<1>5. PICK f : /\ f[1] = ss[1]
               /\ \A i \in 2..N : f[i] = f[i - 1] \o ss[i]
               /\ FlattenSeq(ss) = f[N]
  BY <1>1, <1>3, FlattenStages
<1> DEFINE P == {0} \cup {n \in 1..N : AreRead(f[n], 1..n)}
<1>6. ASSUME NEW k \in 1..N, k - 1 \in P
      PROVE  k \in P
  <2>1. CASE k = 1
    <3>1. 1 \in 1..N /\ 1..1 = {1}
      BY <1>1
    <3>2. AreRead(f[1], {1})
      BY <1>2, <1>5, <3>1
    <3> QED
      BY <2>1, <3>1, <3>2
  <2>2. CASE k # 1
    <3>1. k \in 2..N /\ k - 1 \in 1..N /\ k - 1 # 0
      BY <1>1, <2>2
    <3>2. AreRead(f[k - 1], 1..(k - 1))
      BY <1>6, <3>1
    <3>3. AreRead(ss[k], {k})
      BY <1>2
    <3>4. \A i \in DOMAIN f[k - 1], j \in DOMAIN ss[k] : f[k - 1][i].ocr # ss[k][j].ocr
      <4> TAKE i \in DOMAIN f[k - 1], j \in DOMAIN ss[k]
      <4>1. PICK x \in 1..(k - 1), m \in Nat : f[k - 1][i].ocr = <<x, m>>
        BY <3>2 DEF AreRead
      <4>2. PICK y \in {k}, n \in Nat : ss[k][j].ocr = <<y, n>>
        <5>1. ss[k][j].ocr \in {k} \X Nat
          BY <3>3 DEF AreRead
        <5> QED
          BY <5>1
      <4>3. x # y
        BY <3>1
      <4> QED
        BY <4>1, <4>2, <4>3
    <3>5. 1..(k - 1) \in SUBSET Nat /\ {k} \in SUBSET Nat /\ 1..(k - 1) \cup {k} = 1..k
      BY <3>1
    <3>6. AreRead(f[k - 1] \o ss[k], 1..k)
      BY <3>2, <3>3, <3>4, <3>5, ReadBehind
    <3> QED
      BY <1>5, <3>1, <3>6
  <2> QED
    BY <2>1, <2>2
<1>7. 0 \in P
  OBVIOUS
<1>8. N \in P
  <2>1. N \in 0..N /\ N \in Nat
    BY <1>1
  <2> HIDE DEF P
  <2> QED
    BY <1>6, <1>7, <2>1, UpTo
<1>9. AreRead(f[N], 1..N)
  BY <1>1, <1>8
<1> QED
  BY <1>1, <1>4, <1>5, <1>9

-----------------------------------------------------------------------------
\* A cut keeps the rows of the OCR.

Read(s) == {k \in DOMAIN s : s[k].ocr # <<>>}

\* Under one heading what was read in images comes after the text.
NativesFirst(s) ==
    \A j, k \in DOMAIN s :
        j < k /\ s[j].path = s[k].path /\ s[k].path # <<>> /\ s[k].ocr = <<>> => s[j].ocr = <<>>

\* Of the rows those of the OCR are the given ones, each once.
Holds(s, made_) ==
    /\ AreRows(s)
    /\ made_ = {s[k].ocr : k \in Read(s)}
    /\ \A j, k \in Read(s) : s[j].ocr = s[k].ocr => j = k

\* The place of a row of the OCR is behind what has its heading.
LEMMA PlaceBehind ==
    ASSUME NEW out, IsList(out), NEW o
    PROVE  /\ Place(out, o) \in 1..(Len(out) + 1)
           /\ o.path # <<>> => \A k \in DOMAIN out : out[k].path = o.path => k < Place(out, o)
<1> DEFINE n == Len(out)
           same == {k \in DOMAIN out : out[k].path = o.path}
           later == {k \in DOMAIN out : out[k].start > o.start}
<1>1. n \in Nat /\ DOMAIN out = 1..n
  BY PlacesOfList
<1>2. same \in SUBSET (1..n) /\ later \in SUBSET (1..n)
  BY <1>1
<1>3. \A k \in DOMAIN out : out[k].path = o.path <=> k \in same
  OBVIOUS
<1> HIDE DEF n, same, later
<1>4. CASE o.path # <<>> /\ same # {}
  <2>1. Place(out, o) = Max(same) + 1
    BY <1>4 DEF Place, same, later
  <2>2. Max(same) \in same /\ \A k \in same : k <= Max(same)
    BY <1>1, <1>2, <1>4, FirstAndLast
  <2>3. Max(same) \in 1..n /\ \A k \in same : k \in 1..n /\ k <= Max(same)
    BY <1>2, <2>2
  <2> QED
    BY <1>1, <1>3, <2>1, <2>3 DEF n
<1>5. CASE o.path = <<>> /\ later # {}
  <2>1. Place(out, o) = Min(later)
    BY <1>5 DEF Place, same, later
  <2>2. Min(later) \in later
    BY <1>1, <1>2, <1>5, FirstAndLast
  <2>3. Min(later) \in 1..n
    BY <1>2, <2>2
  <2> QED
    BY <1>1, <1>5, <2>1, <2>3 DEF n
<1>6. CASE ~(o.path # <<>> /\ same # {}) /\ ~(o.path = <<>> /\ later # {})
  <2>1. Place(out, o) = n + 1
    BY <1>6 DEF Place, same, later, n
  <2> QED
    BY <1>1, <1>3, <1>6, <2>1 DEF n
<1> QED
  BY <1>4, <1>5, <1>6

\* One row of the OCR that is put in.
LEMMA OnePutIn ==
    ASSUME NEW out, NEW M, Holds(out, M), NativesFirst(out),
           NEW o, IsRow(o), o.ocr # <<>>, o.kind \in {"image", "table"}, o.ocr \notin M
    PROVE  Holds(WithOcr(out, o), M \cup {o.ocr}) /\ NativesFirst(WithOcr(out, o))
<1> DEFINE n == Len(out)
           p == Place(out, o)
           new == WithOcr(out, o)
<1>1. IsList(out)
  BY DEF Holds, AreRows
<1>2. n \in Nat /\ DOMAIN out = 1..n
  BY <1>1, PlacesOfList
<1>3. /\ p \in 1..(n + 1)
      /\ o.path # <<>> => \A k \in 1..n : out[k].path = o.path => k < p
  BY <1>1, <1>2, PlaceBehind
<1>4. /\ IsList(new) /\ Len(new) = n + 1
      /\ \A k \in 1..(n + 1) :
            new[k] = IF k < p THEN out[k] ELSE IF k = p THEN o ELSE out[k - 1]
  BY <1>1, <1>3, InsertList DEF WithOcr
<1>5. DOMAIN new = 1..(n + 1)
  BY <1>4, PlacesOfList
<1> HIDE DEF n, p, new
<1> DEFINE from(k) == IF k < p THEN k ELSE k - 1
<1>6. \A k \in 1..(n + 1) : k # p => from(k) \in 1..n /\ new[k] = out[from(k)]
  BY <1>2, <1>3, <1>4
<1>7. new[p] = o
  BY <1>2, <1>3, <1>4
<1>8. \A j, k \in 1..(n + 1) : j # p /\ k # p => /\ from(j) = from(k) => j = k
                                                 /\ j < k => from(j) < from(k)
  BY <1>2, <1>3
<1>9. \A j \in 1..n : \E k \in 1..(n + 1) : k # p /\ from(k) = j
  <2> TAKE j \in 1..n
  <2>1. CASE j < p
    <3>1. j \in 1..(n + 1) /\ j # p /\ from(j) = j
      BY <1>2, <1>3, <2>1
    <3> QED
      BY <3>1
  <2>2. CASE ~(j < p)
    <3>1. j + 1 \in 1..(n + 1) /\ j + 1 # p /\ from(j + 1) = j
      BY <1>2, <1>3, <2>2
    <3> QED
      BY <3>1
  <2> QED
    BY <2>1, <2>2
<1>10. \A j \in 1..n : IsRow(out[j]) /\ (out[j].ocr # <<>> => out[j].kind \in {"image", "table"})
  BY <1>2 DEF Holds, AreRows
<1>11. AreRows(new)
  <2>1. \A k \in 1..(n + 1) : /\ IsRow(new[k])
                              /\ new[k].ocr # <<>> => new[k].kind \in {"image", "table"}
    <3> HIDE DEF from
    <3> QED
      BY <1>6, <1>7, <1>10
  <2> QED
    BY <1>4, <1>5, <2>1 DEF AreRows
<1>12. M = {out[k].ocr : k \in Read(out)} /\ \A j, k \in Read(out) : out[j].ocr = out[k].ocr => j = k
  BY DEF Holds
<1>13. /\ \A k \in 1..(n + 1) : k # p => (k \in Read(new) <=> from(k) \in Read(out))
       /\ p \in Read(new) /\ Read(new) \in SUBSET (1..(n + 1))
  <2> HIDE DEF from
  <2> QED
    BY <1>2, <1>3, <1>5, <1>6, <1>7 DEF Read
<1>14. Read(out) \in SUBSET (1..n)
  BY <1>2 DEF Read
<1> HIDE DEF from
<1>15. M \cup {o.ocr} = {new[k].ocr : k \in Read(new)}
  <2>1. ASSUME NEW k \in Read(new)
        PROVE  new[k].ocr \in M \cup {o.ocr}
    <3>1. CASE k = p
      BY <1>7, <3>1
    <3>2. CASE k # p
      <4>1. k \in 1..(n + 1) /\ from(k) \in Read(out) /\ new[k] = out[from(k)]
        BY <1>6, <1>13, <2>1, <3>2
      <4> QED
        BY <1>12, <4>1
    <3> QED
      BY <3>1, <3>2
  <2>2. ASSUME NEW j \in Read(out)
        PROVE  \E k \in Read(new) : new[k].ocr = out[j].ocr
    <3>1. j \in 1..n
      BY <1>14
    <3>2. PICK k \in 1..(n + 1) : k # p /\ from(k) = j
      BY <1>9, <3>1
    <3>3. k \in Read(new) /\ new[k] = out[j]
      BY <1>6, <1>13, <2>2, <3>2
    <3> QED
      BY <3>3
  <2>3. o.ocr = new[p].ocr
    BY <1>7
  <2> QED
    BY <1>12, <1>13, <2>1, <2>2, <2>3
<1>16. \A j, k \in Read(new) : new[j].ocr = new[k].ocr => j = k
  <2> TAKE j, k \in Read(new)
  <2> HAVE new[j].ocr = new[k].ocr
  <2>1. j \in 1..(n + 1) /\ k \in 1..(n + 1)
    BY <1>13
  <2>2. \A i \in Read(new) : i # p => from(i) \in Read(out) /\ new[i] = out[from(i)] /\ new[i].ocr \in M
    BY <1>6, <1>12, <1>13
  <2>3. CASE j = p \/ k = p
    BY <1>7, <2>2, <2>3
  <2>4. CASE j # p /\ k # p
    <3>1. from(j) = from(k)
      BY <1>12, <2>2, <2>4
    <3> QED
      BY <1>8, <2>1, <2>4, <3>1
  <2> QED
    BY <2>3, <2>4
<1>17. NativesFirst(new)
  <2>1. SUFFICES ASSUME NEW j \in 1..(n + 1), NEW k \in 1..(n + 1),
                        j < k, new[j].path = new[k].path, new[k].path # <<>>, new[k].ocr = <<>>
                 PROVE  new[j].ocr = <<>>
    BY <1>5 DEF NativesFirst
  <2>2. k # p
    BY <1>7, <2>1
  <2>3. from(k) \in 1..n /\ new[k] = out[from(k)]
    BY <1>6, <2>2
  <2>4. CASE j = p
    <3>1. o.path # <<>> /\ out[from(k)].path = o.path
      BY <1>7, <2>1, <2>3, <2>4
    <3>2. from(k) < p
      BY <1>3, <2>3, <3>1
    <3>3. k > p
      BY <2>1, <2>4
    <3> QED
      BY <1>2, <1>3, <3>2, <3>3 DEF from
  <2>5. CASE j # p
    <3>1. from(j) \in 1..n /\ new[j] = out[from(j)] /\ from(j) < from(k)
      BY <1>6, <1>8, <2>1, <2>2, <2>5
    <3> QED
      BY <1>2, <2>1, <2>3, <3>1 DEF NativesFirst
  <2> QED
    BY <2>4, <2>5
<1> QED
  BY <1>11, <1>15, <1>16, <1>17 DEF Holds, new

\* All rows of the OCR that are put in.
LEMMA AllPutIn ==
    ASSUME NEW chunks, Holds(chunks, {}), NativesFirst(chunks),
           NEW kept, NEW M, Holds(kept, M), Read(kept) = DOMAIN kept
    PROVE  Holds(Merged(chunks, kept), M) /\ NativesFirst(Merged(chunks, kept))
<1> DEFINE N == Len(kept)
           Of(n) == {kept[j].ocr : j \in 1..n}
<1>1. N \in Nat /\ DOMAIN kept = 1..N
  BY PlacesOfList DEF Holds, AreRows
<1>2. \A j \in 1..N : /\ IsRow(kept[j]) /\ kept[j].ocr # <<>>
                      /\ kept[j].kind \in {"image", "table"}
  <2>1. \A j \in 1..N : kept[j].ocr # <<>>
    BY <1>1 DEF Read
  <2> QED
    BY <1>1, <2>1 DEF Holds, AreRows
<1>3. M = Of(N) /\ \A j, k \in 1..N : kept[j].ocr = kept[k].ocr => j = k
  BY <1>1 DEF Holds
<1>4. PICK f : /\ f[0] = chunks
               /\ \A n \in 1..N : f[n] = WithOcr(f[n - 1], kept[n])
               /\ Merged(chunks, kept) = f[N]
  BY <1>1, MergeStages
<1> HIDE DEF N
<1> DEFINE P == {n \in 0..N : Holds(f[n], Of(n)) /\ NativesFirst(f[n])}
<1>5. 0 \in P
  <2>1. Of(0) = {} /\ 0 \in 0..N
    BY <1>1
  <2> QED
    BY <1>4, <2>1
<1>6. ASSUME NEW k \in 1..N, k - 1 \in P
      PROVE  k \in P
  <2>1. Holds(f[k - 1], Of(k - 1)) /\ NativesFirst(f[k - 1])
    BY <1>6
  <2>2. kept[k].ocr \notin Of(k - 1)
    <3>1. \A j \in 1..(k - 1) : j \in 1..N /\ j # k
      BY <1>1
    <3> QED
      BY <1>3, <3>1
  <2>3. Of(k - 1) \cup {kept[k].ocr} = Of(k)
    <3>1. 1..(k - 1) \cup {k} = 1..k
      BY <1>1
    <3> QED
      BY <3>1
  <2> HIDE DEF Of
  <2>4. Holds(WithOcr(f[k - 1], kept[k]), Of(k)) /\ NativesFirst(WithOcr(f[k - 1], kept[k]))
    BY <1>2, <2>1, <2>2, <2>3, OnePutIn
  <2>5. k \in 0..N
    BY <1>1
  <2> QED
    BY <1>4, <2>4, <2>5
<1>7. N \in P
  <2>1. N \in 0..N
    BY <1>1
  <2> HIDE DEF P
  <2> QED
    BY <1>1, <1>5, <1>6, <2>1, UpTo
<1> QED
  BY <1>3, <1>4, <1>7

\* The rows a cut makes of the text.
LEMMA TextHolds ==
    ASSUME NEW chunks, IsList(chunks)
    PROVE  Holds(TextRows(chunks), {}) /\ NativesFirst(TextRows(chunks))
<1> DEFINE s == TextRows(chunks)
           n == Len(chunks)
<1>1. n \in Nat /\ DOMAIN chunks = 1..n
  BY PlacesOfList
<1>2. /\ s = [k \in 1..n |-> s[k]] /\ DOMAIN s = 1..n
      /\ \A k \in 1..n : s[k] = Row(chunks[k], <<>>)
  BY <1>1 DEF TextRows
<1> HIDE DEF s, n
<1>3. IsList(s)
  BY <1>1, <1>2, ListOf
<1>4. \A k \in 1..n : IsRow(s[k]) /\ s[k].ocr = <<>>
  BY <1>2 DEF Row, IsRow
<1>5. Read(s) = {}
  BY <1>2, <1>4 DEF Read
<1> QED
  BY <1>2, <1>3, <1>4, <1>5 DEF Holds, AreRows, NativesFirst, s

\* What is kept of rows is what the OCR made.
LEMMA PreservedHolds ==
    ASSUME NEW M, Holds(rows, M), NEW kept \in Preserved
    PROVE  Holds(kept, M) /\ Read(kept) = DOMAIN kept
<1> DEFINE ocr == {k \in DOMAIN rows : IsOcr(rows[k])}
           c == Cardinality(ocr)
<1>1. Len(rows) \in Nat /\ DOMAIN rows = 1..Len(rows)
  BY PlacesOfList DEF Holds, AreRows
<1>2. ocr = Read(rows)
  BY DEF Holds, AreRows, Read, IsOcr
<1>3. c \in Nat
  <2>1. ocr \in SUBSET (1..Len(rows)) /\ IsFiniteSet(1..Len(rows))
    BY <1>1, FS_Interval
  <2> QED
    BY <2>1, FS_Subset, FS_CardinalityType
<1>4. PICK f \in Bijection(1..c, ocr) : kept = [k \in DOMAIN f |-> rows[f[k]]]
  BY DEF Preserved
<1> HIDE DEF ocr, c
<1>5. /\ DOMAIN f = 1..c /\ \A k \in 1..c : f[k] \in ocr
      /\ \A j, k \in 1..c : f[j] = f[k] => j = k
      /\ \A i \in ocr : \E k \in 1..c : f[k] = i
  BY DEF Bijection, Injection, Surjection, IsInjective
<1>6. kept = [k \in 1..c |-> kept[k]] /\ DOMAIN kept = 1..c /\ \A k \in 1..c : kept[k] = rows[f[k]]
  BY <1>4, <1>5
<1>7. IsList(kept)
  BY <1>3, <1>6, ListOf
<1>8. /\ \A i \in Read(rows) : /\ IsRow(rows[i]) /\ rows[i].ocr # <<>>
                               /\ rows[i].kind \in {"image", "table"}
      /\ M = {rows[k].ocr : k \in Read(rows)}
      /\ \A j, k \in Read(rows) : rows[j].ocr = rows[k].ocr => j = k
  BY DEF Holds, AreRows, Read
<1>9. Read(kept) = 1..c /\ AreRows(kept)
  BY <1>2, <1>5, <1>6, <1>7, <1>8 DEF Read, AreRows
<1>10. M = {kept[k].ocr : k \in 1..c}
  <2>1. \A k \in 1..c : kept[k].ocr \in M
    BY <1>2, <1>5, <1>6, <1>8
  <2>2. \A i \in Read(rows) : \E k \in 1..c : kept[k].ocr = rows[i].ocr
    BY <1>2, <1>5, <1>6
  <2> QED
    BY <1>8, <2>1, <2>2
<1>11. \A j, k \in 1..c : kept[j].ocr = kept[k].ocr => j = k
  BY <1>2, <1>5, <1>6, <1>8
<1> QED
  BY <1>6, <1>9, <1>10, <1>11 DEF Holds

\* The rows under one heading are numbered in their order, text first.
Numbered(s) ==
    /\ NativesFirst(s)
    /\ \A k \in DOMAIN s :
          /\ s[k].seq = k
          /\ s[k].path # <<>> =>
                LET group == {j \in DOMAIN s : s[j].path = s[k].path}
                IN  s[k].part = Cardinality({j \in group : j <= k}) /\ s[k].total = Cardinality(group)

\* Rows that differ from others in nothing that the promises are about.
LEMMA AlikeHold ==
    ASSUME NEW s, NEW M, Holds(s, M), NEW t, DOMAIN t = DOMAIN s, t = [k \in DOMAIN s |-> t[k]],
           \A k \in DOMAIN s : /\ IsRow(t[k]) /\ t[k].path = s[k].path
                               /\ t[k].ocr = s[k].ocr /\ t[k].kind = s[k].kind
    PROVE  Holds(t, M) /\ (NativesFirst(s) => NativesFirst(t))
<1>1. Len(s) \in Nat /\ DOMAIN s = 1..Len(s)
  BY PlacesOfList DEF Holds, AreRows
<1>2. IsList(t)
  BY <1>1, ListOf
<1>3. Read(t) = Read(s)
  BY DEF Read
<1>4. AreRows(t)
  BY <1>2 DEF Holds, AreRows
<1>5. \A k \in Read(s) : k \in DOMAIN s
  BY DEF Read
<1>6. /\ M = {t[k].ocr : k \in Read(t)}
      /\ \A j, k \in Read(t) : t[j].ocr = t[k].ocr => j = k
  BY <1>3, <1>5 DEF Holds
<1>7. NativesFirst(s) => NativesFirst(t)
  BY DEF NativesFirst
<1> QED
  BY <1>4, <1>6, <1>7 DEF Holds

\* Numbers set in a row.
WithNumbers(r, x, y) == [r EXCEPT !.part = x, !.total = y]

\* A row that is numbered is a row.
LEMMA NumberedRow ==
    ASSUME NEW r, IsRow(r), NEW x, NEW y
    PROVE  LET q == WithNumbers(r, x, y)
           IN  /\ IsRow(q) /\ q.path = r.path /\ q.ocr = r.ocr /\ q.kind = r.kind
               /\ q.part = x /\ q.total = y
<1> DEFINE p == [r EXCEPT !.part = x]
           q == [p EXCEPT !.total = y]
<1>1. IsRow(p)
  BY DEF IsRow
<1>2. /\ p.path = r.path /\ p.ocr = r.ocr /\ p.kind = r.kind /\ p.part = x
  BY DEF IsRow
<1>3. WithNumbers(r, x, y) = q
  BY DEF WithNumbers
<1> HIDE DEF p
<1>4. /\ q.path = p.path /\ q.ocr = p.ocr /\ q.kind = p.kind
      /\ q.part = p.part /\ q.total = y
  BY <1>1 DEF IsRow
<1>5. IsRow(q)
  BY <1>1 DEF IsRow
<1> HIDE DEF q
<1> QED
  BY <1>2, <1>3, <1>4, <1>5

\* So is one with its place.
LEMMA PlacedRow ==
    ASSUME NEW r, IsRow(r), NEW x, NEW q, q = [r EXCEPT !.seq = x]
    PROVE  /\ IsRow(q) /\ q.path = r.path /\ q.ocr = r.ocr /\ q.kind = r.kind
           /\ q.part = r.part /\ q.total = r.total /\ q.seq = x
<1>1. /\ q.path = r.path /\ q.ocr = r.ocr /\ q.kind = r.kind
      /\ q.part = r.part /\ q.total = r.total /\ q.seq = x
  BY DEF IsRow
<1>2. IsRow(q)
  BY DEF IsRow
<1> QED
  BY <1>1, <1>2

\* The rows that a cut leaves.
LEMMA CutHolds ==
    ASSUME NEW out, NEW M, Holds(out, M), NativesFirst(out), NEW new, new = Reassigned(out),
           NEW all, all = [k \in DOMAIN new |-> [new[k] EXCEPT !.seq = k]]
    PROVE  Holds(all, M) /\ Numbered(all)
<1> DEFINE group(k) == {j \in DOMAIN out : out[j].path = out[k].path}
<1>1. \A k \in DOMAIN out : IsRow(out[k])
  BY DEF Holds, AreRows
<1>2. DOMAIN new = DOMAIN out
  BY DEF Reassigned
<1>3. \A k \in DOMAIN out :
         /\ IsRow(new[k]) /\ new[k].path = out[k].path
         /\ new[k].ocr = out[k].ocr /\ new[k].kind = out[k].kind
         /\ out[k].path # <<>> => /\ new[k].part = Cardinality({j \in group(k) : j <= k})
                                 /\ new[k].total = Cardinality(group(k))
  <2> TAKE k \in DOMAIN out
  <2> DEFINE own == IF out[k].path = <<>> THEN {k} ELSE {j \in DOMAIN out : out[j].path = out[k].path}
             a == Cardinality({j \in own : j <= k})
             b == Cardinality(own)
  <2>1. new[k] = WithNumbers(out[k], a, b)
    BY DEF Reassigned, WithNumbers
  <2>2. out[k].path # <<>> => own = group(k)
    OBVIOUS
  <2>3. out[k].path # <<>> => a = Cardinality({j \in group(k) : j <= k}) /\ b = Cardinality(group(k))
    BY <2>2
  <2> HIDE DEF a, b, own
  <2>4. IsRow(out[k])
    BY <1>1
  <2>5. /\ IsRow(new[k]) /\ new[k].path = out[k].path
        /\ new[k].ocr = out[k].ocr /\ new[k].kind = out[k].kind
        /\ new[k].part = a /\ new[k].total = b
    BY <2>1, <2>4, NumberedRow
  <2> HIDE DEF group
  <2>6. out[k].path # <<>> => /\ new[k].part = Cardinality({j \in group(k) : j <= k})
                              /\ new[k].total = Cardinality(group(k))
    BY <2>3, <2>5
  <2> QED
    BY <2>5, <2>6
<1>4. /\ DOMAIN all = DOMAIN out /\ all = [k \in DOMAIN out |-> all[k]]
      /\ \A k \in DOMAIN out : all[k] = [new[k] EXCEPT !.seq = k]
  BY <1>2
<1>5. \A k \in DOMAIN out :
         /\ IsRow(all[k]) /\ all[k].path = new[k].path /\ all[k].ocr = new[k].ocr
         /\ all[k].kind = new[k].kind /\ all[k].seq = k
         /\ all[k].part = new[k].part /\ all[k].total = new[k].total
  <2> TAKE k \in DOMAIN out
  <2> DEFINE q == all[k]
             r == new[k]
  <2>1. IsRow(r) /\ q = [r EXCEPT !.seq = k]
    BY <1>3, <1>4
  <2> HIDE DEF q, r
  <2>2. /\ IsRow(q) /\ q.path = r.path /\ q.ocr = r.ocr /\ q.kind = r.kind
        /\ q.part = r.part /\ q.total = r.total /\ q.seq = k
    BY <2>1, PlacedRow
  <2> QED
    BY <2>2 DEF q, r
<1>6. Holds(all, M) /\ NativesFirst(all)
  <2>1. \A k \in DOMAIN out : /\ IsRow(all[k]) /\ all[k].path = out[k].path
                              /\ all[k].ocr = out[k].ocr /\ all[k].kind = out[k].kind
    BY <1>3, <1>5
  <2> QED
    BY <1>4, <2>1, AlikeHold
<1>7. \A k \in DOMAIN all : {j \in DOMAIN all : all[j].path = all[k].path} = group(k)
  <2>1. \A k \in DOMAIN out : all[k].path = out[k].path
    BY <1>3, <1>5
  <2> QED
    BY <1>4, <2>1
<1>8. \A k \in DOMAIN all :
         all[k].path # <<>> =>
            LET own == {j \in DOMAIN all : all[j].path = all[k].path}
            IN  all[k].part = Cardinality({j \in own : j <= k}) /\ all[k].total = Cardinality(own)
  <2> TAKE k \in DOMAIN all
  <2> DEFINE own == {j \in DOMAIN all : all[j].path = all[k].path}
             a == Cardinality({j \in own : j <= k})
             b == Cardinality(own)
  <2>1. own = group(k)
    BY <1>7
  <2>2. a = Cardinality({j \in group(k) : j <= k}) /\ b = Cardinality(group(k))
    BY <2>1
  <2> HIDE DEF a, b, own, group
  <2>3. /\ k \in DOMAIN out /\ all[k].path = out[k].path
        /\ all[k].part = new[k].part /\ all[k].total = new[k].total
    BY <1>3, <1>4, <1>5
  <2>4. out[k].path # <<>> => new[k].part = a /\ new[k].total = b
    BY <1>3, <2>2, <2>3
  <2>5. all[k].path # <<>> => all[k].part = a /\ all[k].total = b
    BY <2>3, <2>4
  <2> QED
    BY <2>5 DEF a, b, own
<1>9. Numbered(all)
  BY <1>4, <1>5, <1>6, <1>8 DEF Numbered
<1> QED
  BY <1>6, <1>9

-----------------------------------------------------------------------------
\* What a cut makes is a list.

\* Sequences are lists.
LEMMA SeqIsList ==
    ASSUME NEW S, NEW s \in Seq(S)
    PROVE  IsList(s)
<1>1. Len(s) \in Nat /\ s = [k \in 1..Len(s) |-> s[k]]
  BY LenProperties
<1> HIDE DEF IsList
<1> QED
  BY <1>1, ListOf

\* Lists of elements of a set are sequences.
LEMMA ListIn ==
    ASSUME NEW S, NEW s, IsList(s), \A k \in 1..Len(s) : s[k] \in S
    PROVE  s \in Seq(S)
<1>1. Len(s) \in Nat /\ s = [k \in 1..Len(s) |-> s[k]]
  BY PlacesOfList
<1> DEFINE n == Len(s)
<1>2. n \in Nat /\ s \in [1..n -> S]
  BY <1>1
<1> HIDE DEF n
<1> QED
  BY <1>2, SeqDef

\* Sequences put behind one another.
LEMMA FlattenIn ==
    ASSUME NEW S, NEW ss, IsList(ss), \A k \in 1..Len(ss) : ss[k] \in Seq(S)
    PROVE  FlattenSeq(ss) \in Seq(S)
<1> DEFINE N == Len(ss)
<1>1. N \in Nat
  BY PlacesOfList
<1>2. CASE N = 0
  <2>1. FlattenSeq(ss) = ss
    BY <1>2 DEF FlattenSeq
  <2>2. ss \in Seq(S)
    BY <1>2, ListIn
  <2> QED
    BY <2>1, <2>2
<1>3. CASE N # 0
  <2> HIDE DEF N
  <2>1. N = Len(ss) /\ Len(ss) \in Nat \ {0}
    BY <1>1, <1>3 DEF N
  <2>2. PICK f : /\ f[1] = ss[1]
                 /\ \A i \in 2..N : f[i] = f[i - 1] \o ss[i]
                 /\ FlattenSeq(ss) = f[N]
    BY <2>1, FlattenStages
  <2> DEFINE P == {0} \cup {n \in 1..N : f[n] \in Seq(S)}
  <2>3. ASSUME NEW k \in 1..N, k - 1 \in P
        PROVE  k \in P
    <3>1. ss[k] \in Seq(S)
      BY <2>1
    <3>2. CASE k = 1
      BY <2>2, <3>1, <3>2
    <3>3. CASE k # 1
      <4>1. k \in 2..N /\ k - 1 \in 1..N /\ k - 1 # 0
        BY <1>1, <3>3
      <4>2. f[k - 1] \in Seq(S) /\ f[k] = f[k - 1] \o ss[k]
        BY <2>2, <2>3, <4>1
      <4> QED
        BY <3>1, <4>2, ConcatProperties
    <3> QED
      BY <3>2, <3>3
  <2>4. 0 \in P
    OBVIOUS
  <2>5. N \in P
    <3>1. N \in 0..N
      BY <1>1
    <3> HIDE DEF P
    <3> QED
      BY <1>1, <2>3, <2>4, <3>1, UpTo
  <2> QED
    BY <1>3, <2>2, <2>5
<1> QED
  BY <1>2, <1>3

\* Places in their order are some of those.
LEMMA InOrderIn ==
    ASSUME NEW n \in Nat, NEW I \in SUBSET (1..n)
    PROVE  InOrder(I) \in Seq(I)
<1>1. CASE I = {}
  <2>1. InOrder(I) = <<>>
    BY <1>1 DEF InOrder
  <2> QED
    BY <2>1
<1>2. CASE I # {}
  <2> DEFINE m == Max(I)
             ss == [i \in 1..m |-> IF i \in I THEN <<i>> ELSE <<>>]
  <2>1. m \in Nat
    <3>1. Max(I) \in I
      BY <1>2, FirstAndLast
    <3>2. Max(I) \in 1..n
      BY <3>1
    <3> HIDE DEF m
    <3>3. m \in 1..n
      BY <3>2 DEF m
    <3> QED
      BY <3>3
  <2>2. InOrder(I) = FlattenSeq(ss)
    BY <1>2 DEF InOrder
  <2>3. ss = [i \in 1..m |-> ss[i]] /\ \A i \in 1..m : ss[i] \in Seq(I)
    OBVIOUS
  <2> HIDE DEF m, ss
  <2>4. IsList(ss) /\ Len(ss) = m
    BY <2>1, <2>3, ListOf
  <2> QED
    BY <2>2, <2>3, <2>4, FlattenIn
<1> QED
  BY <1>1, <1>2

\* Some elements of a sequence.
LEMMA TakeIn ==
    ASSUME NEW S, NEW s \in Seq(S), NEW I \in SUBSET DOMAIN s
    PROVE  Take(s, I) \in Seq(S)
<1> DEFINE order == InOrder(I)
<1>1. Len(s) \in Nat /\ DOMAIN s = 1..Len(s)
  BY LenProperties
<1>2. order \in Seq(I)
  BY <1>1, InOrderIn
<1>3. Take(s, I) = [k \in DOMAIN order |-> s[order[k]]]
  BY DEF Take
<1> HIDE DEF order
<1>4. Len(order) \in Nat /\ DOMAIN order = 1..Len(order)
  BY <1>2, LenProperties
<1>5. \A k \in 1..Len(order) : s[order[k]] \in S
  <2> TAKE k \in 1..Len(order)
  <2>1. order[k] \in I
    BY <1>2, ElementOfSeq
  <2> QED
    BY <1>1, <2>1, ElementOfSeq
<1> DEFINE t == Take(s, I)
           n == Len(order)
<1>6. n \in Nat /\ t = [k \in 1..n |-> t[k]] /\ \A k \in 1..n : t[k] \in S
  BY <1>3, <1>4, <1>5
<1> HIDE DEF t, n
<1>7. IsList(t) /\ Len(t) = n
  BY <1>6, ListOf
<1>8. t \in Seq(S)
  BY <1>6, <1>7, ListIn
<1> QED
  BY <1>8 DEF t

\* A line stays one where its place is set, and where it is emptied.
LEMMA LineKept ==
    ASSUME NEW l \in Line, NEW n \in Nat
    PROVE  [l EXCEPT !.at = n] \in Line /\ [l EXCEPT !.at = n].at = n /\ Blank(l) \in Line
<1>1. [l EXCEPT !.at = n] \in Line /\ [l EXCEPT !.at = n].at = n
  BY DEF Line
<1>2. Blank(l) \in Line
  <2>1. [l EXCEPT !.kind = "blank"] \in Line
    BY DEF Line
  <2>2. [[l EXCEPT !.kind = "blank"] EXCEPT !.len = 0] \in Line
    BY <2>1 DEF Line
  <2> QED
    BY <2>2 DEF Blank
<1> QED
  BY <1>1, <1>2

\* The cleanings leave some of the lines.
LEMMA CleanedIn ==
    ASSUME NEW lines \in Seq(Line)
    PROVE  /\ Normalized(lines) \in Seq(Line) /\ Cleaned(lines) \in Seq(Line)
           /\ WithoutContents(lines) \in Seq(Line)
<1>1. Normalized(lines) \in Seq(Line)
  <2> DEFINE I == {i \in DOMAIN lines : IsBlank(lines[i]) => i = 1 \/ ~IsBlank(lines[i - 1])}
  <2>1. Normalized(lines) = Take(lines, I) /\ I \in SUBSET DOMAIN lines
    BY DEF Normalized
  <2> HIDE DEF I
  <2> QED
    BY <2>1, TakeIn
<1>2. Cleaned(lines) \in Seq(Line)
  <2>1. PICK I \in SUBSET DOMAIN lines : Cleaned(lines) = Take(lines, I)
    BY DEF Cleaned
  <2> QED
    BY <2>1, TakeIn
<1>3. WithoutContents(lines) \in Seq(Line)
  <2>1. PICK I \in SUBSET DOMAIN lines : WithoutContents(lines) = Take(lines, I)
    BY DEF WithoutContents
  <2> QED
    BY <2>1, TakeIn
<1> QED
  BY <1>1, <1>2, <1>3

\* A line that is repaired is up to two lines.
LEMMA RepairedIn ==
    ASSUME NEW l \in Line
    PROVE  Repaired(l) \in Seq(Line)
<1> DEFINE text == [l EXCEPT !.kind = "text"]
           title == [l EXCEPT !.kind = "heading", !.level = 5]
<1>1. text \in Line
  BY DEF Line
<1>2. title \in Line
  <2>1. [l EXCEPT !.kind = "heading"] \in Line
    BY DEF Line
  <2>2. [[l EXCEPT !.kind = "heading"] EXCEPT !.level = 5] \in Line
    BY <2>1 DEF Line
  <2> QED
    BY <2>2
<1>3. Blank(l) \in Line
  BY LineKept
<1>4. \/ Repaired(l) \in {<<>>, <<Blank(l)>>, <<text>>, <<l>>}
      \/ Repaired(l) = <<title>> \o (IF l.len = 0 THEN <<>> ELSE <<text>>)
  BY DEF Repaired
<1> HIDE DEF text, title
<1>5. /\ <<>> \in Seq(Line) /\ <<Blank(l)>> \in Seq(Line) /\ <<text>> \in Seq(Line)
      /\ <<l>> \in Seq(Line) /\ <<title>> \in Seq(Line)
  BY <1>1, <1>2, <1>3
<1>6. <<title>> \o (IF l.len = 0 THEN <<>> ELSE <<text>>) \in Seq(Line)
  BY <1>5, ConcatProperties
<1> QED
  BY <1>4, <1>5, <1>6

\* So are the lines of a text.
LEMMA RepairIn ==
    ASSUME NEW lines \in Seq(Line)
    PROVE  Repair(lines) \in Seq(Line)
<1> DEFINE n == Len(lines)
           ss == [k \in DOMAIN lines |-> Repaired(lines[k])]
<1>1. n \in Nat /\ DOMAIN lines = 1..n
  BY LenProperties
<1>2. \A k \in 1..n : ss[k] \in Seq(Line)
  <2> TAKE k \in 1..n
  <2>1. lines[k] \in Line
    BY ElementOfSeq
  <2> QED
    BY <1>1, <2>1, RepairedIn
<1>3. ss = [k \in 1..n |-> ss[k]]
  BY <1>1
<1>4. Repair(lines) = FlattenSeq(ss)
  BY DEF Repair
<1> HIDE DEF n, ss
<1>5. IsList(ss) /\ Len(ss) = n
  BY <1>1, <1>3, ListOf
<1> QED
  BY <1>2, <1>4, <1>5, FlattenIn

\* A section has lines.
IsSection(s) ==
    s \in [level : {s.level}, path : {s.path}, toc : {s.toc}, page : {s.page}, lines : Seq(Line)]

\* Of the sections of which a tree is built.
AreSections(all) == IsList(all) /\ Len(all) > 0 /\ \A k \in 1..Len(all) : IsSection(all[k])

\* A line more leaves sections, and lines in them (_build_tree).
LEMMA BuildKeeps ==
    ASSUME NEW tree, tree \in [all : {tree.all}, open : {tree.open}, page : {tree.page}],
           AreSections(tree.all), NEW l \in Line, NEW new, new = Build(tree, l)
    PROVE  /\ new \in [all : {new.all}, open : {new.open}, page : {new.page}]
           /\ AreSections(new.all)
<1> DEFINE all == tree.all
           n == Len(all)
<1>1. n \in Nat \ {0} /\ DOMAIN all = 1..n /\ all = [k \in 1..n |-> all[k]]
  BY PlacesOfList DEF AreSections
<1>2. \A k \in 1..n : IsSection(all[k])
  BY DEF AreSections
<1>3. CASE l.kind = "heading"
  <2> DEFINE open == SelectSeq(tree.open, LAMBDA k : k = 1 \/ Encloses(tree.all[k], l))
             section == [level |-> l.level, path |-> Chain(tree.all[Last(open)], l), toc |-> l.toc,
                         page |-> tree.page, lines |-> <<>>]
             more == Append(open, Len(tree.all) + 1)
  <2>1. new = [tree EXCEPT !.all = Append(@, section), !.open = more]
    BY <1>3 DEF Build
  <2>2. IsSection(section)
    <3>1. <<>> \in Seq(Line)
      OBVIOUS
    <3> QED
      BY <3>1 DEF IsSection
  <2> HIDE DEF section, more
  <2>3. new.all = Append(all, section) /\ new \in [all : {new.all}, open : {new.open}, page : {new.page}]
    BY <2>1
  <2> DEFINE u == Append(all, section)
  <2>4. /\ Len(u) = n + 1 /\ u = [k \in 1..(n + 1) |-> u[k]]
        /\ u[n + 1] = section /\ \A k \in 1..n : u[k] = all[k]
    <3> DEFINE S == {all[k] : k \in DOMAIN all} \cup {section}
    <3>1. all \in Seq(S) /\ section \in S
      BY DEF AreSections, IsList
    <3> HIDE DEF S
    <3> QED
      BY <3>1, AppendProperties, LenProperties
  <2> HIDE DEF u, n
  <2>5. IsList(u) /\ Len(u) = n + 1
    BY <1>1, <2>4, ListOf
  <2>6. \A k \in 1..(n + 1) : IsSection(u[k])
    <3> TAKE k \in 1..(n + 1)
    <3>1. k \in 1..n \/ k = n + 1
      BY <1>1
    <3>2. CASE k \in 1..n
      BY <1>2, <2>4, <3>2
    <3>3. CASE k = n + 1
      BY <2>2, <2>4, <3>3
    <3> QED
      BY <3>1, <3>2, <3>3
  <2>7. AreSections(u)
    BY <1>1, <2>5, <2>6 DEF AreSections
  <2> QED
    BY <2>3, <2>7 DEF u
<1>4. CASE l.kind # "heading"
  <2> DEFINE top == Last(tree.open)
             page == IF l.kind = "page" THEN l.page ELSE tree.page
             u == [all EXCEPT ![top].lines = Append(@, l)]
  <2>1. new = [tree EXCEPT !.all = u, !.page = page]
    BY <1>4 DEF Build
  <2>2. \A k \in 1..n : IsSection(u[k])
    <3> TAKE k \in 1..n
    <3>1. CASE k = top
      <4> DEFINE s == all[k]
                 more == Append(s.lines, l)
      <4>1. u[k] = [s EXCEPT !.lines = more]
        BY <1>1, <3>1
      <4>2. IsSection(s)
        BY <1>2
      <4>3. more \in Seq(Line)
        <5>1. s.lines \in Seq(Line)
          BY <4>2 DEF IsSection
        <5> QED
          BY <5>1, AppendProperties
      <4> DEFINE t == u[k]
      <4> HIDE DEF s, more, t
      <4>4. t = [s EXCEPT !.lines = more]
        BY <4>1 DEF t
      <4>5. IsSection(t)
        BY <4>2, <4>3, <4>4 DEF IsSection
      <4> QED
        BY <4>5 DEF t
    <3>2. CASE k # top
      BY <1>1, <1>2, <3>2
    <3> QED
      BY <3>1, <3>2
  <2>3. u = [k \in 1..n |-> u[k]]
    BY <1>1
  <2> HIDE DEF u, page
  <2>4. new.all = u /\ new \in [all : {new.all}, open : {new.open}, page : {new.page}]
    BY <2>1
  <2> HIDE DEF n
  <2>5. IsList(u) /\ Len(u) = n
    BY <1>1, <2>3, ListOf
  <2>6. AreSections(u)
    BY <1>1, <2>2, <2>5 DEF AreSections
  <2> QED
    BY <2>4, <2>6
<1> QED
  BY <1>3, <1>4

\* The tree of a text is the last of its stages, each of which has one line more.
LEMMA TreeStages ==
    ASSUME NEW lines, Len(lines) \in Nat
    PROVE  \E f : /\ f[0] = [all |-> <<Root>>, open |-> <<1>>, page |-> 0]
                  /\ \A n \in 1..Len(lines) : f[n] = Build(f[n - 1], lines[n])
                  /\ Sections(lines) = f[Len(lines)].all
<1> DEFINE N == Len(lines)
           first == [all |-> <<Root>>, open |-> <<1>>, page |-> 0]
<1> HIDE DEF first
<1> DEFINE Is(f, m) == f = [n \in 0..m |-> IF n = 0 THEN first ELSE Build(f[n - 1], lines[n])]
           able == {m \in Nat : \E f : Is(f, m)}
<1>1. 0 \in able
  <2>1. Is([n \in 0..0 |-> first], 0)
    OBVIOUS
  <2> QED
    BY <2>1
<1>2. ASSUME NEW m \in 1..N, m - 1 \in able
      PROVE  m \in able
  <2>1. m \in Nat \ {0} /\ N \in Nat
    OBVIOUS
  <2>2. PICK f : Is(f, m - 1)
    BY <1>2
  <2> DEFINE g == [n \in 0..m |-> IF n = m THEN Build(f[m - 1], lines[m]) ELSE f[n]]
  <2>3. \A n \in 0..(m - 1) : f[n] = IF n = 0 THEN first ELSE Build(f[n - 1], lines[n])
    BY <2>2
  <2>4. \A n \in 0..m : g[n] = IF n = 0 THEN first ELSE Build(g[n - 1], lines[n])
    BY <2>1, <2>3
  <2>5. Is(g, m)
    BY <2>4
  <2> QED
    BY <2>1, <2>5
<1> HIDE DEF able
<1>3. N \in able
  <2>1. N \in Nat /\ N \in 0..N
    OBVIOUS
  <2> HIDE DEF N
  <2> QED
    BY <1>1, <1>2, <2>1, UpTo
<1>4. \E f : Is(f, N)
  BY <1>3 DEF able
<1> DEFINE upto[n \in 0..N] == IF n = 0 THEN first ELSE Build(upto[n - 1], lines[n])
<1>5. Is(upto, N)
  BY <1>4
<1>6. Sections(lines) = upto[N].all
  BY DEF Sections, first
<1> HIDE DEF upto
<1>7. /\ upto[0] = first
      /\ \A n \in 1..N : upto[n] = Build(upto[n - 1], lines[n])
  BY <1>5
<1> QED
  BY <1>6, <1>7 DEF first

\* A text has sections, which have lines.
LEMMA SectionsAre ==
    ASSUME NEW lines \in Seq(Line)
    PROVE  AreSections(Sections(lines))
<1> DEFINE N == Len(lines)
<1>1. N \in Nat
  BY LenProperties
<1>2. PICK f : /\ f[0] = [all |-> <<Root>>, open |-> <<1>>, page |-> 0]
               /\ \A n \in 1..N : f[n] = Build(f[n - 1], lines[n])
               /\ Sections(lines) = f[N].all
  BY <1>1, TreeStages
<1> DEFINE Good(t) == t \in [all : {t.all}, open : {t.open}, page : {t.page}] /\ AreSections(t.all)
           P == {n \in 0..N : Good(f[n])}
<1>3. 0 \in P
  <2>1. IsSection(Root)
    <3>1. <<>> \in Seq(Line)
      OBVIOUS
    <3> QED
      BY <3>1 DEF Root, IsSection
  <2> DEFINE one == <<Root>>
  <2>2. one = [k \in 1..1 |-> one[k]] /\ one[1] = Root
    OBVIOUS
  <2> HIDE DEF one
  <2>3. IsList(one) /\ Len(one) = 1
    BY <2>2, ListOf
  <2>4. AreSections(one)
    BY <2>1, <2>2, <2>3 DEF AreSections
  <2>5. f[0] = [all |-> one, open |-> <<1>>, page |-> 0]
    BY <1>2 DEF one
  <2>6. Good(f[0])
    BY <2>4, <2>5
  <2>7. 0 \in 0..N
    BY <1>1
  <2> QED
    BY <2>6, <2>7
<1>4. ASSUME NEW k \in 1..N, k - 1 \in P
      PROVE  k \in P
  <2>1. lines[k] \in Line /\ k \in 0..N
    BY ElementOfSeq
  <2>2. f[k] = Build(f[k - 1], lines[k]) /\ Good(f[k - 1])
    BY <1>2, <1>4
  <2> DEFINE old == f[k - 1]
             new == f[k]
             l == lines[k]
  <2>3. /\ old \in [all : {old.all}, open : {old.open}, page : {old.page}]
        /\ AreSections(old.all) /\ l \in Line /\ new = Build(old, l)
    BY <2>1, <2>2
  <2> HIDE DEF old, new, l
  <2>4. /\ new \in [all : {new.all}, open : {new.open}, page : {new.page}]
        /\ AreSections(new.all)
    BY <2>3, BuildKeeps
  <2> QED
    BY <2>1, <2>4 DEF new
<1> HIDE DEF P
<1>5. N \in P
  <2>1. N \in 0..N
    BY <1>1
  <2> HIDE DEF N
  <2> QED
    BY <1>1, <1>3, <1>4, <2>1, UpTo
<1> QED
  BY <1>2, <1>5 DEF P

\* One element more.
LEMMA AppendList ==
    ASSUME NEW s, IsList(s), NEW e
    PROVE  /\ IsList(Append(s, e)) /\ Len(Append(s, e)) = Len(s) + 1
           /\ Append(s, e)[Len(s) + 1] = e
           /\ \A k \in 1..Len(s) : Append(s, e)[k] = s[k]
<1> DEFINE S == {s[k] : k \in DOMAIN s} \cup {e}
           u == Append(s, e)
<1>1. s \in Seq(S) /\ e \in S
  BY DEF IsList
<1> HIDE DEF S
<1>2. /\ u \in Seq(S) /\ Len(u) = Len(s) + 1 /\ u[Len(s) + 1] = e
      /\ \A k \in 1..Len(s) : u[k] = s[k]
  BY <1>1, AppendProperties, LenProperties
<1> HIDE DEF u
<1>3. IsList(u)
  BY <1>2, SeqIsList
<1> QED
  BY <1>2, <1>3 DEF u

\* The last element taken off.
LEMMA FrontList ==
    ASSUME NEW s, IsList(s), Len(s) > 0
    PROVE  IsList(Front(s)) /\ Len(Front(s)) = Len(s) - 1
<1> DEFINE n == Len(s) - 1
           u == SubSeq(s, 1, n)
<1>1. n \in Nat
  BY PlacesOfList
<1>2. u = [k \in 1..n |-> s[k]]
  BY <1>1
<1>3. Front(s) = u
  BY DEF Front
<1> HIDE DEF u, n
<1>4. u = [k \in 1..n |-> u[k]]
  BY <1>2
<1>5. IsList(u) /\ Len(u) = n
  BY <1>1, <1>4, ListOf
<1> QED
  BY <1>3, <1>5 DEF n

\* A list that is not empty.
LEMMA SomeList ==
    ASSUME NEW s, IsList(s), s # <<>>
    PROVE  Len(s) > 0
<1> DEFINE S == {s[k] : k \in DOMAIN s}
<1>1. s \in Seq(S)
  BY DEF IsList
<1> HIDE DEF S
<1> QED
  BY <1>1, EmptySeq, LenProperties

\* A part put to the others leaves a list of them.
LEMMA PutPartList ==
    ASSUME NEW out, IsList(out), NEW p, NEW sep
    PROVE  IsList(PutPart(out, p, sep))
<1>1. CASE out # <<>> /\ Last(out).len + sep + p.len <= TextMax
  <2>1. IsList(Front(out))
    BY <1>1, SomeList, FrontList
  <2>2. PutPart(out, p, sep) = Append(Front(out), Glue(Last(out), p, sep))
    BY <1>1 DEF PutPart
  <2> QED
    BY <2>1, <2>2, AppendList
<1>2. CASE ~(out # <<>> /\ Last(out).len + sep + p.len <= TextMax)
  <2>1. PutPart(out, p, sep) = Append(out, p)
    BY <1>2 DEF PutPart
  <2> QED
    BY <2>1, AppendList
<1> QED
  BY <1>1, <1>2

\* Parts that are put together are the last of their stages.
LEMMA PackedStages ==
    ASSUME NEW parts, NEW sep, Len(parts) \in Nat
    PROVE  \E f : /\ f[0] = <<>>
                  /\ \A n \in 1..Len(parts) : f[n] = PutPart(f[n - 1], parts[n], sep)
                  /\ Packed(parts, sep) = f[Len(parts)]
<1> DEFINE N == Len(parts)
           first == <<>>
<1> HIDE DEF first
<1> DEFINE Is(f, m) == f = [n \in 0..m |-> IF n = 0 THEN first ELSE PutPart(f[n - 1], parts[n], sep)]
           able == {m \in Nat : \E f : Is(f, m)}
<1>1. 0 \in able
  <2>1. Is([n \in 0..0 |-> first], 0)
    OBVIOUS
  <2> QED
    BY <2>1
<1>2. ASSUME NEW m \in 1..N, m - 1 \in able
      PROVE  m \in able
  <2>1. m \in Nat \ {0} /\ N \in Nat
    OBVIOUS
  <2>2. PICK f : Is(f, m - 1)
    BY <1>2
  <2> DEFINE g == [n \in 0..m |-> IF n = m THEN PutPart(f[m - 1], parts[m], sep) ELSE f[n]]
  <2>3. \A n \in 0..(m - 1) : f[n] = IF n = 0 THEN first ELSE PutPart(f[n - 1], parts[n], sep)
    BY <2>2
  <2>4. \A n \in 0..m : g[n] = IF n = 0 THEN first ELSE PutPart(g[n - 1], parts[n], sep)
    BY <2>1, <2>3
  <2>5. Is(g, m)
    BY <2>4
  <2> QED
    BY <2>1, <2>5
<1> HIDE DEF able
<1>3. N \in able
  <2>1. N \in Nat /\ N \in 0..N
    OBVIOUS
  <2> HIDE DEF N
  <2> QED
    BY <1>1, <1>2, <2>1, UpTo
<1>4. \E f : Is(f, N)
  BY <1>3 DEF able
<1> DEFINE upto[n \in 0..N] == IF n = 0 THEN first ELSE PutPart(upto[n - 1], parts[n], sep)
<1>5. Is(upto, N)
  BY <1>4
<1>6. Packed(parts, sep) = upto[N]
  BY DEF Packed, first
<1> HIDE DEF upto
<1>7. /\ upto[0] = first
      /\ \A n \in 1..N : upto[n] = PutPart(upto[n - 1], parts[n], sep)
  BY <1>5
<1> QED
  BY <1>6, <1>7 DEF first

\* They are a list.
LEMMA PackedList ==
    ASSUME NEW parts, Len(parts) \in Nat, NEW sep
    PROVE  IsList(Packed(parts, sep))
<1> DEFINE N == Len(parts)
<1>1. PICK f : /\ f[0] = <<>>
               /\ \A n \in 1..N : f[n] = PutPart(f[n - 1], parts[n], sep)
               /\ Packed(parts, sep) = f[N]
  BY PackedStages
<1> DEFINE P == {n \in 0..N : IsList(f[n])}
<1>2. 0 \in P
  <2>1. IsList(<<>>)
    BY NoneRead DEF AreRead, AreRows
  <2> QED
    BY <1>1, <2>1
<1>3. ASSUME NEW k \in 1..N, k - 1 \in P
      PROVE  k \in P
  <2>1. IsList(f[k - 1]) /\ f[k] = PutPart(f[k - 1], parts[k], sep) /\ k \in 0..N
    BY <1>1, <1>3
  <2> QED
    BY <2>1, PutPartList
<1> HIDE DEF P
<1>4. N \in P
  <2>1. N \in Nat /\ N \in 0..N
    OBVIOUS
  <2> HIDE DEF N
  <2> QED
    BY <1>2, <1>3, <2>1, UpTo
<1> QED
  BY <1>1, <1>4 DEF P

\* A range of places.
LEMMA IntervalList ==
    ASSUME NEW a \in Int, NEW b \in Int
    PROVE  /\ IsList(Interval(a, b))
           /\ a <= b => /\ Len(Interval(a, b)) = b - a + 1
                        /\ Interval(a, b)[1] = a /\ Last(Interval(a, b)) = b
<1> DEFINE s == Interval(a, b)
<1>1. CASE a <= b + 1
  <2> DEFINE n == b - a + 1
  <2>1. n \in Nat /\ s = [k \in 1..n |-> a + k - 1]
    BY <1>1 DEF Interval
  <2>2. s = [k \in 1..n |-> s[k]]
    BY <2>1
  <2> HIDE DEF s, n
  <2>3. IsList(s) /\ Len(s) = n
    BY <2>1, <2>2, ListOf
  <2>4. a <= b => 1 \in 1..n /\ n \in 1..n
    BY <1>1 DEF n
  <2>5. a <= b => s[1] = a /\ s[n] = b
    BY <2>1, <2>4 DEF n
  <2> QED
    BY <2>3, <2>5 DEF s, n, Last
<1>2. CASE a > b + 1
  <2>1. s = [k \in 1..0 |-> s[k]]
    BY <1>2 DEF Interval
  <2> HIDE DEF s
  <2>2. IsList(s)
    BY <2>1, ListOf
  <2> QED
    BY <1>2, <2>2 DEF s
<1> QED
  BY <1>1, <1>2

\* The pieces of a table.
LEMMA PutTableRowList ==
    ASSUME NEW body, NEW a, NEW h, NEW out, IsList(out), NEW r
    PROVE  IsList(PutTableRow(body, a, h, out, r))
<1>1. CASE out # <<>>
  <2>1. IsList(Front(out))
    BY <1>1, SomeList, FrontList
  <2> DEFINE more == [Last(out) EXCEPT !.lines = Append(@, r), !.len = @ + 1 + body[r].len]
             new == RowsFrom(body, a, h, r)
  <2>2. PutTableRow(body, a, h, out, r) \in {Append(Front(out), more), Append(out, new)}
    BY DEF PutTableRow
  <2> HIDE DEF more, new
  <2>3. IsList(Append(Front(out), more)) /\ IsList(Append(out, new))
    BY <2>1, AppendList
  <2> QED
    BY <2>2, <2>3
<1>2. CASE out = <<>>
  <2>1. PutTableRow(body, a, h, out, r) = Append(out, RowsFrom(body, a, h, r))
    BY <1>2 DEF PutTableRow
  <2> QED
    BY <2>1, AppendList
<1> QED
  BY <1>1, <1>2

\* They are the last of their stages.
LEMMA TableStages ==
    ASSUME NEW body, NEW a, NEW b, NEW h, h = HeaderEnd(body, a, b), b - h \in Nat
    PROVE  \E f : /\ f[0] = <<>>
                  /\ \A n \in 1..b - h : f[n] = PutTableRow(body, a, h, f[n - 1], h + n)
                  /\ TableParts(body, a, b) \in {<<Piece(body, a, b)>>, f[b - h]}
<1> DEFINE N == b - h
           first == <<>>
<1> HIDE DEF first
<1> DEFINE Is(f, m) == f = [n \in 0..m |-> IF n = 0 THEN first ELSE PutTableRow(body, a, h, f[n - 1], h + n)]
           able == {m \in Nat : \E f : Is(f, m)}
<1>1. 0 \in able
  <2>1. Is([n \in 0..0 |-> first], 0)
    OBVIOUS
  <2> QED
    BY <2>1
<1>2. ASSUME NEW m \in 1..N, m - 1 \in able
      PROVE  m \in able
  <2>1. m \in Nat \ {0} /\ N \in Nat
    OBVIOUS
  <2>2. PICK f : Is(f, m - 1)
    BY <1>2
  <2> DEFINE g == [n \in 0..m |-> IF n = m THEN PutTableRow(body, a, h, f[m - 1], h + m) ELSE f[n]]
  <2>3. \A n \in 0..(m - 1) : f[n] = IF n = 0 THEN first ELSE PutTableRow(body, a, h, f[n - 1], h + n)
    BY <2>2
  <2>4. \A n \in 0..m : g[n] = IF n = 0 THEN first ELSE PutTableRow(body, a, h, g[n - 1], h + n)
    BY <2>1, <2>3
  <2>5. Is(g, m)
    BY <2>4
  <2> QED
    BY <2>1, <2>5
<1> HIDE DEF able
<1>3. N \in able
  <2>1. N \in Nat /\ N \in 0..N
    OBVIOUS
  <2> HIDE DEF N
  <2> QED
    BY <1>1, <1>2, <2>1, UpTo
<1>4. \E f : Is(f, N)
  BY <1>3 DEF able
<1> DEFINE upto[n \in 0..N] == IF n = 0 THEN first ELSE PutTableRow(body, a, h, upto[n - 1], h + n)
<1>5. Is(upto, N)
  BY <1>4
<1>6. TableParts(body, a, b) \in {<<Piece(body, a, b)>>, upto[N]}
  BY DEF TableParts, first
<1> HIDE DEF upto
<1>7. /\ upto[0] = first
      /\ \A n \in 1..N : upto[n] = PutTableRow(body, a, h, upto[n - 1], h + n)
  BY <1>5
<1> QED
  BY <1>6, <1>7 DEF first

\* They are a list.
LEMMA TablePartsList ==
    ASSUME NEW body, NEW a \in Nat, NEW b \in Nat, a <= b
    PROVE  IsList(TableParts(body, a, b))
<1> DEFINE h == HeaderEnd(body, a, b)
           N == b - h
<1>1. N \in Nat
  BY DEF HeaderEnd
<1> HIDE DEF h
<1>2. PICK f : /\ f[0] = <<>>
               /\ \A n \in 1..N : f[n] = PutTableRow(body, a, h, f[n - 1], h + n)
               /\ TableParts(body, a, b) \in {<<Piece(body, a, b)>>, f[N]}
  BY <1>1, TableStages DEF h
<1> DEFINE P == {n \in 0..N : IsList(f[n])}
<1>3. 0 \in P
  <2>1. IsList(<<>>)
    BY NoneRead DEF AreRead, AreRows
  <2> QED
    BY <1>1, <1>2, <2>1
<1>4. ASSUME NEW k \in 1..N, k - 1 \in P
      PROVE  k \in P
  <2>1. IsList(f[k - 1]) /\ f[k] = PutTableRow(body, a, h, f[k - 1], h + k) /\ k \in 0..N
    BY <1>2, <1>4
  <2> QED
    BY <2>1, PutTableRowList
<1> HIDE DEF P
<1>5. N \in P
  <2>1. N \in 0..N
    BY <1>1
  <2> HIDE DEF N
  <2> QED
    BY <1>1, <1>3, <1>4, <2>1, UpTo
<1>6. IsList(f[N])
  BY <1>5 DEF P
<1> DEFINE e == Piece(body, a, b)
<1> HIDE DEF e, N
<1>7. IsList(<<e>>)
  BY DEF IsList
<1> QED
  BY <1>2, <1>6, <1>7 DEF e

\* The paragraphs of a stretch, which start and end in the text.
LEMMA ParagraphsList ==
    ASSUME NEW n \in Nat, NEW body, DOMAIN body = 1..n, NEW a \in 1..n, NEW b \in 1..n
    PROVE  /\ IsList(Paragraphs(body, a, b))
           /\ \A k \in 1..Len(Paragraphs(body, a, b)) :
                 /\ Paragraphs(body, a, b)[k].lines[1] \in 1..n
                 /\ Last(Paragraphs(body, a, b)[k].lines) \in 1..n
<1> DEFINE starts == {i \in Ink(body, a, b) : i = a \/ IsBlank(body[i - 1])}
           end(i) == Min({j \in i..b : j = b \/ IsBlank(body[j + 1])})
           order == InOrder(starts)
           m == Len(order)
           s == Paragraphs(body, a, b)
<1>1. starts \in SUBSET (1..n) /\ \A i \in starts : i <= b
  BY DEF Ink
<1>2. order \in Seq(starts)
  BY <1>1, InOrderIn
<1>3. s = [k \in DOMAIN order |-> Piece(body, order[k], end(order[k]))]
  BY DEF Paragraphs
<1>4. ASSUME NEW i \in starts
      PROVE  end(i) \in 1..n /\ i <= end(i)
  <2> DEFINE J == {j \in i..b : j = b \/ IsBlank(body[j + 1])}
  <2>1. J \in SUBSET (1..n) /\ b \in J /\ \A j \in J : i <= j
    BY <1>1
  <2> HIDE DEF J
  <2>2. Min(J) \in J
    BY <2>1, FirstAndLast
  <2>3. Min(J) \in 1..n /\ i <= Min(J)
    BY <2>1, <2>2
  <2> QED
    BY <2>3 DEF J
<1> HIDE DEF starts, end, order
<1>5. m \in Nat /\ DOMAIN order = 1..m
  BY <1>2, LenProperties
<1> HIDE DEF m
<1>6. \A k \in 1..m : order[k] \in starts
  BY <1>2, ElementOfSeq DEF m
<1>7. s = [k \in 1..m |-> Piece(body, order[k], end(order[k]))]
  BY <1>3, <1>5
<1> HIDE DEF s
<1>8. IsList(s) /\ Len(s) = m
  <2>1. s = [k \in 1..m |-> s[k]]
    BY <1>7
  <2> QED
    BY <1>5, <2>1, ListOf
<1>9. ASSUME NEW k \in 1..m
      PROVE  s[k].lines[1] \in 1..n /\ Last(s[k].lines) \in 1..n
  <2> DEFINE x == order[k]
             y == end(order[k])
  <2>1. x \in 1..n /\ y \in 1..n /\ x <= y
    BY <1>1, <1>4, <1>6
  <2>2. s[k].lines = Interval(x, y)
    BY <1>7 DEF Piece
  <2> HIDE DEF x, y
  <2>3. Interval(x, y)[1] = x /\ Last(Interval(x, y)) = y
    <3>1. x \in Int /\ y \in Int
      BY <2>1
    <3> QED
      BY <2>1, <3>1, IntervalList
  <2> QED
    BY <2>1, <2>2, <2>3
<1> QED
  BY <1>8, <1>9 DEF s

\* The sentences of a paragraph.
LEMMA SentencesList ==
    ASSUME NEW n \in Nat, NEW body, NEW p, p.lines[1] \in 1..n, Last(p.lines) \in 1..n
    PROVE  IsList(Sentences(body, p))
<1> DEFINE a == p.lines[1]
           b == Last(p.lines)
           starts == {i \in a..b : i = a \/ body[i - 1].stop}
           end(i) == Min({j \in i..b : j = b \/ body[j].stop})
           order == InOrder(starts)
           parts == [k \in DOMAIN order |-> Piece(body, order[k], end(order[k]))]
<1>1. starts \in SUBSET (1..n)
  OBVIOUS
<1>2. order \in Seq(starts)
  BY <1>1, InOrderIn
<1>3. Sentences(body, p) = Packed(parts, 1)
  BY DEF Sentences
<1> HIDE DEF order, starts, end
<1>4. Len(order) \in Nat /\ DOMAIN order = 1..Len(order)
  BY <1>2, LenProperties
<1>5. parts = [k \in 1..Len(order) |-> parts[k]]
  BY <1>4
<1> HIDE DEF parts
<1>6. Len(parts) \in Nat
  BY <1>4, <1>5, ListOf
<1> QED
  BY <1>3, <1>6, PackedList

\* Paragraphs that are put together are the last of their stages.
LEMMA ParagraphStages ==
    ASSUME NEW body, NEW a, NEW b, NEW s, s = Paragraphs(body, a, b), Len(s) \in Nat
    PROVE  \E f : /\ f[0] = [done |-> <<>>, open |-> <<>>]
                  /\ \A n \in 1..Len(s) : f[n] = PutParagraph(body, f[n - 1], s[n])
                  /\ SplitParagraphs(body, a, b) = Closed(f[Len(s)])
<1> DEFINE N == Len(s)
           first == [done |-> <<>>, open |-> <<>>]
<1> HIDE DEF first
<1> DEFINE Is(f, m) == f = [n \in 0..m |-> IF n = 0 THEN first ELSE PutParagraph(body, f[n - 1], s[n])]
           able == {m \in Nat : \E f : Is(f, m)}
<1>1. 0 \in able
  <2>1. Is([n \in 0..0 |-> first], 0)
    OBVIOUS
  <2> QED
    BY <2>1
<1>2. ASSUME NEW m \in 1..N, m - 1 \in able
      PROVE  m \in able
  <2>1. m \in Nat \ {0} /\ N \in Nat
    OBVIOUS
  <2>2. PICK f : Is(f, m - 1)
    BY <1>2
  <2> DEFINE g == [n \in 0..m |-> IF n = m THEN PutParagraph(body, f[m - 1], s[m]) ELSE f[n]]
  <2>3. \A n \in 0..(m - 1) : f[n] = IF n = 0 THEN first ELSE PutParagraph(body, f[n - 1], s[n])
    BY <2>2
  <2>4. \A n \in 0..m : g[n] = IF n = 0 THEN first ELSE PutParagraph(body, g[n - 1], s[n])
    BY <2>1, <2>3
  <2>5. Is(g, m)
    BY <2>4
  <2> QED
    BY <2>1, <2>5
<1> HIDE DEF able
<1>3. N \in able
  <2>1. N \in Nat /\ N \in 0..N
    OBVIOUS
  <2> HIDE DEF N
  <2> QED
    BY <1>1, <1>2, <2>1, UpTo
<1>4. \E f : Is(f, N)
  BY <1>3 DEF able
<1> DEFINE upto[n \in 0..N] == IF n = 0 THEN first ELSE PutParagraph(body, upto[n - 1], s[n])
<1>5. Is(upto, N)
  BY <1>4
<1>6. SplitParagraphs(body, a, b) = Closed(upto[N])
  BY DEF SplitParagraphs, first
<1> HIDE DEF upto
<1>7. /\ upto[0] = first
      /\ \A n \in 1..N : upto[n] = PutParagraph(body, upto[n - 1], s[n])
  BY <1>5
<1> QED
  BY <1>6, <1>7 DEF first

\* They are a list, those cut at their sentences included.
LEMMA SplitParagraphsList ==
    ASSUME NEW n \in Nat, NEW body, DOMAIN body = 1..n, NEW a \in 1..n, NEW b \in 1..n
    PROVE  IsList(SplitParagraphs(body, a, b))
<1> DEFINE s == Paragraphs(body, a, b)
           N == Len(s)
<1>1. /\ IsList(s) /\ N \in Nat
      /\ \A k \in 1..N : s[k].lines[1] \in 1..n /\ Last(s[k].lines) \in 1..n
  <2>1. IsList(s)
    BY ParagraphsList
  <2>2. \A k \in 1..N : s[k].lines[1] \in 1..n /\ Last(s[k].lines) \in 1..n
    BY ParagraphsList
  <2> QED
    BY <2>1, <2>2, PlacesOfList
<1>0. s = Paragraphs(body, a, b)
  OBVIOUS
<1> HIDE DEF s
<1>2. PICK f : /\ f[0] = [done |-> <<>>, open |-> <<>>]
               /\ \A k \in 1..N : f[k] = PutParagraph(body, f[k - 1], s[k])
               /\ SplitParagraphs(body, a, b) = Closed(f[N])
  BY <1>0, <1>1, ParagraphStages
<1> HIDE DEF N
<1> DEFINE P == {k \in 0..N : IsList(f[k].done) /\ IsList(f[k].open)}
<1>3. IsList(<<>>)
  BY NoneRead DEF AreRead, AreRows
<1>4. 0 \in P
  BY <1>1, <1>2, <1>3
<1>5. ASSUME NEW k \in 1..N, k - 1 \in P
      PROVE  k \in P
  <2> DEFINE out == f[k - 1]
             p == s[k]
             c == Sentences(body, p)
  <2>1. /\ IsList(out.done) /\ IsList(out.open) /\ k \in 0..N
        /\ f[k] = PutParagraph(body, out, p)
    BY <1>2, <1>5
  <2>2. IsList(c)
    BY <1>1, SentencesList
  <2> HIDE DEF out, p, c
  <2>3. IsList(Closed(out))
    BY <2>1, ConcatList DEF Closed
  <2>4. CASE p.len > TextMax
    <3>1. f[k] = [done |-> Closed(out) \o c, open |-> <<>>]
      BY <2>1, <2>4 DEF PutParagraph, c
    <3>2. IsList(Closed(out) \o c)
      BY <2>2, <2>3, ConcatList
    <3> HIDE DEF P
    <3>3. IsList(f[k].done) /\ IsList(f[k].open)
      BY <1>3, <3>1, <3>2
    <3> QED
      BY <2>1, <3>3 DEF P
  <2>5. CASE ~(p.len > TextMax)
    <3> DEFINE g == Glue(out.open[1], p, 2)
    <3>1. f[k] \in {[done |-> out.done, open |-> <<g>>],
                    [done |-> Closed(out), open |-> <<p>>]}
      BY <2>1, <2>5 DEF PutParagraph
    <3> HIDE DEF g
    <3>2. IsList(<<g>>) /\ IsList(<<p>>)
      BY DEF IsList
    <3> HIDE DEF P
    <3>3. CASE f[k] = [done |-> out.done, open |-> <<g>>]
      BY <2>1, <3>2, <3>3 DEF P
    <3>4. CASE f[k] = [done |-> Closed(out), open |-> <<p>>]
      BY <2>1, <2>3, <3>2, <3>4 DEF P
    <3> QED
      BY <3>1, <3>3, <3>4
  <2> QED
    BY <2>4, <2>5
<1> HIDE DEF P
<1>6. N \in P
  <2>1. N \in 0..N
    BY <1>1
  <2> QED
    BY <1>1, <1>4, <1>5, <2>1, UpTo
<1>7. IsList(f[N].done) /\ IsList(f[N].open)
  BY <1>6 DEF P
<1> QED
  BY <1>2, <1>7, ConcatList DEF Closed

\* The parts of a text.
LEMMA TextPartsList ==
    ASSUME NEW n \in Nat, NEW body, DOMAIN body = 1..n, NEW a \in 1..n, NEW b \in 1..n
    PROVE  IsList(TextParts(body, a, b))
<1> DEFINE parts == Packed(SplitParagraphs(body, a, b), 2)
           e == Piece(body, a, b)
<1>1. IsList(parts)
  BY SplitParagraphsList, PlacesOfList, PackedList
<1>2. TextParts(body, a, b) \in {<<e>>, RestMerged(parts)}
  BY DEF TextParts
<1> HIDE DEF parts, e
<1>3. IsList(RestMerged(parts))
  <2>1. CASE Len(parts) > 1 /\ Last(parts).len < ChunkMin
    <3> DEFINE g == Glue(Last(Front(parts)), Last(parts), 2)
    <3>1. RestMerged(parts) = Append(Front(Front(parts)), g)
      BY <2>1 DEF RestMerged
    <3>2. Len(parts) \in Nat
      BY <1>1, PlacesOfList
    <3>3. IsList(Front(parts)) /\ Len(Front(parts)) > 0
      BY <1>1, <2>1, <3>2, FrontList
    <3>4. IsList(Front(Front(parts)))
      BY <3>3, FrontList
    <3> QED
      BY <3>1, <3>4, AppendList
  <2>2. CASE ~(Len(parts) > 1 /\ Last(parts).len < ChunkMin)
    <3>1. RestMerged(parts) = parts
      BY <2>2 DEF RestMerged
    <3> QED
      BY <1>1, <3>1
  <2> QED
    BY <2>1, <2>2
<1>4. IsList(<<e>>)
  BY DEF IsList
<1> QED
  BY <1>2, <1>3, <1>4

\* Segments start and end in the text.
LEMMA SegmentsList ==
    ASSUME NEW n \in Nat, NEW body, DOMAIN body = 1..n
    PROVE  /\ IsList(Segments(body))
           /\ \A k \in 1..Len(Segments(body)) :
                 /\ Segments(body)[k].from \in 1..n /\ Segments(body)[k].to \in 1..n
                 /\ Segments(body)[k].table => Segments(body)[k].from <= Segments(body)[k].to
<1> DEFINE table(s) == [table |-> TRUE, from |-> s[1], to |-> s[2], caption |-> Caption(body, s[1])]
           text(s) == [table |-> FALSE, from |-> Min(Ink(body, s[1], s[2])),
                       to |-> Max(Ink(body, s[1], s[2])), caption |-> 0]
           tables == {s \in Stretches(body) : body[s[1]].kind = "row"}
           texts == {s \in Stretches(body) \ tables :
                       Ink(body, s[1], s[2]) # {} /\ ~OnlyCaption(body, s[1], s[2])}
           I == {s[1] : s \in tables \cup texts}
           order == InOrder(I)
           stretch(a) == CHOOSE s \in tables \cup texts : s[1] = a
           segment(a) == IF stretch(a) \in tables THEN table(stretch(a)) ELSE text(stretch(a))
           m == Len(order)
           ss == Segments(body)
<1>1. \A s \in tables \cup texts : s[1] \in 1..n /\ s[2] \in 1..n /\ s[1] <= s[2]
  BY DEF Stretches
<1>2. \A s \in texts : Ink(body, s[1], s[2]) # {}
  OBVIOUS
<1>3. ss = [k \in DOMAIN order |-> segment(order[k])]
  BY DEF Segments
<1>4. \A a \in I : stretch(a) \in tables \cup texts
  <2> TAKE a \in I
  <2>1. \E s \in tables \cup texts : s[1] = a
    OBVIOUS
  <2> HIDE DEF tables, texts
  <2> QED
    BY <2>1
<1> HIDE DEF tables, texts
<1>5. I \in SUBSET (1..n)
  BY <1>1
<1> HIDE DEF I
<1>6. order \in Seq(I)
  BY <1>5, InOrderIn
<1> HIDE DEF stretch, order
<1>7. m \in Nat /\ DOMAIN order = 1..m
  BY <1>6, LenProperties
<1>8. \A k \in 1..m : order[k] \in I
  BY <1>6, ElementOfSeq
<1>9. ASSUME NEW a \in I
      PROVE  /\ segment(a).from \in 1..n /\ segment(a).to \in 1..n
             /\ segment(a).table => segment(a).from <= segment(a).to
  <2> DEFINE s == stretch(a)
             J == Ink(body, s[1], s[2])
  <2>1. s \in tables \cup texts
    BY <1>4, <1>9
  <2> HIDE DEF s
  <2>2. s[1] \in 1..n /\ s[2] \in 1..n /\ s[1] <= s[2]
    BY <1>1, <2>1
  <2>3. CASE s \in tables
    <3>1. segment(a) = table(s)
      BY <2>3 DEF s
    <3> QED
      BY <2>2, <3>1
  <2>4. CASE s \notin tables
    <3>1. segment(a) = text(s)
      BY <2>4 DEF s
    <3>2. J # {} /\ J \in SUBSET (1..n)
      <4>1. J # {}
        BY <1>2, <2>1, <2>4
      <4>2. J \in SUBSET (s[1]..s[2])
        BY DEF Ink
      <4> QED
        BY <2>2, <4>1, <4>2
    <3> HIDE DEF J
    <3>3. Min(J) \in J /\ Max(J) \in J
      BY <3>2, FirstAndLast
    <3>4. Min(J) \in 1..n /\ Max(J) \in 1..n
      BY <3>2, <3>3
    <3> QED
      BY <3>1, <3>4 DEF J
  <2> QED
    BY <2>3, <2>4
<1> HIDE DEF segment, ss, m
<1>10. ss = [k \in 1..m |-> segment(order[k])]
  BY <1>3, <1>7
<1>11. IsList(ss) /\ Len(ss) = m
  <2>1. ss = [k \in 1..m |-> ss[k]]
    BY <1>10
  <2> QED
    BY <1>7, <2>1, ListOf
<1>12. ASSUME NEW k \in 1..m
       PROVE  /\ ss[k].from \in 1..n /\ ss[k].to \in 1..n
              /\ ss[k].table => ss[k].from <= ss[k].to
  <2>1. ss[k] = segment(order[k]) /\ order[k] \in I
    BY <1>8, <1>10 DEF m
  <2> QED
    BY <1>9, <2>1
<1> QED
  BY <1>11, <1>12 DEF ss

\* Lists put behind one another.
LEMMA FlattenList ==
    ASSUME NEW ss, IsList(ss), \A k \in 1..Len(ss) : IsList(ss[k])
    PROVE  IsList(FlattenSeq(ss))
<1> DEFINE S == UNION {{ss[k][j] : j \in DOMAIN ss[k]} : k \in 1..Len(ss)}
<1>1. \A k \in 1..Len(ss) : ss[k] \in Seq(S)
  <2> TAKE k \in 1..Len(ss)
  <2>1. \A j \in 1..Len(ss[k]) : ss[k][j] \in S
    BY PlacesOfList
  <2> HIDE DEF S
  <2> QED
    BY <2>1, ListIn
<1> HIDE DEF S
<1>2. FlattenSeq(ss) \in Seq(S)
  BY <1>1, FlattenIn
<1> QED
  BY <1>2, SeqIsList

\* The chunks of a segment.
LEMMA SegmentChunksList ==
    ASSUME NEW n \in Nat, NEW body, DOMAIN body = 1..n, NEW s, NEW g,
           g.from \in 1..n, g.to \in 1..n, g.table => g.from <= g.to
    PROVE  IsList(SegmentChunks(s, body, g))
<1> DEFINE parts == IF g.table THEN TableParts(body, g.from, g.to) ELSE TextParts(body, g.from, g.to)
           cs == SegmentChunks(s, body, g)
<1>1. IsList(parts)
  <2>1. CASE g.table
    <3>1. g.from \in Nat /\ g.to \in Nat /\ g.from <= g.to
      BY <2>1
    <3> QED
      BY <2>1, <3>1, TablePartsList
  <2>2. CASE ~g.table
    BY <2>2, TextPartsList
  <2> QED
    BY <2>1, <2>2
<1>2. cs = [k \in DOMAIN parts |-> cs[k]]
  BY DEF SegmentChunks
<1> HIDE DEF parts, cs
<1>3. Len(parts) \in Nat /\ DOMAIN parts = 1..Len(parts)
  BY <1>1, PlacesOfList
<1>4. cs = [k \in 1..Len(parts) |-> cs[k]]
  BY <1>2, <1>3
<1>5. IsList(cs)
  BY <1>3, <1>4, ListOf
<1> QED
  BY <1>5 DEF cs

\* The chunks of a section.
LEMMA SectionChunksList ==
    ASSUME NEW s, s.lines \in Seq(Line)
    PROVE  IsList(SectionChunks(s))
<1> DEFINE body == Cleaned(s.lines)
           n == Len(body)
           gs == Segments(body)
           ss == [k \in DOMAIN gs |-> SegmentChunks(s, body, gs[k])]
<1>1. n \in Nat /\ DOMAIN body = 1..n
  BY CleanedIn, LenProperties
<1>2. SectionChunks(s) = FlattenSeq(ss)
  BY DEF SectionChunks
<1> HIDE DEF body, n
<1>3. /\ IsList(gs)
      /\ \A k \in 1..Len(gs) : /\ gs[k].from \in 1..n /\ gs[k].to \in 1..n
                               /\ gs[k].table => gs[k].from <= gs[k].to
  BY <1>1, SegmentsList
<1> HIDE DEF gs
<1>4. Len(gs) \in Nat /\ DOMAIN gs = 1..Len(gs)
  BY <1>3, PlacesOfList
<1>5. \A k \in 1..Len(gs) : IsList(ss[k])
  <2> TAKE k \in 1..Len(gs)
  <2> DEFINE g == gs[k]
  <2>1. g.from \in 1..n /\ g.to \in 1..n /\ (g.table => g.from <= g.to)
    BY <1>3
  <2>2. ss[k] = SegmentChunks(s, body, g)
    BY <1>4
  <2> HIDE DEF g, ss
  <2>3. IsList(SegmentChunks(s, body, g))
    BY <1>1, <2>1, SegmentChunksList
  <2> QED
    BY <2>2, <2>3
<1>6. ss = [k \in 1..Len(gs) |-> ss[k]]
  BY <1>4
<1> HIDE DEF ss
<1>7. IsList(ss) /\ Len(ss) = Len(gs)
  BY <1>4, <1>6, ListOf
<1> QED
  BY <1>2, <1>5, <1>7, FlattenList

\* What the adaptive chunker returns is a list.
LEMMA ChunkMarkdownList ==
    ASSUME NEW lines \in Seq(Line)
    PROVE  IsList(ChunkMarkdown(lines))
<1> DEFINE text == Repair(Normalized(lines))
           secs == Sections(text)
           one == Uncut(WholeText(text), <<0, 0>>)
<1>1. AreSections(secs)
  BY CleanedIn, RepairIn, SectionsAre
<1>2. ChunkMarkdown(lines) \in {<<one>>, TreeChunks(secs)}
  BY DEF ChunkMarkdown
<1> HIDE DEF secs, one
<1>3. IsList(<<one>>)
  BY DEF IsList
<1> DEFINE chunks(s) == IF s.level = 0 \/ s.toc THEN <<>> ELSE SectionChunks(s)
           ss == [k \in DOMAIN secs |-> chunks(secs[k])]
           first == Uncut(Cleaned(secs[1].lines), PageRange(secs[1].lines))
           above == IF Cleaned(secs[1].lines) = <<>> THEN <<>> ELSE <<first>>
<1>4. TreeChunks(secs) = above \o FlattenSeq(ss)
  BY DEF TreeChunks
<1>5. Len(secs) \in Nat /\ DOMAIN secs = 1..Len(secs) /\ \A k \in 1..Len(secs) : IsSection(secs[k])
  BY <1>1, PlacesOfList DEF AreSections
<1>6. IsList(<<>>)
  BY NoneRead DEF AreRead, AreRows
<1>7. \A k \in 1..Len(secs) : IsList(ss[k])
  <2> TAKE k \in 1..Len(secs)
  <2> DEFINE s == secs[k]
  <2>1. ss[k] \in {<<>>, SectionChunks(s)}
    BY <1>5
  <2>2. IsSection(s)
    BY <1>5
  <2> HIDE DEF s
  <2>3. s.lines \in Seq(Line)
    BY <2>2 DEF IsSection
  <2> QED
    BY <1>6, <2>1, <2>3, SectionChunksList
<1>8. ss = [k \in 1..Len(secs) |-> ss[k]]
  BY <1>5
<1> HIDE DEF ss, first
<1>9. IsList(FlattenSeq(ss))
  <2>1. IsList(ss) /\ Len(ss) = Len(secs)
    BY <1>5, <1>8, ListOf
  <2> QED
    BY <1>7, <2>1, FlattenList
<1>10. IsList(above)
  <2>1. IsList(<<first>>)
    BY DEF IsList
  <2> QED
    BY <1>6, <2>1
<1> HIDE DEF above
<1> QED
  BY <1>2, <1>3, <1>4, <1>9, <1>10, ConcatList

\* Where the lines of a text start.
LEMMA OffsetStages ==
    ASSUME NEW lines, NEW i, i - 1 \in Nat
    PROVE  \E f : /\ f[0] = 0
                  /\ \A n \in 1..i - 1 : f[n] = f[n - 1] + lines[n].len + 1
                  /\ Offset(lines, i) = f[i - 1]
<1> DEFINE N == i - 1
           first == 0
<1> HIDE DEF first
<1> DEFINE Is(f, m) == f = [n \in 0..m |-> IF n = 0 THEN first ELSE f[n - 1] + lines[n].len + 1]
           able == {m \in Nat : \E f : Is(f, m)}
<1>1. 0 \in able
  <2>1. Is([n \in 0..0 |-> first], 0)
    OBVIOUS
  <2> QED
    BY <2>1
<1>2. ASSUME NEW m \in 1..N, m - 1 \in able
      PROVE  m \in able
  <2>1. m \in Nat \ {0} /\ N \in Nat
    OBVIOUS
  <2>2. PICK f : Is(f, m - 1)
    BY <1>2
  <2> DEFINE g == [n \in 0..m |-> IF n = m THEN f[m - 1] + lines[m].len + 1 ELSE f[n]]
  <2>3. \A n \in 0..(m - 1) : f[n] = IF n = 0 THEN first ELSE f[n - 1] + lines[n].len + 1
    BY <2>2
  <2>4. \A n \in 0..m : g[n] = IF n = 0 THEN first ELSE g[n - 1] + lines[n].len + 1
    BY <2>1, <2>3
  <2>5. Is(g, m)
    BY <2>4
  <2> QED
    BY <2>1, <2>5
<1> HIDE DEF able
<1>3. N \in able
  <2>1. N \in Nat /\ N \in 0..N
    OBVIOUS
  <2> HIDE DEF N
  <2> QED
    BY <1>1, <1>2, <2>1, UpTo
<1>4. \E f : Is(f, N)
  BY <1>3 DEF able
<1> DEFINE upto[n \in 0..N] == IF n = 0 THEN first ELSE upto[n - 1] + lines[n].len + 1
<1>5. Is(upto, N)
  BY <1>4
<1>6. Offset(lines, i) = upto[N]
  BY DEF Offset, first
<1> HIDE DEF upto
<1>7. /\ upto[0] = first
      /\ \A n \in 1..N : upto[n] = upto[n - 1] + lines[n].len + 1
  BY <1>5
<1> QED
  BY <1>6, <1>7 DEF first

\* They start at numbers, all but the first behind the start.
LEMMA OffsetIsNumber ==
    ASSUME NEW lines \in Seq(Line), NEW i \in 1..(Len(lines) + 1)
    PROVE  Offset(lines, i) \in Nat /\ (i > 1 => Offset(lines, i) > 0)
<1> DEFINE N == i - 1
<1>1. N \in Nat /\ N <= Len(lines) /\ Len(lines) \in Nat
  BY LenProperties
<1>2. PICK f : /\ f[0] = 0
               /\ \A n \in 1..N : f[n] = f[n - 1] + lines[n].len + 1
               /\ Offset(lines, i) = f[N]
  BY <1>1, OffsetStages
<1> DEFINE P == {n \in 0..N : f[n] \in Nat /\ (n > 0 => f[n] > 0)}
<1>3. 0 \in P
  BY <1>1, <1>2
<1>4. ASSUME NEW k \in 1..N, k - 1 \in P
      PROVE  k \in P
  <2>1. k \in 0..N /\ k \in 1..Len(lines)
    BY <1>1
  <2>2. lines[k] \in Line
    BY <2>1, ElementOfSeq
  <2>3. lines[k].len \in Nat
    BY <2>2 DEF Line
  <2>4. f[k - 1] \in Nat /\ f[k] = f[k - 1] + lines[k].len + 1
    BY <1>2, <1>4
  <2>5. f[k] \in Nat /\ f[k] > 0
    BY <2>3, <2>4
  <2> QED
    BY <2>1, <2>5
<1> HIDE DEF P
<1>5. N \in P
  <2>1. N \in 0..N
    BY <1>1
  <2> HIDE DEF N
  <2> QED
    BY <1>1, <1>3, <1>4, <2>1, UpTo
<1>6. f[N] \in Nat /\ (N > 0 => f[N] > 0)
  BY <1>5 DEF P
<1> QED
  BY <1>1, <1>2, <1>6

\* A text has a length.
LEMMA LengthIsNumber ==
    ASSUME NEW lines \in Seq(Line)
    PROVE  Length(lines) \in Nat
<1>1. CASE lines = <<>>
  BY <1>1 DEF Length
<1>2. CASE lines # <<>>
  <2>1. Len(lines) \in Nat /\ Len(lines) > 0
    BY <1>2, EmptySeq, LenProperties
  <2> DEFINE i == Len(lines) + 1
  <2>2. i \in 1..(Len(lines) + 1) /\ i > 1
    BY <2>1
  <2>3. Length(lines) = Offset(lines, i) - 1
    BY <1>2 DEF Length
  <2> HIDE DEF i
  <2>4. Offset(lines, i) \in Nat /\ Offset(lines, i) > 0
    BY <2>2, OffsetIsNumber
  <2> QED
    BY <2>3, <2>4
<1> QED
  BY <1>1, <1>2

\* Windows can end at numbers.
LEMMA BreaksAreNumbers ==
    ASSUME NEW lines \in Seq(Line)
    PROVE  Breaks(lines) \in SUBSET Int
<1> SUFFICES ASSUME NEW b \in Breaks(lines)
             PROVE  b \in Int
  OBVIOUS
<1>1. PICK i \in DOMAIN lines :
          b \in {Offset(lines, i) + lines[i].len}
                 \cup (IF lines[i].stop THEN {Offset(lines, i) + lines[i].len - 1} ELSE {})
                 \cup (IF lines[i].kind = "heading" THEN {Offset(lines, i) + lines[i].level} ELSE {})
  BY DEF Breaks
<1>2. i \in 1..Len(lines) /\ i \in 1..(Len(lines) + 1) /\ Len(lines) \in Nat
  BY LenProperties
<1>3. lines[i] \in Line
  BY <1>2, ElementOfSeq
<1>4. lines[i].len \in Nat /\ lines[i].level \in Nat
  BY <1>3 DEF Line
<1>5. Offset(lines, i) \in Nat
  BY <1>2, OffsetIsNumber
<1> QED
  BY <1>1, <1>4, <1>5

\* A window ends somewhere, and the next one starts behind its start.
LEMMA WindowEnds ==
    ASSUME NEW breaks \in SUBSET Int, NEW length \in Nat, NEW s \in Nat
    PROVE  NextStart(s, EndOf(breaks, length, s)) \in Nat
           /\ s < NextStart(s, EndOf(breaks, length, s))
<1> DEFINE L == Late(breaks, s)
           e == EndOf(breaks, length, s)
<1>1. WindowSize \in Nat \ {0} /\ OverlapSize \in Nat
  BY WindowsAssumption
<1>2. \E x \in s..(s + WindowSize) : IsEnd(breaks, length, s, x)
  <2>1. CASE s + WindowSize < length /\ L # {}
    <3> DEFINE n == s + WindowSize
    <3>1. n \in Nat /\ L \in SUBSET (1..n) /\ \A b \in L : s < b /\ b < n
      <4>1. n \in Nat
        BY <1>1
      <4>2. ASSUME NEW b \in L
            PROVE  b \in 1..n /\ s < b /\ b < n
        <5>1. b \in Int /\ b < n /\ WindowSize < 2 * (b - s)
          BY DEF Late
        <5>2. s < b
          BY <1>1, <5>1
        <5> QED
          BY <4>1, <5>1, <5>2
      <4> QED
        BY <4>1, <4>2
    <3> DEFINE m == Max(L)
    <3>2. Max(L) \in L /\ \A b \in L : b <= Max(L)
      <4> HIDE DEF L, n
      <4> QED
        BY <2>1, <3>1, FirstAndLast
    <3> HIDE DEF L, m
    <3>3. m \in L /\ \A b \in L : b <= m
      BY <3>2 DEF m
    <3>4. m + 1 \in s..(s + WindowSize) /\ m + 1 - 1 = m /\ \A b \in L : b < m + 1
      BY <1>1, <3>1, <3>3
    <3> DEFINE x == m + 1
    <3>5. x \in s..(s + WindowSize) /\ x - 1 \in L /\ \A b \in L : b < x
      <4>1. x \in s..(s + WindowSize) /\ \A b \in L : b < x
        BY <3>4
      <4>2. x - 1 = m
        BY <3>1, <3>3
      <4> HIDE DEF x
      <4> QED
        BY <3>3, <4>1, <4>2
    <3> HIDE DEF x
    <3>6. IsEnd(breaks, length, s, x)
      <4>1. s + WindowSize < length /\ Late(breaks, s) # {}
        BY <2>1 DEF L
      <4>2. x - 1 \in Late(breaks, s) /\ \A b \in Late(breaks, s) : b < x
        BY <3>5 DEF L
      <4> QED
        BY <4>1, <4>2 DEF IsEnd
    <3> QED
      BY <3>5, <3>6
  <2>2. CASE ~(s + WindowSize < length /\ L # {})
    <3>1. s + WindowSize \in s..(s + WindowSize)
      BY <1>1
    <3>2. IsEnd(breaks, length, s, s + WindowSize)
      BY <2>2 DEF IsEnd
    <3> QED
      BY <3>1, <3>2
  <2> QED
    BY <2>1, <2>2
<1>3. e \in s..(s + WindowSize) /\ IsEnd(breaks, length, s, e)
  BY <1>2 DEF EndOf
<1> HIDE DEF e
<1>4. e \in Int
  BY <1>1, <1>3
<1>5. s < NextStart(s, e) /\ NextStart(s, e) = e - OverlapSize
  BY <1>3, <1>4, WindowsProgress
<1> QED
  BY <1>1, <1>4, <1>5 DEF e

\* The windows of a text are a list.
LEMMA WindowsList ==
    ASSUME NEW breaks \in SUBSET Int, NEW length \in Nat
    PROVE  IsList(SlidingWindow(breaks, length))
<1> DEFINE end(s) == EndOf(breaks, length, s)
           next(s) == NextStart(s, end(s))
           put(s, rest) == <<<<s, end(s)>>>> \o rest
<1>1. \A s \in 0..length : next(s) \in Nat /\ s < next(s)
  BY WindowEnds
<1>2. IsList(<<>>)
  BY NoneRead DEF AreRead, AreRows
<1> DEFINE from[s \in 0..length] ==
               IF s >= length THEN <<>>
               ELSE put(s, IF next(s) < length THEN from[next(s)] ELSE <<>>)
<1>3. WindowsFrom(breaks, length) = from[0]
  BY DEF WindowsFrom
<1> HIDE DEF next, put
<1> DEFINE Is(f, m) == f = [s \in (length - m)..length |->
                               IF s >= length THEN <<>>
                               ELSE put(s, IF next(s) < length THEN f[next(s)] ELSE <<>>)]
           able == {m \in Nat : \E f : Is(f, m)}
<1>4. 0 \in able
  <2> DEFINE g == [s \in (length - 0)..length |-> <<>>]
  <2>1. \A s \in (length - 0)..length : s >= length
    OBVIOUS
  <2>2. Is(g, 0)
    BY <2>1
  <2> QED
    BY <2>2
<1>5. ASSUME NEW m \in 1..length, m - 1 \in able
      PROVE  m \in able
  <2> DEFINE t == length - m
  <2>1. t \in Nat /\ t < length /\ t \in 0..length /\ m \in Nat /\ length - (m - 1) = t + 1
    OBVIOUS
  <2>2. PICK f : Is(f, m - 1)
    BY <1>5
  <2> DEFINE g == [s \in t..length |->
                      IF s = t THEN put(s, IF next(s) < length THEN f[next(s)] ELSE <<>>)
                      ELSE f[s]]
  <2>3. \A s \in (t + 1)..length :
            f[s] = IF s >= length THEN <<>>
                   ELSE put(s, IF next(s) < length THEN f[next(s)] ELSE <<>>)
    BY <2>1, <2>2
  <2>4. \A s \in t..length : next(s) < length => g[next(s)] = f[next(s)]
    <3> TAKE s \in t..length
    <3>1. s \in 0..length
      BY <2>1
    <3>2. next(s) \in Nat /\ s < next(s)
      BY <1>1, <3>1
    <3>3. next(s) < length => next(s) \in t..length /\ next(s) # t
      BY <2>1, <3>1, <3>2
    <3> QED
      BY <3>3
  <2>5. \A s \in t..length :
            g[s] = IF s >= length THEN <<>>
                   ELSE put(s, IF next(s) < length THEN g[next(s)] ELSE <<>>)
    <3> TAKE s \in t..length
    <3>1. CASE s = t
      BY <2>1, <2>4, <3>1
    <3>2. CASE s # t
      <4>1. s \in (t + 1)..length
        BY <2>1, <3>2
      <4>2. g[s] = f[s]
        BY <3>2
      <4> HIDE DEF g
      <4> QED
        BY <2>3, <2>4, <4>1, <4>2
    <3> QED
      BY <3>1, <3>2
  <2>6. g = [s \in t..length |-> g[s]]
    OBVIOUS
  <2> HIDE DEF g
  <2>7. Is(g, m)
    BY <2>5, <2>6
  <2> QED
    BY <2>1, <2>7
<1> HIDE DEF able
<1>6. length \in able
  <2>1. length \in 0..length
    OBVIOUS
  <2> QED
    BY <1>4, <1>5, <2>1, UpTo
<1>7. \E f : Is(f, length)
  BY <1>6 DEF able
<1>8. Is(from, length)
  <2>1. length - length = 0
    OBVIOUS
  <2> QED
    BY <1>7, <2>1
<1> HIDE DEF from
<1>9. \A s \in 0..length :
          from[s] = IF s >= length THEN <<>>
                    ELSE put(s, IF next(s) < length THEN from[next(s)] ELSE <<>>)
  <2>1. length - length = 0
    OBVIOUS
  <2> QED
    BY <1>8, <2>1
<1> DEFINE P == {m \in 0..length : \A s \in (length - m)..length : IsList(from[s])}
<1>10. 0 \in P
  <2>1. \A s \in (length - 0)..length : s \in 0..length /\ s >= length
    OBVIOUS
  <2>2. \A s \in (length - 0)..length : IsList(from[s])
    BY <1>2, <1>9, <2>1
  <2> QED
    BY <2>2
<1>11. ASSUME NEW m \in 1..length, m - 1 \in P
       PROVE  m \in P
  <2> DEFINE t == length - m
  <2>1. t \in 0..length /\ t < length /\ length - (m - 1) = t + 1 /\ m \in 0..length
    OBVIOUS
  <2>2. \A s \in (t + 1)..length : IsList(from[s])
    BY <1>11, <2>1
  <2> DEFINE rest == IF next(t) < length THEN from[next(t)] ELSE <<>>
  <2>3. IsList(rest)
    <3>1. next(t) \in Nat /\ t < next(t)
      BY <1>1, <2>1
    <3>2. next(t) < length => next(t) \in (t + 1)..length
      BY <2>1, <3>1
    <3> QED
      BY <1>2, <2>2, <3>2
  <2>4. from[t] = put(t, rest)
    BY <1>9, <2>1
  <2> HIDE DEF rest
  <2>5. IsList(put(t, rest))
    <3> DEFINE w == <<t, end(t)>>
    <3>1. put(t, rest) = <<w>> \o rest
      BY DEF put
    <3> HIDE DEF w
    <3>2. IsList(<<w>>)
      BY DEF IsList
    <3> QED
      BY <2>3, <3>1, <3>2, ConcatList
  <2>6. IsList(from[t])
    BY <2>4, <2>5
  <2>7. \A s \in t..length : IsList(from[s])
    <3> TAKE s \in t..length
    <3>1. s = t \/ s \in (t + 1)..length
      BY <2>1
    <3> QED
      BY <2>2, <2>6, <3>1
  <2> QED
    BY <2>1, <2>7
<1> HIDE DEF P
<1>12. length \in P
  <2>1. length \in 0..length
    OBVIOUS
  <2> QED
    BY <1>10, <1>11, <2>1, UpTo
<1>13. IsList(from[0])
  <2>1. 0 \in (length - length)..length
    OBVIOUS
  <2> QED
    BY <1>12, <2>1 DEF P
<1> DEFINE all == <<0, length>>
<1>14. SlidingWindow(breaks, length) \in {<<all>>, from[0]}
  BY <1>3 DEF SlidingWindow
<1> HIDE DEF all
<1>15. IsList(<<all>>)
  BY DEF IsList
<1> QED
  BY <1>13, <1>14, <1>15

\* What the fixed chunker returns is a list.
LEMMA FixedChunksList ==
    ASSUME NEW raw \in Seq(Line)
    PROVE  IsList(FixedChunks(raw))
<1> DEFINE normal == WithoutContents(Normalized(raw))
           text == Cleaned(normal)
           windows == IF text = <<>> THEN <<>> ELSE SlidingWindow(Breaks(text), Length(text))
           cs == FixedChunks(raw)
<1>1. cs = [k \in DOMAIN windows |-> cs[k]]
  BY DEF FixedChunks
<1>2. Normalized(raw) \in Seq(Line)
  BY CleanedIn
<1>3. normal \in Seq(Line)
  BY <1>2, CleanedIn
<1> HIDE DEF normal
<1>4. text \in Seq(Line)
  BY <1>3, CleanedIn
<1> HIDE DEF text, cs
<1>5. IsList(windows)
  <2>1. Breaks(text) \in SUBSET Int /\ Length(text) \in Nat
    BY <1>4, BreaksAreNumbers, LengthIsNumber
  <2>2. IsList(SlidingWindow(Breaks(text), Length(text)))
    BY <2>1, WindowsList
  <2>3. IsList(<<>>)
    BY NoneRead DEF AreRead, AreRows
  <2> QED
    BY <2>2, <2>3
<1> HIDE DEF windows
<1>6. Len(windows) \in Nat /\ DOMAIN windows = 1..Len(windows)
  BY <1>5, PlacesOfList
<1>7. cs = [k \in 1..Len(windows) |-> cs[k]]
  BY <1>1, <1>6
<1>8. IsList(cs)
  BY <1>6, <1>7, ListOf
<1> QED
  BY <1>8 DEF cs

\* Either chunker returns a list of chunks, whatever the lines are.
LEMMA CutIsList ==
    ASSUME NEW c, NEW lines \in Seq(Line)
    PROVE  IsList(Cut(c, lines))
BY FixedChunksList, ChunkMarkdownList DEF Cut

-----------------------------------------------------------------------------
\* A document, from its conversion to the recovery of its rows.

\* The markdown, and the file it was written to, are lines.
AreLines == md \in Seq(Line) /\ file \in Seq(Line) /\ cuts \in Nat

\* Before the OCR there is nothing but the markdown as it was converted.
Fresh ==
    /\ cuts = 0 /\ rows = <<>> /\ made = {} /\ db = "there" /\ points = NoPoints
    /\ \A i \in DOMAIN md : md[i].at = i

\* Rows that hold what the OCR made and, if a cut left them, are numbered.
Sound(s, cut) == Holds(s, made) /\ (cut => Numbered(s))

\* The inductive invariant: the rows are sound, or they are lost and their
\* points are; points come of a cut and are as sound as its rows.
RowsInv ==
    /\ ~ocred => Fresh
    /\ db = "dropped" => points # NoPoints /\ rows = <<>>
    /\ db # "dropped" => Sound(rows, cuts > 0)
    /\ points # NoPoints => cuts > 0 /\ Sound(points.rows, TRUE)

DocInv == AreLines /\ RowsInv

\* A point has the row, but for pages of which only one is known.
LEMMA PointRow ==
    ASSUME NEW r, IsRow(r)
    PROVE  /\ IsRow(Point(r)) /\ Point(r).path = r.path /\ Point(r).ocr = r.ocr
           /\ Point(r).kind = r.kind /\ Point(r).seq = r.seq
           /\ Point(r).part = r.part /\ Point(r).total = r.total
<1> DEFINE p == [r EXCEPT !.start = 0]
           q == [p EXCEPT !.end = 0]
<1>1. IsRow(p)
  BY DEF IsRow
<1>2. /\ p.path = r.path /\ p.ocr = r.ocr /\ p.kind = r.kind /\ p.seq = r.seq
      /\ p.part = r.part /\ p.total = r.total
  BY DEF IsRow
<1>3. Point(r) = q \/ Point(r) = r
  BY DEF Point
<1> HIDE DEF p
<1>4. /\ q.path = p.path /\ q.ocr = p.ocr /\ q.kind = p.kind /\ q.seq = p.seq
      /\ q.part = p.part /\ q.total = p.total
  BY <1>1 DEF IsRow
<1>5. IsRow(q)
  BY <1>1 DEF IsRow
<1> HIDE DEF q
<1> QED
  BY <1>2, <1>3, <1>4, <1>5

\* The points of sound rows are sound.
LEMMA PointsSound ==
    ASSUME Holds(rows, made), Numbered(rows)
    PROVE  Holds(Points.rows, made) /\ Numbered(Points.rows)
<1> DEFINE t == Points.rows
<1>1. t = [k \in DOMAIN rows |-> Point(rows[k])]
  BY DEF Points
<1>2. \A k \in DOMAIN rows : IsRow(rows[k])
  BY DEF Holds, AreRows
<1> HIDE DEF t
<1>3. \A k \in DOMAIN rows :
         /\ IsRow(t[k]) /\ t[k].path = rows[k].path /\ t[k].ocr = rows[k].ocr
         /\ t[k].kind = rows[k].kind /\ t[k].seq = rows[k].seq
         /\ t[k].part = rows[k].part /\ t[k].total = rows[k].total
  BY <1>1, <1>2, PointRow
<1>4. DOMAIN t = DOMAIN rows /\ t = [k \in DOMAIN rows |-> t[k]]
  BY <1>1
<1>5. Holds(t, made) /\ (NativesFirst(rows) => NativesFirst(t))
  BY <1>3, <1>4, AlikeHold
<1>6. \A k \in DOMAIN t :
         {j \in DOMAIN t : t[j].path = t[k].path} = {j \in DOMAIN rows : rows[j].path = rows[k].path}
  BY <1>3, <1>4
<1>7. \A k \in DOMAIN t : t[k].seq = k
  BY <1>3, <1>4 DEF Numbered
<1>8. \A k \in DOMAIN t :
         t[k].path # <<>> =>
            LET own == {j \in DOMAIN t : t[j].path = t[k].path}
            IN  t[k].part = Cardinality({j \in own : j <= k}) /\ t[k].total = Cardinality(own)
  <2> TAKE k \in DOMAIN t
  <2> DEFINE own == {j \in DOMAIN t : t[j].path = t[k].path}
             group == {j \in DOMAIN rows : rows[j].path = rows[k].path}
             a == Cardinality({j \in own : j <= k})
             b == Cardinality(own)
  <2>1. own = group
    BY <1>6
  <2>2. a = Cardinality({j \in group : j <= k}) /\ b = Cardinality(group)
    BY <2>1
  <2>3. rows[k].path # <<>> => /\ rows[k].part = Cardinality({j \in group : j <= k})
                              /\ rows[k].total = Cardinality(group)
    BY <1>4 DEF Numbered
  <2> HIDE DEF a, b, own, group
  <2>4. /\ t[k].path = rows[k].path
        /\ t[k].part = rows[k].part /\ t[k].total = rows[k].total
    BY <1>3, <1>4
  <2>5. t[k].path # <<>> => t[k].part = a /\ t[k].total = b
    BY <2>2, <2>3, <2>4
  <2> QED
    BY <2>5 DEF a, b, own
<1>9. Numbered(t)
  BY <1>5, <1>7, <1>8 DEF Numbered
<1> QED
  BY <1>5, <1>9 DEF t

\* Each step keeps the lines.
LEMMA LinesKept ==
    ASSUME AreLines, Next
    PROVE  AreLines'
<1> USE DEF AreLines
<1>1. ASSUME NEW p \in Pieces, Convert(p)
      PROVE  AreLines'
  <2> DEFINE more == [i \in DOMAIN p |-> [p[i] EXCEPT !.at = Len(md) + i]]
  <2>1. p \in Seq(Line) /\ Len(p) \in Nat /\ DOMAIN p = 1..Len(p)
    BY DocumentsAssumption, LenProperties
  <2>2. \A i \in 1..Len(p) : more[i] \in Line
    <3> TAKE i \in 1..Len(p)
    <3>1. p[i] \in Line /\ Len(md) + i \in Nat
      BY <2>1, ElementOfSeq, LenProperties
    <3> QED
      BY <2>1, <3>1, LineKept
  <2>3. more \in [1..Len(p) -> Line]
    BY <2>1, <2>2
  <2>4. md' = md \o more
    BY <1>1 DEF Convert
  <2> HIDE DEF more
  <2>5. more \in Seq(Line)
    BY <2>1, <2>3, SeqDef
  <2>6. md' \in Seq(Line)
    BY <2>4, <2>5, ConcatProperties
  <2> QED
    BY <1>1, <2>6 DEF Convert
<1>2. ASSUME NEW answers \in [Figures(md) -> Found], OcrImages(answers)
      PROVE  AreLines'
  <2> DEFINE bare == Stripped(md)
  <2>1. Len(md) \in Nat /\ DOMAIN md = 1..Len(md)
    BY LenProperties
  <2>2. \A i \in 1..Len(md) : bare[i] \in Line
    <3> TAKE i \in 1..Len(md)
    <3>1. md[i] \in Line
      BY ElementOfSeq
    <3>2. Blank(md[i]) \in Line
      BY <3>1, LineKept
    <3>3. bare[i] = IF md[i].kind = "image" THEN Blank(md[i]) ELSE md[i]
      BY <2>1 DEF Stripped
    <3> QED
      BY <3>1, <3>2, <3>3
  <2>3. bare \in [1..Len(md) -> Line]
    BY <2>1, <2>2 DEF Stripped
  <2> HIDE DEF bare
  <2>4. bare \in Seq(Line)
    BY <2>1, <2>3, SeqDef
  <2> QED
    BY <1>2, <2>4 DEF OcrImages, outside, bare
<1>3. ASSUME NEW c \in Chunkers, ChunkDocument(c)
      PROVE  AreLines'
  BY <1>3 DEF ChunkDocument, outside
<1>4. CASE EmbedDocument
  BY <1>4 DEF EmbedDocument
<1>5. CASE DropTables
  <2>1. <<>> \in Seq(Line)
    OBVIOUS
  <2> QED
    BY <1>5, <2>1 DEF DropTables
<1>6. ASSUME NEW matched \in BOOLEAN, Recover(matched)
      PROVE  AreLines'
  BY <1>6 DEF Recover
<1> QED
  BY <1>1, <1>2, <1>3, <1>4, <1>5, <1>6 DEF Next

\* The first rows are those of the OCR.
LEMMA OcrKeeps ==
    ASSUME DocInv, NEW answers \in [Figures(md) -> Found], OcrImages(answers)
    PROVE  RowsInv'
<1> DEFINE s == OcrRows(md, answers)
<1>1. Fresh /\ ~ocred /\ md # <<>> /\ md \in Seq(Line)
  BY DEF DocInv, RowsInv, AreLines, OcrImages
<1>2. AreRead(s, DOMAIN md)
  BY <1>1, OcrRowsRead DEF Fresh
<1>3. rows' = <<>> \o s /\ made' = {s[k].ocr : k \in DOMAIN s}
  BY <1>1 DEF OcrImages, Fresh
<1>4. UNCHANGED <<cuts, points, db>> /\ ocred'
  BY DEF OcrImages, outside
<1>5. DOMAIN md \in SUBSET Nat
  BY <1>1, LenProperties
<1> HIDE DEF s
<1>6. <<>> \o s = s
  BY <1>2, ConcatEmptySeq DEF AreRead, AreRows, IsList
<1>7. \A k \in DOMAIN s : s[k].ocr # <<>>
  <2> TAKE k \in DOMAIN s
  <2>1. PICK x \in DOMAIN md, n \in Nat : s[k].ocr = <<x, n>>
    BY <1>2 DEF AreRead
  <2>2. <<x, n>> # <<>>
    OBVIOUS
  <2> QED
    BY <2>1, <2>2
<1>8. Read(s) = DOMAIN s
  BY <1>7 DEF Read
<1>9. Holds(s, made')
  BY <1>2, <1>3, <1>8 DEF Holds, AreRead
<1>10. cuts' = 0 /\ points' = NoPoints /\ db' = "there"
  BY <1>1, <1>4 DEF Fresh
<1> QED
  BY <1>3, <1>4, <1>6, <1>9, <1>10 DEF RowsInv, Sound

\* A cut leaves sound rows of whatever text.
LEMMA CutKeeps ==
    ASSUME DocInv, NEW c \in Chunkers, ChunkDocument(c)
    PROVE  RowsInv'
<1>1. /\ ocred /\ db \in {"there", "recovered"} /\ cuts' = cuts + 1
      /\ UNCHANGED <<made, points, db>> /\ ocred'
  BY DEF ChunkDocument, outside
<1>2. /\ md \in Seq(Line) /\ cuts \in Nat /\ Holds(rows, made)
      /\ points # NoPoints => Sound(points.rows, TRUE)
  BY <1>1 DEF DocInv, AreLines, RowsInv, Sound
<1> DEFINE text == TextRows(Cut(c, md))
<1>3. PICK kept \in Preserved : \E out \in {Reassigned(Merged(text, kept))} :
          rows' = [k \in DOMAIN out |-> [out[k] EXCEPT !.seq = k]]
  BY DEF ChunkDocument
<1> DEFINE m == Merged(text, kept)
           out == Reassigned(m)
<1>4. rows' = [k \in DOMAIN out |-> [out[k] EXCEPT !.seq = k]]
  BY <1>3
<1>5. IsList(Cut(c, md))
  BY <1>2, CutIsList
<1>6. Holds(text, {}) /\ NativesFirst(text)
  BY <1>5, TextHolds
<1>7. Holds(kept, made) /\ Read(kept) = DOMAIN kept
  BY <1>2, PreservedHolds
<1> HIDE DEF text
<1>8. Holds(m, made) /\ NativesFirst(m)
  BY <1>6, <1>7, AllPutIn
<1>9. out = Reassigned(m)
  OBVIOUS
<1> HIDE DEF m, out
<1>10. Holds(rows', made) /\ Numbered(rows')
  BY <1>4, <1>8, <1>9, CutHolds
<1>11. cuts' > 0
  BY <1>1, <1>2
<1> QED
  BY <1>1, <1>2, <1>10, <1>11 DEF RowsInv, Sound

\* Nothing that happens to the rows or their points harms them.
LEMMA OthersKeep ==
    ASSUME DocInv,
           \/ \E p \in Pieces : Convert(p)
           \/ EmbedDocument \/ DropTables
           \/ \E matched \in BOOLEAN : Recover(matched)
    PROVE  RowsInv'
<1>1. AreLines /\ RowsInv
  BY DEF DocInv
<1>2. ASSUME NEW p \in Pieces, Convert(p)
      PROVE  RowsInv'
  <2>1. Fresh /\ md \in Seq(Line) /\ p \in Seq(Line)
    BY <1>1, <1>2, DocumentsAssumption DEF RowsInv, AreLines, Convert
  <2> DEFINE more == [i \in DOMAIN p |-> [p[i] EXCEPT !.at = Len(md) + i]]
  <2>2. /\ Len(md) \in Nat /\ DOMAIN md = 1..Len(md) /\ Len(p) \in Nat /\ DOMAIN p = 1..Len(p)
    BY <2>1, LenProperties
  <2>3. \A i \in 1..Len(p) : more[i].at = Len(md) + i /\ more[i] \in Line
    <3> TAKE i \in 1..Len(p)
    <3>1. p[i] \in Line /\ Len(md) + i \in Nat
      BY <2>1, <2>2, ElementOfSeq
    <3> QED
      BY <2>2, <3>1, LineKept
  <2>4. md' = md \o more
    BY <1>2 DEF Convert
  <2>5. more \in [1..Len(p) -> Line]
    BY <2>2, <2>3
  <2> HIDE DEF more
  <2>6. more \in Seq(Line) /\ Len(more) = Len(p)
    BY <2>2, <2>5, SeqDef, LenProperties
  <2>7. \A i \in DOMAIN md' : md'[i].at = i
    <3> TAKE i \in DOMAIN md'
    <3>1. i \in 1..(Len(md) + Len(p))
      BY <2>1, <2>4, <2>6, ConcatProperties, LenProperties
    <3>2. CASE i <= Len(md)
      <4>1. md'[i] = md[i] /\ i \in DOMAIN md
        BY <2>1, <2>2, <2>4, <2>6, <3>1, <3>2, ConcatProperties
      <4> QED
        BY <2>1, <4>1 DEF Fresh
    <3>3. CASE i > Len(md)
      <4>1. md'[i] = more[i - Len(md)] /\ i - Len(md) \in 1..Len(p)
        BY <2>1, <2>2, <2>4, <2>6, <3>1, <3>3, ConcatProperties
      <4> QED
        BY <2>2, <2>3, <3>1, <4>1
    <3> QED
      BY <2>2, <3>1, <3>2, <3>3
  <2>8. UNCHANGED <<ocred, rows, made, cuts, points, db>>
    BY <1>2 DEF Convert
  <2> QED
    BY <1>1, <2>1, <2>7, <2>8 DEF RowsInv, Fresh, Sound
<1>3. CASE EmbedDocument
  <2>1. cuts > 0 /\ rows # <<>> /\ points' = Points
        /\ UNCHANGED <<md, ocred, rows, made, cuts, db>>
    BY <1>3 DEF EmbedDocument
  <2>2. db # "dropped" /\ ocred /\ Holds(rows, made) /\ Numbered(rows)
    BY <1>1, <2>1 DEF RowsInv, Fresh, Sound
  <2>3. Holds(points'.rows, made) /\ Numbered(points'.rows)
    BY <2>1, <2>2, PointsSound
  <2> QED
    BY <1>1, <2>1, <2>2, <2>3 DEF RowsInv, Sound
<1>4. CASE DropTables
  <2>1. points # NoPoints /\ rows' = <<>> /\ db' = "dropped" /\ UNCHANGED <<ocred, made, cuts, points>>
    BY <1>4 DEF DropTables
  <2> QED
    BY <1>1, <2>1 DEF RowsInv, Fresh, Sound
<1>5. ASSUME NEW matched \in BOOLEAN, Recover(matched)
      PROVE  RowsInv'
  <2>1. /\ db = "dropped" /\ rows' = points.rows /\ db' \in {"recovered", "unmatched"}
        /\ UNCHANGED <<ocred, made, cuts, points>>
    BY <1>5 DEF Recover
  <2> QED
    BY <1>1, <2>1 DEF RowsInv, Fresh, Sound
<1> QED
  BY <1>2, <1>3, <1>4, <1>5

\* The rows of a document are sound, whatever is done to it and in which order.
THEOREM RowsSound == Spec => []DocInv
<1>1. Init => DocInv
  <2> SUFFICES ASSUME Init PROVE DocInv
    OBVIOUS
  <2>1. <<>> \in Seq(Line) /\ Read(<<>>) = {}
    BY DEF Read
  <2>2. Holds(<<>>, {})
    BY <2>1, NoneRead DEF Holds, AreRead
  <2> QED
    BY <2>1, <2>2 DEF Init, DocInv, AreLines, RowsInv, Fresh, Sound
<1>2. DocInv /\ [Next]_vars => DocInv'
  <2> SUFFICES ASSUME DocInv, [Next]_vars PROVE DocInv'
    OBVIOUS
  <2>1. CASE Next
    <3>1. AreLines'
      BY <2>1, LinesKept DEF DocInv
    <3>2. RowsInv'
      BY <2>1, OcrKeeps, CutKeeps, OthersKeep DEF Next
    <3> QED
      BY <3>1, <3>2 DEF DocInv
  <2>2. CASE UNCHANGED vars
    BY <2>2 DEF vars, outside, DocInv, AreLines, RowsInv, Fresh, Sound
  <2> QED
    BY <2>1, <2>2
<1> QED
  BY <1>1, <1>2, PTL DEF Spec

\* Therefore what Paddle read is in the rows of a document exactly once, however
\* often, with whichever chunker it is cut, and also after a recovery.
THEOREM OcrIsKept == Spec => []OcrOnce
<1>1. DocInv => OcrOnce
  <2> SUFFICES ASSUME DocInv, db # "dropped" PROVE OcrOnce
    BY DEF OcrOnce
  <2>1. Holds(rows, made)
    BY DEF DocInv, RowsInv, Sound
  <2>2. DOMAIN rows \ Native = Read(rows)
    BY DEF Native, Read
  <2> QED
    BY <2>1, <2>2 DEF Holds, OcrOnce
<1> QED
  BY <1>1, RowsSound, PTL

\* And the rows under one heading are numbered in their order, those of the text
\* before those of the images.
THEOREM SectionsAreNumbered == Spec => []SiblingsNumbered
<1>1. DocInv => SiblingsNumbered
  <2> SUFFICES ASSUME DocInv, HasRows, NEW k \in DOMAIN rows, rows[k].path # <<>>
               PROVE  LET group == {j \in DOMAIN rows : rows[j].path = rows[k].path}
                      IN  /\ rows[k].part = Cardinality({j \in group : rows[j].seq <= rows[k].seq})
                          /\ rows[k].total = Cardinality(group)
                          /\ rows[k].ocr = <<>> =>
                                \A j \in group : rows[j].seq < rows[k].seq => rows[j].ocr = <<>>
    BY DEF SiblingsNumbered
  <2> DEFINE group == {j \in DOMAIN rows : rows[j].path = rows[k].path}
  <2>1. Numbered(rows)
    BY DEF DocInv, RowsInv, Sound, HasRows
  <2>2. \A j \in DOMAIN rows : rows[j].seq = j
    BY <2>1 DEF Numbered
  <2>3. {j \in group : rows[j].seq <= rows[k].seq} = {j \in group : j <= k}
    BY <2>2
  <2>4. rows[k].part = Cardinality({j \in group : j <= k}) /\ rows[k].total = Cardinality(group)
    BY <2>1 DEF Numbered
  <2>5. rows[k].ocr = <<>> => \A j \in group : rows[j].seq < rows[k].seq => rows[j].ocr = <<>>
    BY <2>1, <2>2 DEF Numbered, NativesFirst
  <2> QED
    BY <2>3, <2>4, <2>5
<1> QED
  BY <1>1, RowsSound, PTL

=============================================================================
