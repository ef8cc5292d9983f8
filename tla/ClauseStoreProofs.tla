-------------------------- MODULE ClauseStoreProofs --------------------------
(***************************************************************************)
(* Theorems about the tables of articles and annexes and their index, for  *)
(* any layouts and editions and any number of loads and index runs.        *)
(***************************************************************************)
EXTENDS ClauseStore, FiniteSetTheorems, SequenceTheorems, TLAPS

-----------------------------------------------------------------------------
\* What is loaded and what is read.

\* The articles of a load are of its products, its annexes the base's.
LEMMA RowsOwned ==
    ASSUME NEW doc, NEW found
    PROVE  LET rows == RowsOf(doc, found)
           IN  /\ \A c \in rows.clause : \E r \in rows.product : c.product = r.product
               /\ \A a \in rows.annex : a.product = 0
<1> DEFINE n(k) == Number(found, k)
<1> HIDE DEF n
<1>1. ASSUME NEW c \in UNION {ClauseRows(doc, found[k], n(k)) : k \in DOMAIN found}
      PROVE  \E r \in {ProductRow(doc, found[k], n(k)) : k \in DOMAIN found} :
                 c.product = r.product
  <2>1. PICK k \in DOMAIN found : c \in ClauseRows(doc, found[k], n(k))
    BY <1>1
  <2>2. c.product = n(k)
    BY <2>1 DEF ClauseRows
  <2>3. ProductRow(doc, found[k], n(k)).product = n(k)
    BY DEF ProductRow
  <2> QED
    BY <2>2, <2>3
<1>2. ASSUME NEW a \in {AnnexRow(doc, b) : b \in Range(Annexes(doc))}
      PROVE  a.product = 0
  BY <1>2 DEF AnnexRow
<1> QED
  BY <1>1, <1>2 DEF RowsOf, n

\* What is read of a product is of that product.
LEMMA ItemsOf ==
    ASSUME NEW asked, NEW p
    PROVE  /\ Products(ClauseItems(asked)) \subseteq asked
           /\ Products(AnnexItems(asked)) \subseteq asked
           /\ p \in asked => Of(p, ClauseItems(asked)) = ClauseItems({p})
           /\ p \in asked => Of(p, AnnexItems(asked)) = AnnexItems({p})
<1>1. /\ Products(ClauseItems(asked)) \subseteq asked
      /\ p \in asked => Of(p, ClauseItems(asked)) = ClauseItems({p})
  BY DEF Products, ClauseItems, Of
<1>2. /\ Products(AnnexItems(asked)) \subseteq asked
      /\ p \in asked => Of(p, AnnexItems(asked)) = AnnexItems({p})
  BY DEF Products, AnnexItems, Of
<1> QED
  BY <1>1, <1>2

\* A product has no points but what was uploaded and what was there.
LEMMA UploadedOf ==
    ASSUME NEW items, NEW p
    PROVE  /\ p \notin Products(items) => Of(p, Uploaded(items)) = Of(p, points)
           /\ Of(p, items) \subseteq Of(p, Uploaded(items))
           /\ Of(p, Uploaded(items)) \subseteq Of(p, points) \cup Of(p, items)
BY DEF Products, Of, Uploaded

\* The steps that leave the tables alone leave alone what is read from them.
LEMMA SameItems ==
    ASSUME db' = db, NEW p
    PROVE  ClauseItems({p})' = ClauseItems({p}) /\ AnnexItems({p})' = AnnexItems({p})
BY DEF ClauseItems, AnnexItems

-----------------------------------------------------------------------------
\* Loading

\* A load that is committed leaves what is read of the other products as it is.
LEMMA IngestKeeps ==
    ASSUME IndexInv, NEW script \in Scripts, Ingest(script)
    PROVE  /\ AnnexesOwned'
           /\ \A p : p \in indexed' \/ (run # Idle /\ p \notin stale') =>
                 /\ ClauseItems({p})' = ClauseItems({p})
                 /\ AnnexItems({p})' = AnnexItems({p})
           /\ indexed' \subseteq indexed
           /\ run # Idle => stale \subseteq stale'
<1>1. CASE RejectedIn[script][edition]
  <2>1. UNCHANGED <<db, indexed, stale>>
    BY <1>1 DEF Ingest
  <2> QED
    BY <2>1, SameItems DEF IndexInv, AnnexesOwned
<1>2. CASE ~RejectedIn[script][edition]
  <2> DEFINE rows == RowsIn[script][edition]
             ns == {r.product : r \in rows.product}
  <2>1. /\ db' = Stored(rows)
        /\ stale' = IF run = Idle THEN {} ELSE stale \cup ns
        /\ indexed' = indexed \ ns
    BY <1>2 DEF Ingest
  <2>2. /\ \A c \in rows.clause : c.product \in ns
        /\ \A a \in rows.annex : a.product = 0
    <3>1. PICK doc, found : rows = RowsOf(doc, found)
      <4>1. edition \in Editions
        BY DEF IndexInv, RunInv
      <4> QED
        BY <4>1 DEF RowsIn
    <3>2. /\ \A c \in RowsOf(doc, found).clause :
                 \E r \in RowsOf(doc, found).product : c.product = r.product
          /\ \A a \in RowsOf(doc, found).annex : a.product = 0
      BY RowsOwned
    <3> QED
      BY <3>1, <3>2
  <2> HIDE DEF rows
  <2>3. /\ db'.clause = {c \in db.clause : c.product \notin ns} \cup rows.clause
        /\ db'.annex = IF 0 \in ns THEN rows.annex ELSE db.annex
    BY <2>1 DEF Stored
  <2> HIDE DEF ns
  <2>4. AnnexesOwned'
    BY <2>2, <2>3 DEF IndexInv, AnnexesOwned
  <2>5. ASSUME NEW p, p \notin ns
        PROVE  ClauseItems({p})' = ClauseItems({p}) /\ AnnexItems({p})' = AnnexItems({p})
    <3>1. ClauseItems({p})' = ClauseItems({p})
      <4>1. {c \in db'.clause : c.product \in {p}} = {c \in db.clause : c.product \in {p}}
        BY <2>2, <2>3, <2>5
      <4> QED
        BY <4>1 DEF ClauseItems
    <3>2. {a \in db'.annex : a.product \in {p}} = {a \in db.annex : a.product \in {p}}
      <4>1. CASE p = 0
        BY <2>3, <2>5, <4>1
      <4>2. CASE p # 0
        BY <2>4, <4>2 DEF IndexInv, AnnexesOwned
      <4> QED
        BY <4>1, <4>2
    <3>3. AnnexItems({p})' = AnnexItems({p})
      BY <3>2 DEF AnnexItems
    <3> QED
      BY <3>1, <3>3
  <2> QED
    BY <2>1, <2>4, <2>5
<1> QED
  BY <1>1, <1>2

\* A load keeps the invariant of the index.
LEMMA IngestStep ==
    ASSUME IndexInv, NEW script \in Scripts, Ingest(script)
    PROVE  IndexInv'
<1>1. UNCHANGED <<edition, points, run>>
  BY DEF Ingest
<1>2. IndexTellsTables'
  BY <1>1, IngestKeeps DEF IndexInv, IndexTellsTables, Of
<1>3. ASSUME run.stage # "idle", NEW p, p \notin stale'
      PROVE  /\ p \notin stale
             /\ ClauseItems({p})' = ClauseItems({p})
             /\ AnnexItems({p})' = AnnexItems({p})
  <2>1. run # Idle
    BY <1>3 DEF Idle
  <2> QED
    BY <1>3, <2>1, IngestKeeps
<1>4. indexed' \subseteq indexed
  BY IngestKeeps
<1>5. RunInv'
  <2>1. ASSUME run.stage = "annexes", NEW p \in run.asked \ stale'
        PROVE  Of(p, run.items) = ClauseItems({p})'
    BY <1>3, <2>1 DEF IndexInv, RunInv
  <2>2. ASSUME run.stage \in {"delete", "upload"}, NEW p \in Products(run.items) \ stale'
        PROVE  Of(p, run.items) = ClauseItems({p})' \cup AnnexItems({p})'
    BY <1>3, <2>2 DEF IndexInv, RunInv
  <2>3. ASSUME run.stage \in {"delete", "upload"}, NEW p \in Products(run.items) \ run.left
        PROVE  p \notin indexed' /\ Of(p, points) \subseteq run.items
    BY <1>4, <2>3 DEF IndexInv, RunInv
  <2> QED
    BY <1>1, <2>1, <2>2, <2>3 DEF IndexInv, RunInv, Of, Products
<1> QED
  BY <1>2, <1>5, IngestKeeps DEF IndexInv

-----------------------------------------------------------------------------
\* Indexing

\* So does the first statement of an index run.
LEMMA ReadClausesStep ==
    ASSUME IndexInv, ReadClauses
    PROVE  IndexInv'
<1>1. PICK asked :
          run' = [stage |-> "annexes", asked |-> asked, items |-> ClauseItems(asked), left |-> {}]
  BY DEF ReadClauses
<1>2. UNCHANGED <<edition, db, points, indexed>>
  BY DEF ReadClauses
<1>3. \A p : p \in asked => Of(p, ClauseItems(asked)) = ClauseItems({p})
  BY ItemsOf
<1>4. Products(ClauseItems(asked)) \subseteq asked
  BY ItemsOf
<1>5. \A p : ClauseItems({p})' = ClauseItems({p}) /\ AnnexItems({p})' = AnnexItems({p})
  BY <1>2, SameItems
<1>6. RunInv'
  <2>1. /\ run'.stage = "annexes" /\ run'.asked = asked /\ run'.items = ClauseItems(asked)
        /\ DOMAIN run' = DOMAIN Idle
    BY <1>1 DEF Idle
  <2>2. \A p \in asked : Of(p, run'.items) = ClauseItems({p})'
    BY <1>3, <1>5, <2>1
  <2>3. Products(run'.items) \subseteq asked
    BY <1>4, <2>1
  <2> QED
    BY <1>2, <2>1, <2>2, <2>3 DEF IndexInv, RunInv, Of, Products
<1> QED
  BY <1>2, <1>5, <1>6 DEF IndexInv, AnnexesOwned, IndexTellsTables, Of

\* So does the second, which may see other tables.
LEMMA ReadAnnexesStep ==
    ASSUME IndexInv, ReadAnnexes
    PROVE  IndexInv'
<1> DEFINE items == run.items \cup AnnexItems(run.asked)
<1>1. UNCHANGED <<edition, db, points, stale, indexed>> /\ run.stage = "annexes"
  BY DEF ReadAnnexes
<1>2. \A p : ClauseItems({p})' = ClauseItems({p}) /\ AnnexItems({p})' = AnnexItems({p})
  BY <1>1, SameItems
<1>3. RunInv'
  <2>1. CASE items = {}
    <3>1. run' = Idle
      BY <2>1 DEF ReadAnnexes
    <3> QED
      BY <1>1, <3>1 DEF IndexInv, RunInv, Idle
  <2>2. CASE items # {}
    <3>1. run' = [run EXCEPT !.stage = "delete", !.items = items, !.left = Products(items)]
      BY <2>2 DEF ReadAnnexes
    <3>2. DOMAIN run = {"stage", "asked", "items", "left"}
      BY DEF IndexInv, RunInv, Idle
    <3>3. /\ DOMAIN run' = DOMAIN Idle /\ run'.stage = "delete" /\ run'.items = items
          /\ run'.left = Products(items)
      BY <3>1, <3>2 DEF Idle
    <3>4. ASSUME NEW p \in Products(items) \ stale
          PROVE  Of(p, items) = ClauseItems({p}) \cup AnnexItems({p})
      <4>1. Products(AnnexItems(run.asked)) \subseteq run.asked
        BY ItemsOf
      <4>2. Products(items) \subseteq run.asked
        BY <1>1, <4>1 DEF IndexInv, RunInv, Products
      <4>3. Of(p, AnnexItems(run.asked)) = AnnexItems({p})
        BY <4>2, ItemsOf
      <4>4. Of(p, run.items) = ClauseItems({p})
        BY <1>1, <4>2 DEF IndexInv, RunInv
      <4>5. Of(p, items) = Of(p, run.items) \cup Of(p, AnnexItems(run.asked))
        BY DEF Of
      <4> QED
        BY <4>3, <4>4, <4>5
    <3>5. \A p \in Products(run'.items) \ stale' :
              Of(p, run'.items) = ClauseItems({p})' \cup AnnexItems({p})'
      BY <1>1, <1>2, <3>3, <3>4
    <3>6. Products(run'.items) \ run'.left = {}
      BY <3>3
    <3> HIDE DEF items
    <3> QED
      BY <1>1, <3>3, <3>5, <3>6 DEF IndexInv, RunInv, Of, Products
  <2> QED
    BY <2>1, <2>2
<1> QED
  BY <1>1, <1>2, <1>3 DEF IndexInv, AnnexesOwned, IndexTellsTables, Of

\* So does the deletion of the points of a product.
LEMMA DeletePointsStep ==
    ASSUME IndexInv, DeletePoints
    PROVE  IndexInv'
<1> DEFINE next == Min(run.left)
<1>1. UNCHANGED <<edition, db, stale>> /\ run.stage = "delete"
  BY DEF DeletePoints
<1>2. /\ points' = {p \in points : p.product # next}
      /\ run' = [run EXCEPT !.left = @ \ {next}]
      /\ indexed' = indexed \ {next}
  BY DEF DeletePoints
<1> HIDE DEF next
<1>3. \A p : ClauseItems({p})' = ClauseItems({p}) /\ AnnexItems({p})' = AnnexItems({p})
  BY <1>1, SameItems
<1>4. \A p : p # next => Of(p, points') = Of(p, points)
  BY <1>2 DEF Of
<1>5. Of(next, points') = {}
  BY <1>2 DEF Of
<1>6. /\ DOMAIN run' = DOMAIN Idle /\ run'.stage = "delete" /\ run'.items = run.items
      /\ run'.left = run.left \ {next}
  BY <1>1, <1>2 DEF IndexInv, RunInv, Idle
<1>7. RunInv'
  <2>1. \A p \in Products(run'.items) \ stale' :
            Of(p, run'.items) = ClauseItems({p})' \cup AnnexItems({p})'
    BY <1>1, <1>3, <1>6 DEF IndexInv, RunInv
  <2>2. ASSUME NEW p \in Products(run.items) \ run'.left
        PROVE  p \notin indexed' /\ Of(p, points') \subseteq run.items
    <3>1. CASE p = next
      BY <1>2, <1>5, <3>1
    <3>2. CASE p # next
      BY <1>1, <1>2, <1>4, <1>6, <2>2, <3>2 DEF IndexInv, RunInv
    <3> QED
      BY <3>1, <3>2
  <2> QED
    BY <1>1, <1>6, <2>1, <2>2 DEF IndexInv, RunInv, Of, Products
<1>8. IndexTellsTables'
  BY <1>2, <1>3, <1>4 DEF IndexInv, IndexTellsTables, Of
<1> QED
  BY <1>1, <1>7, <1>8 DEF IndexInv, AnnexesOwned

\* So does a batch of the upload.
LEMMA UploadSomeStep ==
    ASSUME IndexInv, UploadSome
    PROVE  IndexInv'
<1>1. UNCHANGED <<edition, db, stale, indexed>> /\ run.stage = "delete" /\ run.left = {}
  BY DEF UploadSome
<1>2. PICK kind : points' = Uploaded({i \in run.items : i.kind = kind})
  BY DEF UploadSome
<1> DEFINE batch == {i \in run.items : i.kind = kind}
<1>3. \A p : ClauseItems({p})' = ClauseItems({p}) /\ AnnexItems({p})' = AnnexItems({p})
  BY <1>1, SameItems
<1>4. /\ DOMAIN run' = DOMAIN Idle /\ run'.stage = "upload" /\ run'.items = run.items
      /\ run'.left = {}
  BY <1>1 DEF UploadSome, IndexInv, RunInv, Idle
<1>5. ASSUME NEW p, p \notin Products(run.items)
      PROVE  Of(p, points') = Of(p, points)
  <2>1. p \notin Products(batch)
    BY <1>5 DEF Products
  <2> QED
    BY <1>2, <2>1, UploadedOf
<1>6. RunInv'
  <2>1. \A p \in Products(run'.items) \ stale' :
            Of(p, run'.items) = ClauseItems({p})' \cup AnnexItems({p})'
    BY <1>1, <1>3, <1>4 DEF IndexInv, RunInv
  <2>2. ASSUME NEW p \in Products(run.items)
        PROVE  p \notin indexed' /\ Of(p, points') \subseteq run.items
    <3>1. p \notin indexed /\ Of(p, points) \subseteq run.items
      BY <1>1 DEF IndexInv, RunInv
    <3>2. Of(p, points') \subseteq Of(p, points) \cup Of(p, batch)
      BY <1>2, UploadedOf
    <3>3. Of(p, batch) \subseteq run.items
      BY DEF Of
    <3> QED
      BY <1>1, <3>1, <3>2, <3>3
  <2> QED
    BY <1>1, <1>4, <2>1, <2>2 DEF IndexInv, RunInv, Of, Products
<1>7. ASSUME NEW p \in indexed'
      PROVE  Of(p, points)' = ClauseItems({p})' \cup AnnexItems({p})'
  <2>1. p \notin Products(run.items)
    BY <1>1 DEF IndexInv, RunInv
  <2> QED
    BY <1>1, <1>3, <1>5, <2>1 DEF IndexInv, IndexTellsTables, Of
<1> QED
  BY <1>1, <1>6, <1>7 DEF IndexInv, AnnexesOwned, IndexTellsTables

\* So does the end of the run, which says whose index is up to date.
LEMMA UploadRestStep ==
    ASSUME IndexInv, UploadRest
    PROVE  IndexInv'
<1>1. /\ UNCHANGED <<edition, db>> /\ run.stage = "upload" /\ run' = Idle
      /\ points' = Uploaded(run.items)
      /\ indexed' = (indexed \cup Products(run.items)) \ stale
  BY DEF UploadRest
<1>2. run.left = {}
  BY <1>1 DEF IndexInv, RunInv
<1>3. ASSUME NEW p \in indexed'
      PROVE  Of(p, points') = ClauseItems({p}) \cup AnnexItems({p})
  <2>1. CASE p \in Products(run.items)
    <3>1. Of(p, points) \subseteq run.items
      BY <1>1, <1>2, <2>1 DEF IndexInv, RunInv
    <3>2. Of(p, points) \subseteq Of(p, run.items)
      BY <3>1 DEF Of
    <3>3. Of(p, points') = Of(p, run.items)
      BY <1>1, <3>2, UploadedOf
    <3>4. Of(p, run.items) = ClauseItems({p}) \cup AnnexItems({p})
      BY <1>1, <1>3, <2>1 DEF IndexInv, RunInv
    <3> QED
      BY <3>3, <3>4
  <2>2. CASE p \notin Products(run.items)
    BY <1>1, <1>3, <2>2, UploadedOf DEF IndexInv, IndexTellsTables
  <2> QED
    BY <2>1, <2>2
<1>4. \A p : ClauseItems({p})' = ClauseItems({p}) /\ AnnexItems({p})' = AnnexItems({p})
  BY <1>1, SameItems
<1>5. IndexTellsTables'
  <2>1. \A p \in indexed' : Of(p, points)' = ClauseItems({p})' \cup AnnexItems({p})'
    <3>1. \A p : Of(p, points)' = Of(p, points')
      BY DEF Of
    <3> TAKE p \in indexed'
    <3>2. Of(p, points') = ClauseItems({p}) \cup AnnexItems({p})
      BY <1>3
    <3>3. ClauseItems({p})' = ClauseItems({p}) /\ AnnexItems({p})' = AnnexItems({p})
      BY <1>4
    <3> QED
      BY <3>1, <3>2, <3>3
  <2> QED
    BY <2>1 DEF IndexTellsTables
<1>6. RunInv'
  BY <1>1 DEF IndexInv, RunInv, Idle
<1> QED
  BY <1>1, <1>5, <1>6 DEF IndexInv, AnnexesOwned

\* The invariant, and that the index of a product that was indexed since it was
\* loaded tells what the tables tell, however loads and index runs overlap and
\* wherever index runs die.
THEOREM IndexInvariant == Spec => []IndexInv
<1>1. Init => IndexInv
  BY DEF Init, IndexInv, AnnexesOwned, RunInv, IndexTellsTables, Idle
<1>2. IndexInv /\ [Next]_vars => IndexInv'
  <2> SUFFICES ASSUME IndexInv, [Next]_vars
               PROVE  IndexInv'
    OBVIOUS
  <2>1. ASSUME NEW script \in Scripts, Ingest(script)
        PROVE  IndexInv'
    BY <2>1, IngestStep
  <2>2. CASE Revise
    <3>1. edition' \in Editions /\ UNCHANGED <<db, points, run, stale, indexed>>
      BY <2>2 DEF Revise
    <3>2. \A p : ClauseItems({p})' = ClauseItems({p}) /\ AnnexItems({p})' = AnnexItems({p})
      BY <3>1, SameItems
    <3> QED
      BY <3>1, <3>2 DEF IndexInv, AnnexesOwned, RunInv, IndexTellsTables, Of, Products
  <2>3. CASE ReadClauses
    BY <2>3, ReadClausesStep
  <2>4. CASE ReadAnnexes
    BY <2>4, ReadAnnexesStep
  <2>5. CASE DeletePoints
    BY <2>5, DeletePointsStep
  <2>6. CASE UploadSome
    BY <2>6, UploadSomeStep
  <2>7. CASE UploadRest
    BY <2>7, UploadRestStep
  <2>8. CASE Crash
    <3>1. run' = Idle /\ UNCHANGED <<edition, db, points, indexed>>
      BY <2>8 DEF Crash
    <3>2. \A p : ClauseItems({p})' = ClauseItems({p}) /\ AnnexItems({p})' = AnnexItems({p})
      BY <3>1, SameItems
    <3> QED
      BY <3>1, <3>2 DEF IndexInv, AnnexesOwned, RunInv, IndexTellsTables, Of, Idle
  <2>9. CASE UNCHANGED vars
    <3>1. UNCHANGED <<edition, db, points, run, stale, indexed>>
      BY <2>9 DEF vars
    <3>2. \A p : ClauseItems({p})' = ClauseItems({p}) /\ AnnexItems({p})' = AnnexItems({p})
      BY <3>1, SameItems
    <3> QED
      BY <3>1, <3>2 DEF IndexInv, AnnexesOwned, RunInv, IndexTellsTables, Of, Products
  <2> QED
    BY <2>1, <2>2, <2>3, <2>4, <2>5, <2>6, <2>7, <2>8, <2>9 DEF Next
<1> QED
  BY <1>1, <1>2, PTL DEF Spec

\* The index of a product that was indexed since it was loaded tells what the
\* tables tell: no point of an earlier edition is left and none is missing,
\* although loads and index runs overlap and index runs die half-way.
THEOREM IndexIsTold == Spec => []IndexTellsTables
<1>1. IndexInv => IndexTellsTables
  BY DEF IndexInv
<1> QED
  BY <1>1, IndexInvariant, PTL

-----------------------------------------------------------------------------
\* Places in their order.

\* A set of numbers has a least element.
LEMMA LeastNumber ==
    ASSUME NEW S \in SUBSET Nat, S # {}
    PROVE  \E m \in S : \A n \in S : m <= n
<1> DEFINE Less == OpToRel(<, Nat)
<1>1. IsWellFoundedOn(Less, Nat)
  BY NatLessThanWellFounded
<1>2. \A m, n \in Nat : <<m, n>> \in Less <=> m < n
  BY DEF OpToRel
<1> HIDE DEF Less
<1>3. PICK m \in S : \A n \in S : ~(<<n, m>> \in Less)
  BY <1>1, WFMin
<1>4. ASSUME NEW n \in S
      PROVE  m <= n
  <2>1. m \in Nat /\ n \in Nat
    BY <1>3, <1>4
  <2>2. ~(n < m)
    BY <1>2, <1>3, <1>4, <2>1
  <2> QED
    BY <2>1, <2>2
<1> QED
  BY <1>3, <1>4

\* A finite set of numbers has a greatest element.
LEMMA GreatestNumber ==
    ASSUME NEW F \in SUBSET Nat, IsFiniteSet(F), F # {}
    PROVE  \E m \in F : \A n \in F : n <= m
<1> DEFINE Above(i) == {j \in F : j > i}
           sizes == {Cardinality(Above(i)) : i \in F}
<1>1. \A i \in F : IsFiniteSet(Above(i)) /\ Cardinality(Above(i)) \in Nat
  <2> TAKE i \in F
  <2>1. Above(i) \in SUBSET F
    OBVIOUS
  <2>2. IsFiniteSet(Above(i))
    BY <2>1, FS_Subset
  <2> QED
    BY <2>2, FS_CardinalityType
<1>2. sizes \in SUBSET Nat /\ sizes # {}
  BY <1>1
<1>3. \E c \in sizes : \A d \in sizes : c <= d
  BY <1>2, LeastNumber
<1>4. PICK m \in F : \A i \in F : Cardinality(Above(m)) <= Cardinality(Above(i))
  BY <1>3
<1>5. ASSUME NEW k \in F, k > m
      PROVE  FALSE
  <2>1. k \in Above(m) /\ Above(k) \in SUBSET (Above(m) \ {k})
    <3>1. \A j \in F : j \in Nat
      OBVIOUS
    <3>2. \A j \in F : j > k => j > m /\ j # k
      BY <1>5, <3>1
    <3> QED
      BY <1>5, <3>2
  <2>2. /\ IsFiniteSet(Above(m) \ {k})
        /\ Cardinality(Above(m) \ {k}) = Cardinality(Above(m)) - 1
    BY <1>1, <1>4, <2>1, FS_RemoveElement
  <2>3. Cardinality(Above(k)) <= Cardinality(Above(m) \ {k})
    BY <2>1, <2>2, FS_Subset
  <2>4. Cardinality(Above(m)) <= Cardinality(Above(k))
    BY <1>4
  <2>5. Cardinality(Above(m)) \in Nat /\ Cardinality(Above(k)) \in Nat
    BY <1>1, <1>4
  <2> HIDE DEF Above
  <2> QED
    BY <2>2, <2>3, <2>4, <2>5
<1> QED
  BY <1>4, <1>5

\* Of the numbers of a finite set there is a first, a second, and so on.
LEMMA RankExists ==
    ASSUME NEW I \in SUBSET Nat, IsFiniteSet(I), NEW n \in 1..Cardinality(I)
    PROVE  \E i \in I : Cardinality({j \in I : j <= i}) = n
<1> DEFINE UpTo(i) == {j \in I : j <= i}
           far == {i \in I : Cardinality(UpTo(i)) >= n}
<1>1. Cardinality(I) \in Nat /\ n \in Nat /\ 1 <= n /\ n <= Cardinality(I)
  BY FS_CardinalityType
<1>2. ASSUME NEW i
      PROVE  IsFiniteSet(UpTo(i)) /\ Cardinality(UpTo(i)) \in Nat
  <2>1. UpTo(i) \in SUBSET I
    OBVIOUS
  <2>2. IsFiniteSet(UpTo(i))
    BY <2>1, FS_Subset
  <2> QED
    BY <2>2, FS_CardinalityType
<1>3. far # {}
  <2>1. I # {}
    BY <1>1, FS_EmptySet
  <2>2. PICK m \in I : \A j \in I : j <= m
    BY <2>1, GreatestNumber
  <2>3. UpTo(m) = I
    BY <2>2
  <2> QED
    BY <1>1, <2>2, <2>3
<1>4. PICK i \in far : \A j \in far : i <= j
  BY <1>3, LeastNumber
<1>5. ASSUME Cardinality(UpTo(i)) # n
      PROVE  FALSE
  <2> DEFINE below == UpTo(i) \ {i}
  <2>1. i \in I /\ i \in UpTo(i) /\ i \in Nat
    BY <1>4
  <2>2. IsFiniteSet(below) /\ Cardinality(below) = Cardinality(UpTo(i)) - 1
    <3>1. IsFiniteSet(UpTo(i))
      BY <1>2
    <3> HIDE DEF UpTo
    <3> QED
      BY <2>1, <3>1, FS_RemoveElement
  <2>3. Cardinality(below) \in Nat /\ Cardinality(below) >= n
    <3>1. Cardinality(UpTo(i)) \in Nat /\ Cardinality(UpTo(i)) >= n
      BY <1>2, <1>4
    <3> HIDE DEF UpTo, below
    <3> QED
      BY <1>1, <1>5, <2>2, <3>1
  <2>4. below # {} /\ below \in SUBSET Nat
    <3>1. below # {}
      <4> HIDE DEF below
      <4> QED
        BY <1>1, <2>2, <2>3, FS_EmptySet
    <3> QED
      BY <3>1
  <2>5. PICK p \in below : \A j \in below : j <= p
    BY <2>2, <2>4, GreatestNumber
  <2>6. p \in I /\ p < i
    BY <2>1, <2>5
  <2>7. UpTo(p) = below
    <3>1. ASSUME NEW j \in I
          PROVE  j <= p <=> j <= i /\ j # i
      <4>1. j \in Nat /\ p \in Nat
        BY <2>6
      <4>2. j <= i /\ j # i => j \in below
        OBVIOUS
      <4> QED
        BY <2>1, <2>5, <2>6, <4>1, <4>2
    <3> QED
      BY <3>1
  <2>8. p \in far
    BY <2>3, <2>6, <2>7
  <2>9. i <= p
    BY <1>4, <2>8
  <2> QED
    BY <2>1, <2>6, <2>9
<1> QED
  BY <1>4, <1>5

\* The places of a finite set in their order are a sequence that has each of
\* them once.
LEMMA InOrderLists ==
    ASSUME NEW I \in SUBSET Nat, IsFiniteSet(I)
    PROVE  /\ InOrder(I) \in Seq(I)
           /\ DOMAIN InOrder(I) = 1..Len(InOrder(I))
           /\ \A m, n \in DOMAIN InOrder(I) : InOrder(I)[m] = InOrder(I)[n] => m = n
           /\ \A i \in I : \E n \in DOMAIN InOrder(I) : InOrder(I)[n] = i
<1> DEFINE c == Cardinality(I)
           s == InOrder(I)
<1>1. c \in Nat
  BY FS_CardinalityType
<1>2. ASSUME NEW n \in 1..c
      PROVE  s[n] \in I /\ Cardinality({j \in I : j <= s[n]}) = n
  <2>1. \E i \in I : Cardinality({j \in I : j <= i}) = n
    BY RankExists
  <2>2. s[n] = CHOOSE i \in I : Cardinality({j \in I : j <= i}) = n
    BY DEF InOrder
  <2> QED
    BY <2>1, <2>2
<1>3. DOMAIN s = 1..c /\ s \in [1..c -> I]
  BY <1>2 DEF InOrder
<1>4. \A m, n \in 1..c : s[m] = s[n] => m = n
  <2> TAKE m, n \in 1..c
  <2>1. Cardinality({j \in I : j <= s[m]}) = m /\ Cardinality({j \in I : j <= s[n]}) = n
    BY <1>2
  <2> QED
    BY <2>1
<1> HIDE DEF s
<1>5. s \in Seq(I)
  <2>1. s \in UNION {[1..n -> I] : n \in Nat}
    BY <1>1, <1>3
  <2> QED
    BY <2>1, SeqDef
<1>6. Len(s) = c
  BY <1>1, <1>3, <1>5, LenProperties
<1>7. s \in Surjection(1..c, I)
  <2>1. s \in Injection(1..c, I)
    BY <1>3, <1>4 DEF Injection, IsInjective
  <2>2. IsFiniteSet(1..c) /\ Cardinality(1..c) = c
    BY <1>1, FS_Interval
  <2> QED
    BY <2>1, <2>2, FS_Injection
<1>8. \A i \in I : \E n \in 1..c : s[n] = i
  BY <1>7 DEF Surjection
<1> QED
  BY <1>3, <1>4, <1>5, <1>6, <1>8 DEF s

\* The places of a finite set are finitely many: what the parsers take are
\* lines of a document.
LEMMA PlacesOf ==
    ASSUME NEW s, DOMAIN s = 1..Len(s), Len(s) \in Nat, NEW I \in SUBSET DOMAIN s
    PROVE  I \in SUBSET Nat /\ IsFiniteSet(I)
<1>1. IsFiniteSet(1..Len(s))
  BY FS_Interval
<1>2. IsFiniteSet(I)
  BY <1>1, FS_Subset
<1> QED
  BY <1>2

-----------------------------------------------------------------------------
\* The articles of a policy.

\* Numbers each of which is more than the one before it rise throughout.
LEMMA RisingThroughout ==
    ASSUME NEW m \in Nat, NEW f, \A k \in 1..m : f[k] \in Nat,
           \A j \in 2..m : f[j] > f[j - 1]
    PROVE  \A i, j \in 1..m : i < j => f[i] < f[j]
<1> TAKE i, j \in 1..m
<1> HAVE i < j
<1> DEFINE wrong == {k \in 1..m : i < k /\ ~(f[i] < f[k])}
<1>1. CASE wrong = {}
  BY <1>1
<1>2. CASE wrong # {}
  <2>1. wrong \in SUBSET Nat
    OBVIOUS
  <2>2. PICK k \in wrong : \A l \in wrong : k <= l
    BY <1>2, <2>1, LeastNumber
  <2>3. k \in 2..m /\ k - 1 \in 1..m /\ i <= k - 1 /\ k \in Nat
    BY <2>2
  <2>4. k - 1 \notin wrong
    BY <2>2, <2>3
  <2>5. f[i] <= f[k - 1]
    BY <2>3, <2>4
  <2>6. f[k] > f[k - 1] /\ f[k] \in Nat /\ f[k - 1] \in Nat /\ f[i] \in Nat
    BY <2>3
  <2>7. ~(f[i] < f[k])
    BY <2>2
  <2> QED
    BY <2>5, <2>6, <2>7
<1> QED
  BY <1>1, <1>2

\* Articles no two of which have one number.
Distinct(clauses) ==
    \E m \in Nat :
        /\ DOMAIN clauses = 1..m
        /\ clauses = [k \in 1..m |-> clauses[k]]
        /\ \A i, j \in 1..m : clauses[i].jo = clauses[j].jo => i = j

\* What is cut out of a document after the numbers have been looked at are
\* articles no two of which have one number.
LEMMA CutDistinct ==
    ASSUME NEW doc, NEW S, NEW hits \in Seq(S), \A i \in S : doc[i].jo \in Nat, NEW to
    PROVE  Distinct(Cut(doc, Unbroken(doc, hits), to))
<1> DEFINE rising == {k \in 0..Len(hits) :
                          \A j \in 2..k : doc[hits[j]].jo > doc[hits[j - 1]].jo}
           m == Max(rising)
           u == Unbroken(doc, hits)
           jo == [k \in 1..m |-> doc[hits[k]].jo]
<1>1. Len(hits) \in Nat /\ \A k \in 1..Len(hits) : hits[k] \in S
  BY ElementOfSeq, LenProperties
<1>2. m \in rising
  <2>1. 0 \in rising
    BY <1>1
  <2>2. rising \in SUBSET Nat /\ IsFiniteSet(rising)
    <3>1. rising \in SUBSET (0..Len(hits))
      OBVIOUS
    <3>2. IsFiniteSet(0..Len(hits))
      BY <1>1, FS_Interval
    <3>3. IsFiniteSet(rising)
      BY <3>1, <3>2, FS_Subset
    <3> HIDE DEF rising
    <3> QED
      BY <1>1, <3>1, <3>3
  <2>3. \E x \in rising : \A y \in rising : y <= x
    BY <2>1, <2>2, GreatestNumber
  <2>4. \E x \in rising : \A y \in rising : x >= y
    BY <2>2, <2>3
  <2> HIDE DEF rising
  <2> QED
    BY <2>4 DEF Max
<1>3. m \in Nat /\ m <= Len(hits) /\ \A j \in 2..m : doc[hits[j]].jo > doc[hits[j - 1]].jo
  BY <1>1, <1>2
<1>4. u = SubSeq(hits, 1, m)
  BY DEF Unbroken
<1> HIDE DEF m, rising, u
<1>5. /\ u \in Seq(S) /\ Len(u) = m
      /\ \A k \in 1..m : u[k] = hits[k]
  <2>1. \A k \in 1..m : hits[k] \in S
    BY <1>1, <1>3
  <2> QED
    BY <1>3, <1>4, <2>1, SubSeqProperties
<1>6. DOMAIN u = 1..m
  BY <1>5, LenProperties
<1>7. \A i, j \in 1..m : i < j => jo[i] < jo[j]
  <2>1. \A k \in 1..m : jo[k] \in Nat
    BY <1>1, <1>3
  <2>2. \A j \in 2..m : jo[j] > jo[j - 1]
    BY <1>3
  <2> HIDE DEF jo
  <2> QED
    BY <1>3, <2>1, <2>2, RisingThroughout
<1> DEFINE clauses == Cut(doc, u, to)
<1>8. DOMAIN clauses = 1..m /\ \A k \in 1..m : clauses[k].jo = jo[k]
  BY <1>5, <1>6 DEF Cut
<1>9. clauses = [k \in 1..m |-> clauses[k]]
  BY <1>6 DEF Cut
<1>10. \A i, j \in 1..m : clauses[i].jo = clauses[j].jo => i = j
  <2> TAKE i, j \in 1..m
  <2> HAVE clauses[i].jo = clauses[j].jo
  <2>1. jo[i] = jo[j]
    BY <1>8
  <2>2. jo[i] \in Nat /\ jo[j] \in Nat
    BY <1>1, <1>3
  <2>3. ~(i < j) /\ ~(j < i)
    BY <1>7, <2>1, <2>2
  <2> QED
    BY <2>3
<1> QED
  BY <1>3, <1>8, <1>9, <1>10 DEF Distinct, u

\* A sequence of lines, in which articles have numbers.
IsText(doc) ==
    /\ Len(doc) \in Nat
    /\ DOMAIN doc = 1..Len(doc)
    /\ \A i \in DOMAIN doc : doc[i].jo \in Nat

\* The documents are such sequences.
LEMMA TextsGiven ==
    ASSUME NEW e \in Editions
    PROVE  IsText(DocOf[e])
<1>1. DocOf[e] = Doc(e)
  BY DEF DocOf
<1>2. Doc(e) \in Seq(Range(Doc(e))) /\ \A l \in Range(Doc(e)) : l.jo \in Nat
  BY LinesAssumption
<1>3. Len(Doc(e)) \in Nat /\ DOMAIN Doc(e) = 1..Len(Doc(e))
  BY <1>2, LenProperties
<1>4. \A i \in DOMAIN Doc(e) : Doc(e)[i].jo \in Nat
  BY <1>2 DEF Range
<1> QED
  BY <1>1, <1>3, <1>4 DEF IsText

\* Articles at any places of a text.
LEMMA PlacesDistinct ==
    ASSUME NEW doc, IsText(doc), NEW I \in SUBSET DOMAIN doc, NEW to
    PROVE  Distinct(Cut(doc, Unbroken(doc, InOrder(I)), to))
<1>1. I \in SUBSET Nat /\ IsFiniteSet(I)
  BY PlacesOf DEF IsText
<1>2. InOrder(I) \in Seq(I)
  BY <1>1, InOrderLists
<1>3. \A i \in I : doc[i].jo \in Nat
  BY DEF IsText
<1> QED
  BY <1>2, <1>3, CutDistinct

\* Articles of a region.
LEMMA RegionDistinct ==
    ASSUME NEW doc, IsText(doc), NEW from, NEW to
    PROVE  Distinct(ParseRegion(doc, from, to))
<1> DEFINE I == Articles(doc, Profile(doc)) \cap (from .. to - 1)
<1>1. I \in SUBSET DOMAIN doc
  BY DEF Articles
<1> HIDE DEF I
<1>2. Distinct(Cut(doc, Unbroken(doc, InOrder(I)), to))
  BY <1>1, PlacesDistinct
<1> QED
  BY <1>2 DEF ParseRegion, I

\* Articles of a whole document.
LEMMA DocumentDistinct ==
    ASSUME NEW doc, IsText(doc)
    PROVE  Distinct(ParseDocument(doc))
<1> DEFINE sections == Sections(doc)
           body == {i \in Articles(doc, Profile(doc)) :
                        i < BodyEnd(doc) /\ ~IsContents(Profile(doc), doc[i])}
<1>1. body \in SUBSET DOMAIN doc
  BY DEF Articles
<1> HIDE DEF body, sections
<1>2. Distinct(ParseRegion(doc, sections[1] + 1, sections[2]))
  BY RegionDistinct
<1>3. Distinct(Cut(doc, Unbroken(doc, InOrder(body)), BodyEnd(doc)))
  BY <1>1, PlacesDistinct
<1> QED
  BY <1>2, <1>3 DEF ParseDocument, body, sections

-----------------------------------------------------------------------------
\* The policies of a document.

\* Of a list of policies at most one is the ordinary one.
OneOrdinary(policies) ==
    \E m \in Nat :
        /\ DOMAIN policies = 1..m
        /\ \A k \in 1..m : policies[k].special \in BOOLEAN
        /\ \A k, l \in 1..m : ~policies[k].special /\ ~policies[l].special => k = l

\* Policies by the headings of a section (split_sections).
LEMMA SectionsOneOrdinary ==
    ASSUME NEW doc, IsText(doc)
    PROVE  OneOrdinary(SplitSections(doc))
<1>1. CASE Len(Sections(doc)) < 2
  <2>1. SplitSections(doc) = <<Policy(0, FALSE, 1, BodyEnd(doc))>>
    BY <1>1 DEF SplitSections
  <2>2. Policy(0, FALSE, 1, BodyEnd(doc)).special = FALSE
    BY DEF Policy
  <2> HIDE DEF Policy
  <2>3. /\ DOMAIN SplitSections(doc) = 1..1
        /\ SplitSections(doc)[1].special = FALSE
    <3> DEFINE ordinary == Policy(0, FALSE, 1, BodyEnd(doc))
    <3>1. ordinary.special = FALSE
      BY <2>2
    <3> HIDE DEF ordinary
    <3>2. <<ordinary>> \in Seq({ordinary}) /\ Len(<<ordinary>>) = 1 /\ <<ordinary>>[1] = ordinary
      OBVIOUS
    <3>3. DOMAIN <<ordinary>> = 1..1
      BY <3>2, LenProperties
    <3>4. SplitSections(doc) = <<ordinary>>
      BY <2>1 DEF ordinary
    <3> QED
      BY <3>1, <3>2, <3>3, <3>4
  <2>4. \A k \in 1..1 : k = 1
    OBVIOUS
  <2> QED
    BY <2>3, <2>4 DEF OneOrdinary
<1>2. CASE ~(Len(Sections(doc)) < 2)
  <2> DEFINE first == Sections(doc)[1]
             subs == {i \in first + 1 .. Len(doc) :
                         doc[i].hash /\ doc[i].level >= 3 /\ doc[i].says = "special"}
             I == {i \in {first + 1} \cup subs : i < BodyEnd(doc)}
             starts == InOrder(I)
  <2>1. first \in Nat
    <3> DEFINE J == {i \in DOMAIN doc : doc[i].kind = "section" /\ ~doc[i].dots}
    <3>1. J \in SUBSET DOMAIN doc
      OBVIOUS
    <3> HIDE DEF J
    <3>2. J \in SUBSET Nat /\ IsFiniteSet(J)
      BY <3>1, PlacesOf DEF IsText
    <3>3. InOrder(J) \in Seq(J)
      BY <3>2, InOrderLists
    <3>4. Sections(doc) = InOrder(J)
      BY DEF Sections, J
    <3>5. Len(InOrder(J)) \in Nat /\ 1 \in 1..Len(InOrder(J))
      BY <1>2, <3>3, <3>4, LenProperties
    <3> QED
      BY <3>2, <3>3, <3>4, <3>5, ElementOfSeq
  <2>2. I \in SUBSET Nat /\ IsFiniteSet(I)
    <3>1. I \in SUBSET ((first + 1)..(Len(doc) + first + 1)) /\ I \in SUBSET Nat
      BY <2>1 DEF IsText
    <3>2. IsFiniteSet((first + 1)..(Len(doc) + first + 1))
      BY <2>1, FS_Interval DEF IsText
    <3> HIDE DEF I
    <3> QED
      BY <3>1, <3>2, FS_Subset
  <2>3. starts \in Seq(I) /\ Len(starts) \in Nat /\ DOMAIN starts = 1..Len(starts)
    <3> HIDE DEF I
    <3> QED
      BY <2>2, InOrderLists, LenProperties
  <2> DEFINE end(k) == IF k < Len(starts) THEN starts[k + 1] ELSE BodyEnd(doc)
  <2>4. SplitSections(doc) =
          [k \in DOMAIN starts |->
              Policy(IF k = 1 THEN 0 ELSE starts[k], k > 1, starts[k], end(k))]
    BY <1>2 DEF SplitSections
  <2> HIDE DEF starts, end
  <2>5. /\ DOMAIN SplitSections(doc) = 1..Len(starts)
        /\ \A k \in 1..Len(starts) :
              /\ SplitSections(doc)[k].special \in BOOLEAN
              /\ ~SplitSections(doc)[k].special => k = 1
    <3>1. DOMAIN SplitSections(doc) = 1..Len(starts)
      BY <2>3, <2>4
    <3> DEFINE later(k) == k > 1
    <3>2. \A k \in 1..Len(starts) : SplitSections(doc)[k].special = later(k)
      BY <2>3, <2>4 DEF Policy
    <3>3. \A k \in 1..Len(starts) : later(k) \in BOOLEAN /\ (~later(k) => k = 1)
      OBVIOUS
    <3> HIDE DEF later
    <3> QED
      BY <3>1, <3>2, <3>3, Zenon
  <2>6. \A k, l \in 1..Len(starts) :
           ~SplitSections(doc)[k].special /\ ~SplitSections(doc)[l].special => k = l
    BY <2>5
  <2> QED
    BY <2>3, <2>5, <2>6 DEF OneOrdinary
<1> QED
  BY <1>1, <1>2

\* What is kept of a list are places of it, each once.
LEMMA KeptOnce ==
    ASSUME NEW m \in Nat, NEW K \in SUBSET (1..m)
    PROVE  /\ InOrder(K) \in Seq(K)
           /\ Len(InOrder(K)) \in Nat /\ DOMAIN InOrder(K) = 1..Len(InOrder(K))
           /\ \A n \in 1..Len(InOrder(K)) : InOrder(K)[n] \in K
           /\ \A k, l \in 1..Len(InOrder(K)) : InOrder(K)[k] = InOrder(K)[l] => k = l
<1>1. IsFiniteSet(K) /\ K \in SUBSET Nat
  <2>1. IsFiniteSet(1..m)
    BY FS_Interval
  <2>2. IsFiniteSet(K)
    BY <2>1, FS_Subset
  <2> QED
    BY <2>2
<1>2. InOrder(K) \in Seq(K)
  BY <1>1, InOrderLists
<1>3. Len(InOrder(K)) \in Nat /\ DOMAIN InOrder(K) = 1..Len(InOrder(K))
  BY <1>2, LenProperties
<1>4. \A n \in 1..Len(InOrder(K)) : InOrder(K)[n] \in K
  BY <1>2, ElementOfSeq
<1> QED
  BY <1>1, <1>2, <1>3, <1>4, InOrderLists

\* The places where numbers start again are a list.
LEMMA RunsListed ==
    ASSUME NEW doc, IsText(doc)
    PROVE  Len(Runs(doc)) \in Nat /\ DOMAIN Runs(doc) = 1..Len(Runs(doc))
<1> DEFINE J == {i \in Articles(doc, Profile(doc)) : ~IsContents(Profile(doc), doc[i])}
           hits == InOrder(J)
           new == {j \in DOMAIN hits : j = 1 \/ doc[hits[j]].jo <= doc[hits[j - 1]].jo}
           I == {hits[k] : k \in new}
<1>1. J \in SUBSET DOMAIN doc
  BY DEF Articles
<1> HIDE DEF J
<1>2. J \in SUBSET Nat /\ IsFiniteSet(J)
  BY <1>1, PlacesOf DEF IsText
<1>3. hits \in Seq(J) /\ DOMAIN hits = 1..Len(hits)
  BY <1>2, InOrderLists
<1>4. \A k \in DOMAIN hits : hits[k] \in J
  BY <1>3, ElementOfSeq
<1> HIDE DEF hits
<1>5. I \in SUBSET J
  BY <1>4
<1>6. Runs(doc) = InOrder(I)
  BY DEF Runs, J, hits
<1> HIDE DEF I
<1>7. I \in SUBSET Nat /\ IsFiniteSet(I)
  BY <1>2, <1>5, FS_Subset
<1>8. InOrder(I) \in Seq(I)
  BY <1>7, InOrderLists
<1> QED
  BY <1>6, <1>8, LenProperties

\* Policies by where the numbers start again (detect_subcontracts).
LEMMA RunsOneOrdinary ==
    ASSUME NEW doc, IsText(doc)
    PROVE  OneOrdinary(RunSections(doc))
<1> DEFINE starts == Runs(doc)
           end(k) == IF k < Len(starts) THEN starts[k + 1] ELSE Len(doc) + 1
           name(k) == NamedBy(doc, starts[k])
           K == {k \in DOMAIN starts : k = 1 \/ (name(k) # 0 /\ doc[name(k)].says = "special")}
           kept == InOrder(K)
<1>1. Len(starts) \in Nat /\ K \in SUBSET (1..Len(starts))
  BY RunsListed
<1>2. RunSections(doc) =
          [n \in DOMAIN kept |->
              Policy(IF kept[n] = 1 THEN 0 ELSE name(kept[n]), kept[n] > 1,
                     starts[kept[n]], end(kept[n]))]
  BY DEF RunSections
<1> HIDE DEF K, starts, end, name
<1>3. /\ Len(kept) \in Nat /\ DOMAIN kept = 1..Len(kept)
      /\ \A n \in 1..Len(kept) : kept[n] \in K
      /\ \A k, l \in 1..Len(kept) : kept[k] = kept[l] => k = l
  BY <1>1, KeptOnce
<1> HIDE DEF kept
<1>4. /\ DOMAIN RunSections(doc) = 1..Len(kept)
      /\ \A n \in 1..Len(kept) : RunSections(doc)[n].special = (kept[n] > 1)
  BY <1>2, <1>3 DEF Policy
<1>5. \A n \in 1..Len(kept) :
          /\ RunSections(doc)[n].special \in BOOLEAN
          /\ ~RunSections(doc)[n].special => kept[n] = 1
  <2> TAKE n \in 1..Len(kept)
  <2> DEFINE later == kept[n] > 1
  <2>1. RunSections(doc)[n].special = later
    BY <1>4
  <2>2. kept[n] \in 1..Len(starts)
    BY <1>1, <1>3
  <2>3. later \in BOOLEAN /\ (~later => kept[n] = 1)
    BY <1>1, <2>2
  <2> HIDE DEF later
  <2> QED
    BY <2>1, <2>3, Zenon
<1>6. \A k, l \in 1..Len(kept) :
          ~RunSections(doc)[k].special /\ ~RunSections(doc)[l].special => k = l
  BY <1>3, <1>5
<1> QED
  BY <1>3, <1>4, <1>5, <1>6 DEF OneOrdinary

\* Policies by KB's titles (kb_parse).
LEMMA KbOneOrdinary ==
    ASSUME NEW doc, IsText(doc)
    PROVE  OneOrdinary(KbSections(doc))
<1> DEFINE J == {i \in DOMAIN doc : doc[i].kb}
           titles == InOrder(J)
           end(k) == IF k < Len(titles) THEN titles[k + 1] ELSE Len(doc) + 1
           clauses(k) == ParseDocument(SubSeq(doc, titles[k], end(k) - 1))
           K == {k \in DOMAIN titles : IsSubcontract(clauses(k))}
           kept == InOrder(K)
           base == Policy(0, FALSE, 1, IF titles = <<>> THEN Len(doc) + 1 ELSE titles[1])
           named(n) == Policy(titles[kept[n]], TRUE, titles[kept[n]], end(kept[n]))
           specials == [n \in DOMAIN kept |-> named(n)]
<1>1. J \in SUBSET DOMAIN doc
  OBVIOUS
<1>2. KbSections(doc) = <<base>> \o specials
  BY DEF KbSections
<1>3. base.special = FALSE /\ \A n \in DOMAIN kept : named(n).special = TRUE
  BY DEF Policy
<1>4. \A n \in DOMAIN kept : specials[n] = named(n)
  OBVIOUS
<1> HIDE DEF J, base, named
<1>5. J \in SUBSET Nat /\ IsFiniteSet(J)
  BY <1>1, PlacesOf DEF IsText
<1>6. titles \in Seq(J) /\ Len(titles) \in Nat /\ DOMAIN titles = 1..Len(titles)
  BY <1>5, InOrderLists, LenProperties
<1>7. K \in SUBSET (1..Len(titles))
  BY <1>6
<1> HIDE DEF titles, K, end, clauses
<1>8. Len(kept) \in Nat /\ DOMAIN kept = 1..Len(kept)
  BY <1>6, <1>7, KeptOnce
<1> HIDE DEF kept
<1> DEFINE all == {base} \cup {named(n) : n \in 1..Len(kept)}
<1>9. specials \in Seq(all) /\ Len(specials) = Len(kept)
  <2>1. specials \in [1..Len(kept) -> all]
    BY <1>8
  <2> HIDE DEF specials, all
  <2>2. specials \in Seq(all)
    <3>1. specials \in UNION {[1..n -> all] : n \in Nat}
      BY <1>8, <2>1
    <3> QED
      BY <3>1, SeqDef
  <2>3. DOMAIN specials = 1..Len(specials) /\ Len(specials) \in Nat
    BY <2>2, LenProperties
  <2> QED
    BY <1>8, <2>1, <2>2, <2>3
<1>10. <<base>> \in Seq(all) /\ Len(<<base>>) = 1 /\ <<base>>[1] = base
  OBVIOUS
<1> HIDE DEF specials, all
<1> DEFINE m == Len(kept) + 1
<1>11. /\ KbSections(doc) \in Seq(all) /\ Len(KbSections(doc)) = m
       /\ \A k \in 1..m : KbSections(doc)[k] = IF k <= 1 THEN base ELSE specials[k - 1]
  BY <1>2, <1>8, <1>9, <1>10, ConcatProperties
<1>12. DOMAIN KbSections(doc) = 1..m /\ m \in Nat
  BY <1>8, <1>11, LenProperties
<1>13. \A k \in 1..m : /\ KbSections(doc)[k].special \in BOOLEAN
                       /\ ~KbSections(doc)[k].special => k = 1
  <2> TAKE k \in 1..m
  <2>1. CASE k = 1
    <3>1. KbSections(doc)[k] = base
      BY <1>11, <2>1
    <3>2. KbSections(doc)[k].special = FALSE
      BY <1>3, <3>1
    <3> QED
      BY <2>1, <3>2
  <2>2. CASE k # 1
    <3>1. k - 1 \in DOMAIN kept /\ ~(k <= 1)
      BY <1>8, <2>2
    <3>2. KbSections(doc)[k] = named(k - 1)
      BY <1>4, <1>11, <3>1
    <3>3. KbSections(doc)[k].special = TRUE
      BY <1>3, <3>1, <3>2
    <3> QED
      BY <3>3
  <2> QED
    BY <2>1, <2>2
<1> QED
  BY <1>12, <1>13 DEF OneOrdinary

\* A list of policies with their articles: at most one is the ordinary policy,
\* and a number stands for one article of a policy.
WellFound(found) ==
    /\ OneOrdinary(found)
    /\ \A k \in DOMAIN found : Distinct(found[k].clauses)

\* Policies that have articles, with these.
LEMMA ParsedWell ==
    ASSUME NEW doc, IsText(doc), NEW sections, OneOrdinary(sections)
    PROVE  WellFound(Parsed(doc, sections))
<1> DEFINE clauses == [k \in DOMAIN sections |->
                          ParseRegion(doc, sections[k].from, sections[k].to)]
           K == {k \in DOMAIN sections : clauses[k] # <<>>}
           kept == InOrder(K)
           parsed == Parsed(doc, sections)
<1>1. parsed = [n \in DOMAIN kept |->
                   [name |-> sections[kept[n]].name, special |-> sections[kept[n]].special,
                    clauses |-> clauses[kept[n]]]]
  BY DEF Parsed
<1>2. PICK m \in Nat :
          /\ DOMAIN sections = 1..m
          /\ \A k \in 1..m : sections[k].special \in BOOLEAN
          /\ \A k, l \in 1..m : ~sections[k].special /\ ~sections[l].special => k = l
  BY DEF OneOrdinary
<1>3. K \in SUBSET (1..m)
  BY <1>2
<1>4. \A k \in DOMAIN sections : Distinct(clauses[k])
  BY RegionDistinct
<1> HIDE DEF clauses, K, parsed
<1>5. /\ Len(kept) \in Nat /\ DOMAIN kept = 1..Len(kept)
      /\ \A n \in 1..Len(kept) : kept[n] \in K
      /\ \A k, l \in 1..Len(kept) : kept[k] = kept[l] => k = l
  BY <1>3, KeptOnce
<1> HIDE DEF kept
<1>6. /\ DOMAIN parsed = 1..Len(kept)
      /\ \A n \in 1..Len(kept) : /\ parsed[n].special = sections[kept[n]].special
                                 /\ parsed[n].clauses = clauses[kept[n]]
  BY <1>1, <1>5
<1>7. \A n \in 1..Len(kept) : kept[n] \in 1..m
  BY <1>3, <1>5
<1>8. \A n \in 1..Len(kept) : parsed[n].special \in BOOLEAN
  BY <1>2, <1>6, <1>7
<1>9. \A k, l \in 1..Len(kept) : ~parsed[k].special /\ ~parsed[l].special => k = l
  BY <1>2, <1>5, <1>6, <1>7
<1>10. OneOrdinary(parsed)
  BY <1>5, <1>6, <1>8, <1>9 DEF OneOrdinary
<1>11. \A n \in DOMAIN parsed : Distinct(parsed[n].clauses)
  BY <1>2, <1>4, <1>6, <1>7
<1> QED
  BY <1>10, <1>11 DEF WellFound, parsed

\* Whichever script looks for policies.
LEMMA FoundWell ==
    ASSUME NEW script \in Scripts, NEW doc, IsText(doc)
    PROVE  WellFound(Found(script, doc))
<1>1. CASE script = "compound"
  <2>1. OneOrdinary(CompoundSections(doc))
    BY SectionsOneOrdinary, RunsOneOrdinary DEF CompoundSections
  <2>2. Found(script, doc) = Parsed(doc, CompoundSections(doc))
    BY <1>1 DEF Found
  <2> QED
    BY <2>1, <2>2, ParsedWell
<1>2. CASE script = "kb"
  <2>1. Found(script, doc) = Parsed(doc, KbSections(doc))
    BY <1>2 DEF Found
  <2> QED
    BY <2>1, KbOneOrdinary, ParsedWell
<1>3. CASE script = "product"
  <2> DEFINE p == [name |-> 0, special |-> FALSE, clauses |-> ParseDocument(doc)]
  <2>1. Found(script, doc) = <<p>>
    BY <1>3 DEF Found
  <2>2. p.special = FALSE /\ Distinct(p.clauses)
    BY DocumentDistinct
  <2> HIDE DEF p
  <2>3. <<p>> \in Seq({p}) /\ Len(<<p>>) = 1 /\ <<p>>[1] = p
    OBVIOUS
  <2>4. DOMAIN <<p>> = 1..1
    BY <2>3, LenProperties
  <2>5. \A k \in 1..1 : k = 1
    OBVIOUS
  <2>6. OneOrdinary(<<p>>)
    BY <2>2, <2>3, <2>4, <2>5 DEF OneOrdinary
  <2> QED
    BY <2>1, <2>2, <2>3, <2>4, <2>5, <2>6 DEF WellFound
<1> QED
  BY <1>1, <1>2, <1>3 DEF Scripts

\* The policies that are found have numbers of their own.
LEMMA NumbersDiffer ==
    ASSUME NEW found, OneOrdinary(found), NEW k \in DOMAIN found, NEW l \in DOMAIN found,
           Number(found, k) = Number(found, l)
    PROVE  k = l
<1>1. PICK m \in Nat :
          /\ DOMAIN found = 1..m
          /\ \A i \in 1..m : found[i].special \in BOOLEAN
          /\ \A i, j \in 1..m : ~found[i].special /\ ~found[j].special => i = j
  BY DEF OneOrdinary
<1> DEFINE S(i) == {j \in 1..i : found[j].special}
<1>2. ASSUME NEW i \in 1..m
      PROVE  /\ IsFiniteSet(S(i)) /\ Cardinality(S(i)) \in Nat
             /\ found[i].special => Cardinality(S(i)) # 0
  <2>1. S(i) \in SUBSET (1..i) /\ IsFiniteSet(1..i)
    BY <1>2, FS_Interval
  <2>2. found[i].special => i \in S(i)
    BY <1>2
  <2> HIDE DEF S
  <2>3. IsFiniteSet(S(i))
    BY <2>1, FS_Subset
  <2>4. Cardinality(S(i)) \in Nat
    BY <2>3, FS_CardinalityType
  <2> QED
    BY <2>2, <2>3, <2>4, FS_EmptySet
<1>3. ASSUME NEW i \in 1..m, NEW j \in 1..m, i < j, found[j].special
      PROVE  Cardinality(S(i)) # Cardinality(S(j))
  <2>1. S(i) \in SUBSET S(j) /\ j \in S(j) /\ j \notin S(i)
    BY <1>3
  <2>2. IsFiniteSet(S(j))
    BY <1>2
  <2> HIDE DEF S
  <2> QED
    BY <2>1, <2>2, FS_Subset
<1>4. \A i \in 1..m : Number(found, i) = IF found[i].special THEN Cardinality(S(i)) ELSE 0
  BY DEF Number
<1> HIDE DEF S
<1>5. k \in 1..m /\ l \in 1..m
  BY <1>1
<1>6. CASE found[k].special /\ found[l].special
  <2>1. Cardinality(S(k)) = Cardinality(S(l))
    BY <1>4, <1>5, <1>6
  <2>2. ~(k < l) /\ ~(l < k)
    BY <1>3, <1>5, <1>6, <2>1
  <2> QED
    BY <1>5, <2>2
<1>7. CASE ~found[k].special \/ ~found[l].special
  BY <1>1, <1>2, <1>4, <1>5, <1>7
<1> QED
  BY <1>6, <1>7

-----------------------------------------------------------------------------
\* The annexes of a document.

\* Every annex that is no entry of the contents is there, with a number of its own.
LEMMA AnnexesListed ==
    ASSUME NEW doc, IsText(doc)
    PROVE  /\ \E m \in Nat :
                 /\ DOMAIN Annexes(doc) = 1..m
                 /\ \A a, b \in 1..m : Annexes(doc)[a].no = Annexes(doc)[b].no => a = b
           /\ \A i \in DOMAIN doc :
                 doc[i].kind = "annex" /\ ~doc[i].dots =>
                     \E a \in DOMAIN Annexes(doc) : Annexes(doc)[a].no = doc[i].no
<1> DEFINE I == {i \in DOMAIN doc : doc[i].kind = "annex" /\ ~doc[i].dots}
           marks == InOrder(I)
           no(k) == doc[marks[k]].no
           K == {k \in DOMAIN marks : \A j \in 1..(k - 1) : no(j) # no(k)}
           kept == InOrder(K)
           annexes == Annexes(doc)
           end(k) == IF k < Len(marks) THEN marks[k + 1] - 1 ELSE Len(doc)
<1>1. annexes = [n \in DOMAIN kept |-> [no |-> no(kept[n]), from |-> marks[kept[n]],
                                        to |-> end(kept[n])]]
  BY DEF Annexes
<1>2. I \in SUBSET DOMAIN doc
  OBVIOUS
<1>3. \A i \in DOMAIN doc : doc[i].kind = "annex" /\ ~doc[i].dots => i \in I
  OBVIOUS
<1> HIDE DEF I, annexes, end
<1>4. I \in SUBSET Nat /\ IsFiniteSet(I)
  BY <1>2, PlacesOf DEF IsText
<1>5. /\ marks \in Seq(I) /\ DOMAIN marks = 1..Len(marks)
      /\ \A i \in I : \E n \in DOMAIN marks : marks[n] = i
  BY <1>4, InOrderLists
<1> HIDE DEF marks
<1>6. Len(marks) \in Nat
  BY <1>5, LenProperties
<1>7. \A i \in I : \E k \in DOMAIN marks : no(k) = doc[i].no
  BY <1>5
<1>8. K \in SUBSET (1..Len(marks))
  BY <1>5
<1>9. \A k \in K : \A j \in 1..(k - 1) : no(j) # no(k)
  OBVIOUS
<1>10. \A k \in DOMAIN marks : \E l \in K : no(l) = no(k)
  <2> TAKE k \in DOMAIN marks
  <2> DEFINE same == {j \in DOMAIN marks : no(j) = no(k)}
  <2>1. same \in SUBSET Nat /\ k \in same
    BY <1>5
  <2>2. \E l \in same : \A j \in same : l <= j
    BY <2>1, LeastNumber
  <2>3. PICK l \in same : \A j \in same : l <= j
    BY <2>2
  <2>4. l \in 1..Len(marks) /\ no(l) = no(k)
    BY <1>5, <2>3
  <2>5. ASSUME NEW j \in 1..(l - 1), no(j) = no(l)
        PROVE  FALSE
    <3>1. j \in DOMAIN marks /\ j < l
      BY <1>5, <1>6, <2>4
    <3>2. j \in same
      BY <2>4, <2>5, <3>1
    <3>3. l <= j
      BY <2>3, <3>2
    <3> QED
      BY <2>4, <3>1, <3>3
  <2>6. l \in K
    BY <1>5, <2>4, <2>5
  <2> QED
    BY <2>4, <2>6
<1> HIDE DEF no, K
<1>11. /\ Len(kept) \in Nat /\ DOMAIN kept = 1..Len(kept)
       /\ \A n \in 1..Len(kept) : kept[n] \in K
       /\ \A k, l \in 1..Len(kept) : kept[k] = kept[l] => k = l
  BY <1>6, <1>8, KeptOnce
<1>12. \A k \in K : \E n \in 1..Len(kept) : kept[n] = k
  <2>1. IsFiniteSet(1..Len(marks))
    BY <1>6, FS_Interval
  <2>2. IsFiniteSet(K)
    BY <1>8, <2>1, FS_Subset
  <2>3. K \in SUBSET Nat
    BY <1>8
  <2> QED
    BY <1>11, <2>2, <2>3, InOrderLists
<1> HIDE DEF kept
<1>13. /\ DOMAIN annexes = 1..Len(kept)
       /\ \A n \in 1..Len(kept) : annexes[n].no = no(kept[n])
  BY <1>1, <1>11
<1>14. \A k, l \in K : no(k) = no(l) => k = l
  <2> TAKE k, l \in K
  <2> HAVE no(k) = no(l)
  <2>1. k \in Nat /\ l \in Nat /\ 1 <= k /\ 1 <= l
    BY <1>8
  <2>2. ~(k < l)
    <3>1. k < l => k \in 1..(l - 1)
      BY <2>1
    <3> QED
      BY <1>9, <3>1
  <2>3. ~(l < k)
    <3>1. l < k => l \in 1..(k - 1)
      BY <2>1
    <3> QED
      BY <1>9, <3>1
  <2> QED
    BY <2>1, <2>2, <2>3
<1>15. \A a, b \in 1..Len(kept) : annexes[a].no = annexes[b].no => a = b
  BY <1>11, <1>13, <1>14
<1>16. \A i \in I : \E a \in DOMAIN annexes : annexes[a].no = doc[i].no
  <2> TAKE i \in I
  <2>1. PICK k \in DOMAIN marks : no(k) = doc[i].no
    BY <1>7
  <2>2. PICK l \in K : no(l) = no(k)
    BY <1>10
  <2>3. PICK n \in 1..Len(kept) : kept[n] = l
    BY <1>12
  <2> QED
    BY <1>13, <2>1, <2>2, <2>3
<1> QED
  BY <1>3, <1>11, <1>13, <1>15, <1>16 DEF annexes

-----------------------------------------------------------------------------
\* No key is there twice.

\* Numbers that differ are not there twice.
LEMMA NotTwice ==
    ASSUME NEW m \in Nat, NEW s, s = [k \in 1..m |-> s[k]],
           \A i, j \in 1..m : s[i] = s[j] => i = j
    PROVE  ~Twice(s)
<1> DEFINE R == {s[k] : k \in 1..m}
<1>1. s \in [1..m -> R] /\ DOMAIN s = 1..m
  OBVIOUS
<1>2. Range(s) = R
  BY <1>1 DEF Range
<1>3. s \in Seq(R)
  <2>1. s \in UNION {[1..n -> R] : n \in Nat}
    BY <1>1
  <2> QED
    BY <2>1, SeqDef
<1>4. Len(s) = m
  BY <1>1, <1>3, LenProperties
<1>5. s \in Bijection(1..m, R)
  BY <1>1 DEF Bijection, Injection, Surjection, IsInjective
<1>6. Cardinality(R) = m
  BY <1>5, FS_CountingElements DEF ExistsBijection
<1> QED
  BY <1>2, <1>4, <1>6 DEF Twice

\* No number is there twice among the articles of a policy or the annexes.
LEMMA LoadAccepted ==
    ASSUME NEW doc, IsText(doc), NEW found, WellFound(found)
    PROVE  ~Rejected(doc, found)
<1>1. ASSUME NEW k \in DOMAIN found
      PROVE  ~Twice(Numbers(found[k].clauses))
  <2> DEFINE clauses == found[k].clauses
             jo == Numbers(clauses)
  <2>1. PICK m \in Nat :
            /\ DOMAIN clauses = 1..m
            /\ \A i, j \in 1..m : clauses[i].jo = clauses[j].jo => i = j
    BY DEF WellFound, Distinct
  <2> HIDE DEF clauses
  <2>2. jo = [i \in 1..m |-> jo[i]] /\ \A i \in 1..m : jo[i] = clauses[i].jo
    BY <2>1 DEF Numbers
  <2> HIDE DEF jo
  <2>3. \A i, j \in 1..m : jo[i] = jo[j] => i = j
    BY <2>1, <2>2
  <2>4. ~Twice(jo)
    BY <2>2, <2>3, NotTwice
  <2> QED
    BY <2>4 DEF jo, clauses
<1>2. ~Twice([a \in DOMAIN Annexes(doc) |-> Annexes(doc)[a].no])
  <2> DEFINE no == [a \in DOMAIN Annexes(doc) |-> Annexes(doc)[a].no]
  <2>1. PICK m \in Nat :
            /\ DOMAIN Annexes(doc) = 1..m
            /\ \A a, b \in 1..m : Annexes(doc)[a].no = Annexes(doc)[b].no => a = b
    BY AnnexesListed
  <2>2. no = [a \in 1..m |-> no[a]] /\ \A a \in 1..m : no[a] = Annexes(doc)[a].no
    BY <2>1
  <2> HIDE DEF no
  <2>3. \A a, b \in 1..m : no[a] = no[b] => a = b
    BY <2>1, <2>2
  <2>4. ~Twice(no)
    BY <2>2, <2>3, NotTwice
  <2> QED
    BY <2>4 DEF no
<1> QED
  BY <1>1, <1>2 DEF Rejected

-----------------------------------------------------------------------------
\* References and exclusions.

\* The articles among the rows of a load.
HasRow(rows, n, jo) == \E c \in rows.clause : c.product = n /\ c.jo = jo

\* The rows of a policy's articles are the only ones with its number.
LEMMA RowsOfPolicy ==
    ASSUME NEW doc, NEW found, OneOrdinary(found), NEW k \in DOMAIN found, NEW jo
    PROVE  HasRow(RowsOf(doc, found), Number(found, k), jo) <=>
               \E i \in DOMAIN found[k].clauses : found[k].clauses[i].jo = jo
<1> DEFINE n(l) == Number(found, l)
           clause == UNION {ClauseRows(doc, found[l], n(l)) : l \in DOMAIN found}
<1>1. RowsOf(doc, found).clause = clause
  BY DEF RowsOf
<1>2. \A l \in DOMAIN found : n(l) = n(k) => l = k
  BY NumbersDiffer
<1> HIDE DEF n
<1>3. ASSUME NEW c \in clause, c.product = n(k), c.jo = jo
      PROVE  \E i \in DOMAIN found[k].clauses : found[k].clauses[i].jo = jo
  <2>1. PICK l \in DOMAIN found : c \in ClauseRows(doc, found[l], n(l))
    BY <1>3
  <2>2. PICK d \in Range(found[l].clauses) :
            c = [product |-> n(l), jo |-> d.jo, at |-> doc[d.from].at,
                 body |-> LinesAt(doc, d.from, d.to)]
    BY <2>1 DEF ClauseRows
  <2>3. c.product = n(l) /\ c.jo = d.jo
    BY <2>2
  <2>4. l = k
    BY <1>2, <1>3, <2>3
  <2> QED
    BY <1>3, <2>2, <2>3, <2>4 DEF Range
<1>4. ASSUME NEW i \in DOMAIN found[k].clauses, found[k].clauses[i].jo = jo
      PROVE  \E c \in clause : c.product = n(k) /\ c.jo = jo
  <2> DEFINE d == found[k].clauses[i]
             c == [product |-> n(k), jo |-> d.jo, at |-> doc[d.from].at,
                   body |-> LinesAt(doc, d.from, d.to)]
  <2>1. d \in Range(found[k].clauses)
    BY DEF Range
  <2>2. c \in ClauseRows(doc, found[k], n(k))
    BY <2>1 DEF ClauseRows
  <2>3. c.product = n(k) /\ c.jo = jo
    BY <1>4
  <2> HIDE DEF c
  <2> QED
    BY <2>2, <2>3
<1> HIDE DEF clause
<1> QED
  BY <1>1, <1>3, <1>4 DEF HasRow, n

\* What a row of a reference holds.
LEMMA RefRowHolds ==
    ASSUME NEW doc, NEW p, NEW n, NEW r \in RefRows(doc, p, n)
    PROVE  /\ r.product = n
           /\ \E i \in DOMAIN p.clauses : p.clauses[i].jo = r.jo
           /\ r.type = "article" =>
                 /\ r.owner = n
                 /\ r.resolved <=> \E i \in DOMAIN p.clauses : p.clauses[i].jo = r.no
           /\ r.type = "annex" => r.owner = 0
<1> DEFINE jos == {p.clauses[k].jo : k \in DOMAIN p.clauses}
           adoption(c) == [product |-> n, jo |-> c.jo, type |-> "adoption",
                           owner |-> 0, no |-> 0, resolved |-> FALSE]
<1>1. PICK k \in DOMAIN p.clauses :
          \/ \E f \in Refs(doc, p.clauses[k]) : r = RefRow(n, p.clauses[k], f, jos)
          \/ r = adoption(p.clauses[k])
  BY DEF RefRows
<1>2. CASE r = adoption(p.clauses[k])
  BY <1>2
<1>3. ASSUME NEW f \in Refs(doc, p.clauses[k]), r = RefRow(n, p.clauses[k], f, jos)
      PROVE  /\ r.product = n /\ r.jo = p.clauses[k].jo
             /\ r.type = "article" =>
                   /\ r.owner = n
                   /\ r.resolved <=> \E i \in DOMAIN p.clauses : p.clauses[i].jo = r.no
             /\ r.type = "annex" => r.owner = 0
  <2> DEFINE there == f[1] = "annex" \/ f[2] \in jos
  <2>1. /\ r.product = n /\ r.jo = p.clauses[k].jo /\ r.type = f[1] /\ r.no = f[2]
        /\ r.owner = IF f[1] = "annex" THEN 0 ELSE n
        /\ r.resolved = there
    BY <1>3 DEF RefRow, AnnexOwner
  <2>2. f[1] = "article" =>
            (there <=> \E i \in DOMAIN p.clauses : p.clauses[i].jo = f[2])
    BY Zenon
  <2> HIDE DEF there
  <2>3. f[1] = "article" =>
            (r.resolved <=> \E i \in DOMAIN p.clauses : p.clauses[i].jo = f[2])
    BY <2>1, <2>2, Zenon
  <2> QED
    BY <2>1, <2>3
<1> QED
  BY <1>1, <1>2, <1>3

\* What a row of an exclusion holds.
LEMMA ExclusionRowHolds ==
    ASSUME NEW doc, NEW p, DOMAIN p.clauses \in SUBSET Nat, NEW n, NEW x \in ExclusionRows(doc, p, n)
    PROVE  /\ x.product = n
           /\ \E i \in DOMAIN p.clauses : p.clauses[i].jo = x.jo
           /\ \A jo \in x.paid : \E i \in DOMAIN p.clauses : p.clauses[i].jo = jo
<1>1. PICK c \in Range(p.clauses) :
          x = [product |-> n, paid |-> PaidBy(p.clauses), jo |-> c.jo, kind |-> ExclusionKind(doc, c)]
  BY DEF ExclusionRows
<1>2. x.product = n /\ x.paid = PaidBy(p.clauses) /\ x.jo = c.jo
  BY <1>1
<1>3. \E i \in DOMAIN p.clauses : p.clauses[i].jo = x.jo
  BY <1>1, <1>2 DEF Range
<1>4. ASSUME NEW jo \in PaidBy(p.clauses)
      PROVE  \E i \in DOMAIN p.clauses : p.clauses[i].jo = jo
  <2> DEFINE pays == {k \in DOMAIN p.clauses : p.clauses[k].topic = "payout"}
  <2>1. pays # {} /\ jo = p.clauses[Min(pays)].jo
    BY DEF PaidBy
  <2>2. pays \in SUBSET Nat
    OBVIOUS
  <2>3. \E m \in pays : \A k \in pays : m <= k
    BY <2>1, <2>2, LeastNumber
  <2>4. Min(pays) \in pays
    BY <2>3 DEF Min
  <2> QED
    BY <2>1, <2>4
<1> QED
  BY <1>2, <1>3, <1>4

\* The rows of a load refer to one another as those of the tables are to.
LEMMA RowsResolve ==
    ASSUME NEW doc, NEW found, WellFound(found)
    PROVE  LET rows == RowsOf(doc, found)
           IN  /\ \A r \in rows.ref :
                     /\ HasRow(rows, r.product, r.jo)
                     /\ r.type = "article" =>
                           /\ r.owner = r.product
                           /\ r.resolved <=> HasRow(rows, r.owner, r.no)
                     /\ r.type = "annex" => r.owner = 0
               /\ \A x \in rows.excl :
                     HasRow(rows, x.product, x.jo) /\ \A jo \in x.paid : HasRow(rows, x.product, jo)
<1> DEFINE rows == RowsOf(doc, found)
           n(k) == Number(found, k)
<1>1. /\ rows.ref = UNION {RefRows(doc, found[k], n(k)) : k \in DOMAIN found}
      /\ rows.excl = UNION {ExclusionRows(doc, found[k], n(k)) : k \in DOMAIN found}
  BY DEF RowsOf
<1>2. \A k \in DOMAIN found : \A jo :
          HasRow(rows, n(k), jo) <=> \E i \in DOMAIN found[k].clauses : found[k].clauses[i].jo = jo
  BY RowsOfPolicy DEF WellFound
<1> HIDE DEF rows, n
<1>3. ASSUME NEW r \in rows.ref
      PROVE  /\ HasRow(rows, r.product, r.jo)
             /\ r.type = "article" =>
                   r.owner = r.product /\ (r.resolved <=> HasRow(rows, r.owner, r.no))
             /\ r.type = "annex" => r.owner = 0
  <2>1. PICK k \in DOMAIN found : r \in RefRows(doc, found[k], n(k))
    BY <1>1, <1>3
  <2>2. /\ r.product = n(k)
        /\ \E i \in DOMAIN found[k].clauses : found[k].clauses[i].jo = r.jo
        /\ r.type = "article" =>
              /\ r.owner = n(k)
              /\ r.resolved <=> \E i \in DOMAIN found[k].clauses : found[k].clauses[i].jo = r.no
        /\ r.type = "annex" => r.owner = 0
    BY <2>1, RefRowHolds
  <2>3. HasRow(rows, n(k), r.jo)
    BY <1>2, <2>2
  <2>4. HasRow(rows, n(k), r.no) <=>
            \E i \in DOMAIN found[k].clauses : found[k].clauses[i].jo = r.no
    BY <1>2
  <2> QED
    BY <2>2, <2>3, <2>4
<1>4. ASSUME NEW x \in rows.excl
      PROVE  HasRow(rows, x.product, x.jo) /\ \A jo \in x.paid : HasRow(rows, x.product, jo)
  <2>1. PICK k \in DOMAIN found : x \in ExclusionRows(doc, found[k], n(k))
    BY <1>1, <1>4
  <2>2. DOMAIN found[k].clauses \in SUBSET Nat
    <3>1. Distinct(found[k].clauses)
      BY DEF WellFound
    <3>2. PICK m \in Nat : DOMAIN found[k].clauses = 1..m
      BY <3>1 DEF Distinct
    <3> QED
      BY <3>2
  <2>3. /\ x.product = n(k)
        /\ \E i \in DOMAIN found[k].clauses : found[k].clauses[i].jo = x.jo
        /\ \A jo \in x.paid : \E i \in DOMAIN found[k].clauses : found[k].clauses[i].jo = jo
    <3> DEFINE p == found[k]
    <3>1. x \in ExclusionRows(doc, p, n(k)) /\ DOMAIN p.clauses \in SUBSET Nat
      BY <2>1, <2>2
    <3> HIDE DEF p
    <3>2. /\ x.product = n(k)
          /\ \E i \in DOMAIN p.clauses : p.clauses[i].jo = x.jo
          /\ \A jo \in x.paid : \E i \in DOMAIN p.clauses : p.clauses[i].jo = jo
      BY <3>1, ExclusionRowHolds
    <3> QED
      BY <3>2 DEF p
  <2> QED
    BY <1>2, <2>3
<1> QED
  BY <1>3, <1>4 DEF rows

\* What a script finds in the edition at hand.
LEMMA FoundHere ==
    ASSUME NEW script \in Scripts, NEW e \in Editions
    PROVE  /\ WellFound(FoundIn[script][e])
           /\ RejectedIn[script][e] = Rejected(DocOf[e], FoundIn[script][e])
           /\ RowsIn[script][e] = RowsOf(DocOf[e], FoundIn[script][e])
<1>1. FoundIn[script][e] = Found(script, DocOf[e])
  BY DEF FoundIn
<1>2. WellFound(FoundIn[script][e])
  BY <1>1, TextsGiven, FoundWell
<1>3. RejectedIn[script][e] = Rejected(DocOf[e], FoundIn[script][e])
  BY DEF RejectedIn
<1>4. RowsIn[script][e] = RowsOf(DocOf[e], FoundIn[script][e])
  BY DEF RowsIn
<1> QED
  BY <1>2, <1>3, <1>4

\* No load is rejected for a key, and these are the tables after it.
LEMMA IngestStores ==
    ASSUME edition \in Editions, NEW script \in Scripts, Ingest(script)
    PROVE  LET found == FoundIn[script][edition]
               rows == RowsOf(DocOf[edition], found)
               ns == {r.product : r \in rows.product}
           IN  /\ WellFound(found)
               /\ db' = Stored(rows)
               /\ loaded' = [script |-> script, edition |-> edition, products |-> ns]
               /\ UNCHANGED <<edition, failed>>
<1> DEFINE found == FoundIn[script][edition]
           rows == RowsOf(DocOf[edition], found)
<1>1. WellFound(found) /\ RowsIn[script][edition] = rows
  BY FoundHere
<1>2. IsText(DocOf[edition])
  BY TextsGiven
<1>3. ~RejectedIn[script][edition]
  <2>1. RejectedIn[script][edition] = Rejected(DocOf[edition], found)
    BY FoundHere
  <2>2. ~Rejected(DocOf[edition], found)
    BY <1>1, <1>2, LoadAccepted
  <2> QED
    BY <2>1, <2>2
<1> QED
  BY <1>1, <1>3 DEF Ingest

\* A load keeps the invariant of the references.
LEMMA IngestResolves ==
    ASSUME StoreInv, NEW script \in Scripts, Ingest(script)
    PROVE  StoreInv'
<1> DEFINE found == FoundIn[script][edition]
           rows == RowsOf(DocOf[edition], found)
           ns == {r.product : r \in rows.product}
<1>1. /\ WellFound(found)
      /\ db' = Stored(rows)
      /\ UNCHANGED <<edition, failed>>
  BY IngestStores DEF StoreInv
<1>2. \A c \in rows.clause : c.product \in ns
  BY RowsOwned
<1>3. /\ \A r \in rows.ref :
            /\ HasRow(rows, r.product, r.jo)
            /\ r.type = "article" =>
                  r.owner = r.product /\ (r.resolved <=> HasRow(rows, r.owner, r.no))
            /\ r.type = "annex" => r.owner = 0
      /\ \A x \in rows.excl :
            HasRow(rows, x.product, x.jo) /\ \A jo \in x.paid : HasRow(rows, x.product, jo)
  BY <1>1, RowsResolve
<1> HIDE DEF found, rows
<1>4. /\ db'.clause = {c \in db.clause : c.product \notin ns} \cup rows.clause
      /\ db'.ref \subseteq {r \in db.ref : r.product \notin ns} \cup rows.ref
      /\ db'.excl = {x \in db.excl : x.product \notin ns} \cup rows.excl
  BY <1>1 DEF Stored
<1> HIDE DEF ns
<1>5. \A n, jo : n \in ns => (HasArticle(n, jo)' <=> HasRow(rows, n, jo))
  BY <1>4 DEF HasArticle, HasRow
<1>6. \A n, jo : n \notin ns => (HasArticle(n, jo)' <=> HasArticle(n, jo))
  BY <1>2, <1>4 DEF HasArticle
<1>7. \A n, jo : HasRow(rows, n, jo) => n \in ns
  BY <1>2 DEF HasRow
<1> DEFINE Held(r) == /\ HasArticle(r.product, r.jo)'
                      /\ r.type = "article" => /\ r.owner = r.product
                                               /\ r.resolved <=> HasArticle(r.owner, r.no)'
                      /\ r.type = "annex" => r.owner = 0
<1>8. ASSUME NEW r \in db'.ref
      PROVE  Held(r)
  <2>1. CASE r \in rows.ref
    <3>1. /\ HasRow(rows, r.product, r.jo)
          /\ r.type = "article" =>
                r.owner = r.product /\ (r.resolved <=> HasRow(rows, r.owner, r.no))
          /\ r.type = "annex" => r.owner = 0
      BY <1>3, <2>1
    <3>2. r.product \in ns
      BY <1>7, <3>1
    <3>3. /\ HasArticle(r.product, r.jo)' <=> HasRow(rows, r.product, r.jo)
          /\ HasArticle(r.product, r.no)' <=> HasRow(rows, r.product, r.no)
      BY <1>5, <3>2
    <3> QED
      BY <3>1, <3>3
  <2>2. CASE r \in db.ref /\ r.product \notin ns
    <3>1. /\ HasArticle(r.product, r.jo)
          /\ r.type = "article" =>
                r.owner = r.product /\ (r.resolved <=> HasArticle(r.owner, r.no))
          /\ r.type = "annex" => r.owner = 0
      BY <2>2 DEF StoreInv, RefsOwned, ArticlesResolve
    <3>2. /\ HasArticle(r.product, r.jo)' <=> HasArticle(r.product, r.jo)
          /\ HasArticle(r.product, r.no)' <=> HasArticle(r.product, r.no)
      BY <1>6, <2>2
    <3> QED
      BY <3>1, <3>2
  <2> QED
    BY <1>4, <2>1, <2>2
<1>9. ASSUME NEW x \in db'.excl
      PROVE  HasArticle(x.product, x.jo)' /\ \A jo \in x.paid : HasArticle(x.product, jo)'
  <2>1. CASE x \in rows.excl
    <3>1. HasRow(rows, x.product, x.jo) /\ \A jo \in x.paid : HasRow(rows, x.product, jo)
      BY <1>3, <2>1
    <3> QED
      BY <1>5, <1>7, <3>1
  <2>2. CASE x \in db.excl /\ x.product \notin ns
    <3>1. HasArticle(x.product, x.jo) /\ \A jo \in x.paid : HasArticle(x.product, jo)
      BY <2>2 DEF StoreInv, ArticlesResolve
    <3> QED
      BY <1>6, <2>2, <3>1
  <2> QED
    BY <1>4, <2>1, <2>2
<1>10. RefsOwned'
  BY <1>8 DEF RefsOwned
<1>11. ArticlesResolve'
  <2>1. \A r \in db'.ref :
            /\ HasArticle(r.product, r.jo)'
            /\ r.type = "article" => (r.resolved <=> HasArticle(r.owner, r.no)')
    BY <1>8
  <2> QED
    BY <1>9, <2>1 DEF ArticlesResolve, HasArticle
<1> QED
  BY <1>1, <1>10, <1>11 DEF StoreInv, KeysHold

\* Whatever the documents and however often and from whatever edition policies
\* are loaded: the invariant of the references.
THEOREM StoreInvariant == Spec => []StoreInv
<1>1. Init => StoreInv
  BY DEF Init, StoreInv, KeysHold, RefsOwned, ArticlesResolve
<1>2. StoreInv /\ [Next]_vars => StoreInv'
  <2> SUFFICES ASSUME StoreInv, [Next]_vars
               PROVE  StoreInv'
    OBVIOUS
  <2>1. ASSUME NEW script \in Scripts, Ingest(script)
        PROVE  StoreInv'
    BY <2>1, IngestResolves
  <2>2. CASE ~\E script \in Scripts : Ingest(script)
    <3>1. edition' \in Editions /\ UNCHANGED <<db, failed>>
      BY <2>2 DEF Next, vars, StoreInv, Revise, ReadClauses, ReadAnnexes, DeletePoints,
                  UploadSome, UploadRest, Crash
    <3> QED
      BY <3>1 DEF StoreInv, KeysHold, RefsOwned, ArticlesResolve, HasArticle
  <2> QED
    BY <2>1, <2>2
<1> QED
  BY <1>1, <1>2, PTL DEF Spec

\* psql never rejects a load because of a key that is there twice.
THEOREM KeysAlwaysHold == Spec => []KeysHold
<1>1. StoreInv => KeysHold
  BY DEF StoreInv
<1> QED
  BY <1>1, StoreInvariant, PTL

-----------------------------------------------------------------------------
\* Annexes.

\* A load leaves the annexes of the edition at hand.
LEMMA IngestLoadsAnnexes ==
    ASSUME OrdinaryFound, edition \in Editions, NEW script \in Scripts, Ingest(script)
    PROVE  AnnexesLoaded'
<1> DEFINE found == FoundIn[script][edition]
           doc == DocOf[edition]
           rows == RowsOf(doc, found)
           ns == {r.product : r \in rows.product}
<1>1. db' = Stored(rows) /\ loaded'.edition = edition
  BY IngestStores
<1>2. 0 \in ns
  <2>1. PICK k \in DOMAIN found : ~found[k].special
    BY DEF OrdinaryFound
  <2>2. ProductRow(doc, found[k], Number(found, k)).product = 0
    BY <2>1 DEF ProductRow, Number
  <2>3. ProductRow(doc, found[k], Number(found, k)) \in rows.product
    BY DEF RowsOf
  <2> QED
    BY <2>2, <2>3
<1>3. rows.annex = {AnnexRow(doc, a) : a \in Range(Annexes(doc))}
  BY DEF RowsOf
<1>4. db'.annex = rows.annex
  BY <1>1, <1>2 DEF Stored
<1> HIDE DEF rows, ns, found
<1>5. IsText(doc)
  BY TextsGiven
<1> HIDE DEF doc
<1>6. ASSUME NEW l \in Range(doc), l.kind = "annex", ~l.dots
      PROVE  \E a \in rows.annex : a.product = 0 /\ a.no = l.no
  <2>1. PICK i \in DOMAIN doc : l = doc[i]
    BY <1>6 DEF Range
  <2>2. PICK a \in DOMAIN Annexes(doc) : Annexes(doc)[a].no = l.no
    BY <1>5, <1>6, <2>1, AnnexesListed
  <2> DEFINE annex == Annexes(doc)[a]
  <2>3. AnnexRow(doc, annex) \in rows.annex
    BY <1>3 DEF Range
  <2>4. AnnexRow(doc, annex).product = 0 /\ AnnexRow(doc, annex).no = l.no
    BY <2>2 DEF AnnexRow
  <2> QED
    BY <2>3, <2>4
<1>7. DocOf' = DocOf
  BY DEF DocOf, Doc
<1> QED
  BY <1>1, <1>4, <1>6, <1>7 DEF AnnexesLoaded, doc

\* References to articles and to annexes name what is in the tables, however
\* often and from whatever edition policies were loaded, when every script
\* finds an article of the ordinary policy in every edition.
THEOREM RefsAlwaysResolve ==
    ASSUME OrdinaryFound
    PROVE  Spec => []RefsResolve
<1>1. Init => AnnexesLoaded
  BY DEF Init, AnnexesLoaded
<1>2. StoreInv /\ AnnexesLoaded /\ [Next]_vars => AnnexesLoaded'
  <2> SUFFICES ASSUME StoreInv, AnnexesLoaded, [Next]_vars
               PROVE  AnnexesLoaded'
    OBVIOUS
  <2>1. ASSUME NEW script \in Scripts, Ingest(script)
        PROVE  AnnexesLoaded'
    BY <2>1, IngestLoadsAnnexes DEF StoreInv
  <2>2. CASE ~\E script \in Scripts : Ingest(script)
    <3>1. UNCHANGED <<db, loaded>>
      BY <2>2 DEF Next, vars, Revise, ReadClauses, ReadAnnexes, DeletePoints,
                  UploadSome, UploadRest, Crash
    <3> QED
      BY <3>1 DEF AnnexesLoaded
  <2> QED
    BY <2>1, <2>2
<1>3. StoreInv /\ AnnexesLoaded => RefsResolve
  BY DEF StoreInv, RefsOwned, AnnexesLoaded, AnnexesResolve, RefsResolve
<1> QED
  BY <1>1, <1>2, <1>3, StoreInvariant, PTL DEF Spec
=============================================================================
