---------------------------- MODULE ClauseStore ----------------------------
(***************************************************************************)
(* The tables of articles and annexes, and their index.                    *)
(*                                                                         *)
(* An insurer publishes a document in editions; an operator loads the      *)
(* edition at hand with one of three scripts (ingest_compound.py with      *)
(* markdown or with KB's JSON, ingest_product.py), each of which prints    *)
(* one transaction for psql, and indexes the tables with                   *)
(* index_insurance.py, which reads articles and annexes in two statements, *)
(* deletes the points of every product it read and uploads the new ones.   *)
(* A run of it may die at any step, and a load may commit between two.     *)
(*                                                                         *)
(* A product is 0 for the document's ordinary policy (the base) and n for  *)
(* the n-th special policy (base_Tn).                                      *)
(***************************************************************************)
EXTENDS Clauses

CONSTANTS
    Layouts,    \* a name -> the parts of a document in that layout, each a
                \* sequence of lines with: of, the policy the line belongs to,
                \* or "" for contents, titles of sections, laws and annexes
    Editions,   \* the editions: a layout and the parts that are in it
    Searched,   \* the editions whose tables are indexed, which is done alike for all
    MaxLoads,   \* how many loads
    MaxRuns     \* how many index runs

ASSUME ClauseStoreAssumption ==
    /\ \A e \in Editions : e.layout \in DOMAIN Layouts /\ e.parts \subseteq DOMAIN Layouts[e.layout]
    /\ Searched \subseteq Editions /\ MaxLoads \in Nat /\ MaxRuns \in Nat

\* The lines of an edition; at: where a line stands in the layout.
Doc(e) ==
    FlattenSeq([n \in DOMAIN Layouts[e.layout] |->
        IF n \in e.parts
        THEN [k \in DOMAIN Layouts[e.layout][n] |->
                 [at |-> <<n, k>>] @@ Layouts[e.layout][n][k]]
        ELSE <<>>])

DocOf == [e \in Editions |-> Doc(e)]

\* Articles have numbers.
ASSUME LinesAssumption ==
    \A e \in Editions :
        /\ Doc(e) \in Seq(Range(Doc(e)))
        /\ \A l \in Range(Doc(e)) : l.jo \in Nat

Scripts == {"compound", "kb", "product"}

VARIABLES
    edition,    \* the edition at hand
    db,         \* product, clause, ref, excl, annex: the rows of the tables
    loaded,     \* the load committed last: script, edition, products; or none
    failed,     \* psql rejected a load
    points,     \* the points of the index
    run,        \* the index run: stage, products asked for, items read, products left
    stale,      \* products loaded since the index run began to read
    indexed,    \* products whose index is said to be up to date
    loads, runs \* how many there were

vars == <<edition, db, loaded, failed, points, run, stale, indexed, loads, runs>>

Idle == [stage |-> "idle", asked |-> {}, items |-> {}, left |-> {}]

-----------------------------------------------------------------------------
(* Loading *)

\* The articles of each policy.  A policy without any is not loaded.
Parsed(doc, sections) ==
    LET clauses == [k \in DOMAIN sections |->
                       ParseRegion(doc, sections[k].from, sections[k].to)]
        kept == InOrder({k \in DOMAIN sections : clauses[k] # <<>>})
    IN  [n \in DOMAIN kept |->
            [name |-> sections[kept[n]].name, special |-> sections[kept[n]].special,
             clauses |-> clauses[kept[n]]]]

\* The policies that a script finds, with their articles.
Found(script, doc) ==
    CASE script = "compound" -> Parsed(doc, CompoundSections(doc))
      [] script = "kb" -> Parsed(doc, KbSections(doc))
      [] script = "product" ->
            <<[name |-> 0, special |-> FALSE, clauses |-> ParseDocument(doc)]>>

FoundIn == [script \in Scripts |-> [e \in Editions |-> Found(script, DocOf[e])]]

\* The number of the k-th policy that was found.
Number(found, k) ==
    IF found[k].special THEN Cardinality({j \in 1..k : found[j].special}) ELSE 0

LinesAt(doc, from, to) == {doc[i].at : i \in from..to}

ProductRow(doc, p, n) ==
    [product |-> n, name |-> IF p.name = 0 THEN <<>> ELSE doc[p.name].at]

ClauseRows(doc, p, n) ==
    {[product |-> n, jo |-> c.jo, at |-> doc[c.from].at, body |-> LinesAt(doc, c.from, c.to)] :
        c \in Range(p.clauses)}

\* Mutant: a special policy's annexes are looked for in that policy.
OwnAnnexes(n) == n

\* Annexes belong to the document.
AnnexOwner(n) == 0

\* By its title an article adopts another policy, or by a line of it.
Adopts(doc, c) == c.topic = "adoption" \/ \E i \in c.from .. c.to : doc[i].follows

\* An article of the policy is there or not; an annex is taken to be; what an
\* adopted policy says is not in the document.
RefRow(n, c, r, jos) ==
    [product |-> n, jo |-> c.jo, type |-> r[1],
     owner |-> IF r[1] = "annex" THEN AnnexOwner(n) ELSE n, no |-> r[2],
     resolved |-> r[1] = "annex" \/ r[2] \in jos]

RefRows(doc, p, n) ==
    LET jos == {p.clauses[k].jo : k \in DOMAIN p.clauses}
        of(c) == {RefRow(n, c, r, jos) : r \in Refs(doc, c)}
                 \cup (IF Adopts(doc, c)
                       THEN {[product |-> n, jo |-> c.jo, type |-> "adoption",
                              owner |-> 0, no |-> 0, resolved |-> FALSE]}
                       ELSE {})
    IN  UNION {of(p.clauses[k]) : k \in DOMAIN p.clauses}

ExclusionRows(doc, p, n) ==
    {[product |-> n, paid |-> PaidBy(p.clauses), jo |-> c.jo, kind |-> ExclusionKind(doc, c)] :
        c \in {d \in Range(p.clauses) : ExclusionKind(doc, d) # "none"}}

AnnexRow(doc, a) == [product |-> 0, no |-> a.no, body |-> LinesAt(doc, a.from, a.to)]

\* The numbers of articles, or of annexes, have one that is there twice.
Twice(s) == Cardinality(Range(s)) < Len(s)

Numbers(clauses) == [k \in DOMAIN clauses |-> clauses[k].jo]

Rejected(doc, found) ==
    \E k \in DOMAIN found :
        \/ Twice(Numbers(found[k].clauses))
        \/ ~found[k].special /\ Twice([a \in DOMAIN Annexes(doc) |-> Annexes(doc)[a].no])

\* The rows of the policies that were found.
RowsOf(doc, found) ==
    LET n(k) == Number(found, k)
        all == DOMAIN found
    IN  [product |-> {ProductRow(doc, found[k], n(k)) : k \in all},
         clause |-> UNION {ClauseRows(doc, found[k], n(k)) : k \in all},
         ref |-> UNION {RefRows(doc, found[k], n(k)) : k \in all},
         excl |-> UNION {ExclusionRows(doc, found[k], n(k)) : k \in all},
         annex |-> {AnnexRow(doc, a) : a \in Range(Annexes(doc))}]

RowsIn == [script \in Scripts |-> [e \in Editions |-> RowsOf(DocOf[e], FoundIn[script][e])]]

RejectedIn == [script \in Scripts |-> [e \in Editions |-> Rejected(DocOf[e], FoundIn[script][e])]]

\* The tables after a load: every policy's rows are deleted and inserted anew,
\* the references of the base with those of all its special policies, and the
\* annexes with the base.
Stored(rows) ==
    LET ns == {r.product : r \in rows.product}
        kept(t) == {r \in t : r.product \notin ns}
    IN  [product |-> kept(db.product) \cup rows.product,
         clause |-> kept(db.clause) \cup rows.clause,
         ref |-> (IF 0 \in ns THEN {} ELSE kept(db.ref)) \cup rows.ref,
         excl |-> kept(db.excl) \cup rows.excl,
         annex |-> IF 0 \in ns THEN rows.annex ELSE db.annex]

\* One transaction; psql leaves the tables alone when a statement fails.
Ingest(script) ==
    /\ loads < MaxLoads
    /\ loads' = loads + 1
    /\ IF RejectedIn[script][edition]
       THEN failed' = TRUE /\ UNCHANGED <<db, loaded, stale, indexed>>
       ELSE \E rows \in {RowsIn[script][edition]} :
              LET ns == {r.product : r \in rows.product}
              IN  /\ db' = Stored(rows)
                  /\ loaded' = [script |-> script, edition |-> edition, products |-> ns]
                  /\ stale' = IF run = Idle THEN {} ELSE stale \cup ns
                  /\ indexed' = indexed \ ns
                  /\ UNCHANGED failed
    /\ UNCHANGED <<edition, points, run, runs>>

\* A new edition, with a part more or less, is put in the place of the old one.
Revise ==
    /\ loaded.script # "none" /\ loaded.edition = edition
    /\ \E e \in Editions :
           /\ e.layout = edition.layout
           /\ Cardinality(e.parts \ edition.parts) + Cardinality(edition.parts \ e.parts) = 1
           /\ edition' = e
    /\ UNCHANGED <<db, loaded, failed, points, run, stale, indexed, loads, runs>>

-----------------------------------------------------------------------------
(* Indexing *)

\* What is read of the articles and of the annexes of the products asked for.
ClauseItems(asked) ==
    {[product |-> r.product, kind |-> "clause", no |-> r.jo, body |-> r.body] :
        r \in {c \in db.clause : c.product \in asked}}

AnnexItems(asked) ==
    {[product |-> r.product, kind |-> "annex", no |-> r.no, body |-> r.body] :
        r \in {a \in db.annex : a.product \in asked}}

Products(items) == {i.product : i \in items}

\* For all products, or for some.
ReadClauses ==
    /\ run = Idle /\ runs < MaxRuns /\ edition \in Searched
    /\ \E asked \in {Products(db.product)} \cup {{p} : p \in Products(db.product)} :
           run' = [stage |-> "annexes", asked |-> asked, items |-> ClauseItems(asked), left |-> {}]
    /\ stale' = {}
    /\ runs' = runs + 1
    /\ UNCHANGED <<edition, db, loaded, failed, points, indexed, loads>>

\* The second statement sees what was committed before it.
ReadAnnexes ==
    /\ run.stage = "annexes"
    /\ LET items == run.items \cup AnnexItems(run.asked)
       IN  run' = IF items = {} THEN Idle
                  ELSE [run EXCEPT !.stage = "delete", !.items = items, !.left = Products(items)]
    /\ UNCHANGED <<edition, db, loaded, failed, points, stale, indexed, loads, runs>>

\* Mutant: points with the same id are overwritten, so nothing is deleted.
DeleteNothing ==
    /\ run.stage = "delete" /\ run.left # {}
    /\ run' = [run EXCEPT !.left = @ \ {Min(@)}]
    /\ indexed' = indexed \ {Min(run.left)}
    /\ UNCHANGED <<edition, db, loaded, failed, points, stale, loads, runs>>

\* The points of the next product.
DeletePoints ==
    /\ run.stage = "delete" /\ run.left # {}
    /\ points' = {p \in points : p.product # Min(run.left)}
    /\ run' = [run EXCEPT !.left = @ \ {Min(@)}]
    /\ indexed' = indexed \ {Min(run.left)}
    /\ UNCHANGED <<edition, db, loaded, failed, stale, loads, runs>>

\* A point's id is made from its article's or its annex's, so that it takes
\* the place of the point that has it.
Uploaded(items) ==
    {p \in points : \A i \in items : <<p.product, p.kind, p.no>> # <<i.product, i.kind, i.no>>}
        \cup items

\* Two processes upload batches, in any order.
UploadSome ==
    /\ run.stage = "delete" /\ run.left = {}
    /\ \E kind \in {"clause", "annex"} :
           points' = Uploaded({i \in run.items : i.kind = kind})
    /\ run' = [run EXCEPT !.stage = "upload"]
    /\ UNCHANGED <<edition, db, loaded, failed, stale, indexed, loads, runs>>

UploadRest ==
    /\ run.stage = "upload"
    /\ points' = Uploaded(run.items)
    /\ indexed' = (indexed \cup Products(run.items)) \ stale
    /\ run' = Idle
    /\ stale' = {}
    /\ UNCHANGED <<edition, db, loaded, failed, loads, runs>>

\* The run dies, or the embeddings are not to be had.
Crash ==
    /\ run # Idle
    /\ run' = Idle
    /\ stale' = {}
    /\ UNCHANGED <<edition, db, loaded, failed, points, indexed, loads, runs>>

-----------------------------------------------------------------------------

Init ==
    /\ edition \in Editions
    /\ db = [product |-> {}, clause |-> {}, ref |-> {}, excl |-> {}, annex |-> {}]
    /\ loaded = [script |-> "none", edition |-> edition, products |-> {}]
    /\ failed = FALSE
    /\ points = {}
    /\ run = Idle
    /\ stale = {}
    /\ indexed = {}
    /\ loads = 0
    /\ runs = 0

Next ==
    \/ \E script \in Scripts : Ingest(script)
    \/ Revise
    \/ ReadClauses
    \/ ReadAnnexes
    \/ DeletePoints
    \/ UploadSome
    \/ UploadRest
    \/ Crash

Spec == Init /\ [][Next]_vars

-----------------------------------------------------------------------------
(* Properties *)

\* psql never rejects a load because of a key that is there twice: the numbers
\* of a policy's articles rise, and of the annexes with one number, which
\* special policies repeat, one is loaded.
KeysHold == ~failed

HasArticle(n, jo) == \E c \in db.clause : c.product = n /\ c.jo = jo

\* A reference to an article is resolved exactly when that article is among
\* the policy's, and what refers, what excludes and what pays are articles of
\* the policy.
ArticlesResolve ==
    /\ \A r \in db.ref :
           /\ HasArticle(r.product, r.jo)
           /\ r.type = "article" => (r.resolved <=> HasArticle(r.owner, r.no))
    /\ \A x \in db.excl :
           HasArticle(x.product, x.jo) /\ \A jo \in x.paid : HasArticle(x.product, jo)

\* A reference to an annex names the row the annex has if the document holds it.
AnnexesResolve ==
    \A r \in db.ref :
        r.type = "annex" /\ (\E l \in Range(DocOf[loaded.edition]) :
                                l.kind = "annex" /\ l.no = r.no /\ ~l.dots)
            => \E a \in db.annex : a.product = r.owner /\ a.no = r.no

\* Both, however often and from whatever edition policies were loaded.
RefsResolve == ArticlesResolve /\ AnnexesResolve

Of(p, items) == {i \in items : i.product = p}

\* The index of a product that was indexed since it was loaded tells what the
\* tables tell: no point of an article or annex of an earlier edition is left,
\* although loads and index runs overlap and index runs die half-way.
IndexTellsTables ==
    \A p \in indexed :
        Of(p, points) = ClauseItems({p}) \cup AnnexItems({p})

-----------------------------------------------------------------------------
(* Inductive invariants *)

\* Annexes belong to the ordinary policy.
AnnexesOwned == \A a \in db.annex : a.product = 0

\* What a run read of a product that was not loaded since is what the tables hold;
\* and from the delete to the end of the run, the index of a product that the
\* run replaces is not said to be up to date and holds nothing but what was read.
RunInv ==
    /\ edition \in Editions
    /\ DOMAIN run = DOMAIN Idle
    /\ run.stage \in {"idle", "annexes", "delete", "upload"}
    /\ run.stage = "upload" => run.left = {}
    /\ run.stage = "annexes" =>
          /\ Products(run.items) \subseteq run.asked
          /\ \A p \in run.asked \ stale : Of(p, run.items) = ClauseItems({p})
    /\ run.stage \in {"delete", "upload"} =>
          /\ \A p \in Products(run.items) \ stale :
                Of(p, run.items) = ClauseItems({p}) \cup AnnexItems({p})
          /\ \A p \in Products(run.items) \ run.left :
                p \notin indexed /\ Of(p, points) \subseteq run.items

IndexInv == AnnexesOwned /\ RunInv /\ IndexTellsTables

\* Whose the articles and annexes are that are referred to.
RefsOwned ==
    \A r \in db.ref :
        /\ r.type = "article" => r.owner = r.product
        /\ r.type = "annex" => r.owner = 0

StoreInv == edition \in Editions /\ KeysHold /\ RefsOwned /\ ArticlesResolve

\* The annexes in the tables are those of the edition that was loaded last.
\* Only where each script finds an article of the ordinary policy in each
\* edition (OrdinaryFound): the annexes are loaded with that policy.
AnnexesLoaded ==
    db.ref # {} =>
        \A l \in Range(DocOf[loaded.edition]) :
            l.kind = "annex" /\ ~l.dots => \E a \in db.annex : a.product = 0 /\ a.no = l.no

OrdinaryFound ==
    \A script \in Scripts : \A e \in Editions :
        \E k \in DOMAIN FoundIn[script][e] : ~FoundIn[script][e][k].special

=============================================================================
