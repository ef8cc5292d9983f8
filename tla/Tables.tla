------------------------------- MODULE Tables -------------------------------
(***************************************************************************)
(* The relational tables of the insurance documents                        *)
(* (db/schema_insurance.sql), the scripts that fill them, and the requests *)
(* that are answered from them: the SQL branches of POST /answer and the   *)
(* endpoints /payout, /terms, /coverage, /catalog, /waiting, /exclusion    *)
(* (router.py) with their repositories (repository.py).                    *)
(*                                                                         *)
(* A script is one transaction.  A request is a few statements, each of    *)
(* which sees what has been committed by then, with scripts in between.    *)
(* The extraction scripts read the documents anew, so that a new edition   *)
(* of a document reaches the tables piece by piece.                        *)
(***************************************************************************)
EXTENDS Facts, Routing

CONSTANTS
    Editions,      \* base product |-> the editions of its document, in order
    Rank,          \* base product |-> its place in the lists of the scripts
    PayoutBases,   \* DOC_PID
    KbBases,       \* KB_BASE_PID
    CancerBases,   \* KB_CANCER_DOCS
    Queries,       \* the questions asked
    Start,         \* the tables to start from, and the operations that led there
    MaxOps         \* bound: scripts run and editions published

Bases == DOMAIN Editions

ASSUME TablesAssumption ==
    /\ PayoutBases \subseteq Bases /\ CancerBases \subseteq KbBases /\ KbBases \subseteq Bases
    /\ PayoutBases \cap CancerBases = {}
    /\ None \notin Bases /\ Rank \in [Bases -> Nat]
    /\ \A b \in Bases : Len(Editions[b]) \in Nat \ {0} /\ DOMAIN Editions[b] = 1 .. Len(Editions[b])

VARIABLES
    text,     \* base |-> the edition its document is at
    db,       \* product, rules, excl, ranges: the tables
    since,    \* operation |-> the others that ran since it ran last
    ops,      \* how many ran
    ask,      \* the request being answered, or None
    branch,   \* the branch it is in
    read,     \* what the first statement of the branch gave, or None
    reply     \* the reply, or None

scriptVars == <<text, db, since, ops>>
vars == <<text, db, since, ops, ask, branch, read, reply>>

Doc(b, t) == Editions[b][t[b]]

-----------------------------------------------------------------------------
(* The scripts.  A product id is the base with 0, or with the number of the *)
(* subcontract.                                                             *)

Children(d, b) == {p \in DOMAIN d.product : p[1] = b /\ p[2] # 0}

NameIn(doc, n) == IF n = 0 THEN doc.name ELSE Numbered(doc)[n].name
ArticlesIn(doc, n) == IF n = 0 THEN doc.articles ELSE Numbered(doc)[n].articles

Pids(doc, b) == {<<b, 0>>} \cup {<<b, n>> : n \in DOMAIN Numbered(doc)}

\* Mutant: facts the document does not restate survive.
ProductsIngestedOver(d, b, doc) ==
    [p \in DOMAIN d.product \cup Pids(doc, b) |->
        IF p \in Pids(doc, b)
        THEN [name |-> NameIn(doc, p[2]), cooling |-> None, refers |-> p[2] # 0 \/ doc.refers,
              waiting |-> IF p \in DOMAIN d.product THEN d.product[p].waiting ELSE None]
        ELSE d.product[p]]

\* Products are inserted or overwritten; those of an earlier edition stay.
ProductsIngested(d, b, doc) ==
    [p \in DOMAIN d.product \cup Pids(doc, b) |->
        IF p \in Pids(doc, b)
        THEN [name |-> NameIn(doc, p[2]), cooling |-> None, refers |-> p[2] # 0 \/ doc.refers,
              waiting |-> None]
        ELSE d.product[p]]

\* Mutant: the exclusions are inserted before the clauses, whose replacement
\* deletes them.
ExclusionsIngestedFirst(d, b, doc) == {x \in d.excl : x.pid \notin Pids(doc, b)}

\* The exclusions of the products in the document are replaced.
ExclusionsIngested(d, b, doc) ==
    {x \in d.excl : x.pid \notin Pids(doc, b)}
    \cup UNION {{[pid |-> p, article |-> a] : a \in ArticlesIn(doc, p[2])} : p \in Pids(doc, b)}

\* ingest_compound, ingest_product: one transaction.
Ingested(d, b, doc) ==
    [d EXCEPT !.product = ProductsIngested(d, b, doc), !.excl = ExclusionsIngested(d, b, doc)]

\* The foreign keys: rows are only inserted for products that exist.
Exist(d, bases) == \A b \in bases : <<b, 0>> \in DOMAIN d.product

RateRow(b, r) ==
    [pid |-> <<b, 0>>, coverage |-> r.coverage, cause |-> r.cause, age_band |-> r.age_band,
     period_bucket |-> r.period_bucket, rate |-> r.rate, reduction |-> None, source |-> "rule"]

\* load_payout: all rows are deleted, whoever inserted them.
PayoutsLoaded(d, t) ==
    [d EXCEPT !.rules = UNION {{RateRow(b, r) : r \in Payouts(Doc(b, t))} : b \in PayoutBases}]

RangeRow(b, r) ==
    [pid |-> <<b, 0>>, id |-> 100 * Rank[b] + r.id, coverage |-> r.coverage, lo |-> r.lo, hi |-> r.hi]

\* load_coverage: all rows are deleted, the other insurer's as well.
CoverageLoaded(d, t) ==
    [d EXCEPT !.ranges = UNION {{RangeRow(b, r) : r \in LabelledRanges(Doc(b, t))} : b \in PayoutBases}]

\* What load_kb_coverage has for a product, and the products it has rows for.
SpecificRows(b, t) == {RangeRow(b, r) : r \in SpecificRanges(Doc(b, t).table)}

Planned(t) == {b \in CancerBases : SpecificRows(b, t) # {}}

\* load_kb_coverage: the rows of these products are replaced; a product whose
\* document yields none keeps those it has.
KbCoverageLoaded(d, t) ==
    [d EXCEPT !.ranges =
        (d.ranges \ UNION {{r \in d.ranges : r.pid = <<b, 0>>} : b \in Planned(t)})
        \cup UNION {SpecificRows(b, t) : b \in CancerBases}]

\* The facts of a document that load_waiting puts down to a subcontract.
FactsFor(d, t, p) ==
    LET subs == [c \in Children(d, p[1]) |-> d.product[c].name]
    IN  {f \in WaitingFacts(Doc(p[1], t)) : p \in Match(f.name, subs)}

ReductionRow(p, f) ==
    [pid |-> p, coverage |-> f.name, cause |-> None, age_band |-> None, period_bucket |-> None,
     rate |-> None, reduction |-> f.reduction, source |-> "kb_table"]

Reductions(d, t) ==
    UNION {{ReductionRow(p, f) : f \in {g \in FactsFor(d, t, p) : g.reduction # None}} :
              p \in UNION {Children(d, b) : b \in KbBases}}

\* A reduction takes the place of that of the same coverage.
ReductionsLoaded(d, t) ==
    {r \in d.rules : ~ /\ r.source = "kb_table"
                       /\ \E s \in Reductions(d, t) : s.pid = r.pid /\ s.coverage = r.coverage}
    \cup Reductions(d, t)

\* The last waiting period told of a subcontract.
WaitsLoaded(d, t) ==
    [p \in DOMAIN d.product |->
        LET timed == IF p[1] \in KbBases /\ p[2] # 0
                     THEN {f \in FactsFor(d, t, p) : f.waiting # None} ELSE {}
        IN  IF timed = {} THEN d.product[p]
            ELSE [d.product[p] EXCEPT !.waiting =
                    (CHOOSE f \in timed : \A g \in timed : g.at <= f.at).waiting]]

\* load_waiting.
WaitingLoaded(d, t) ==
    [d EXCEPT !.product = WaitsLoaded(d, t), !.rules = ReductionsLoaded(d, t)]

\* load_terms: the main policies; one that does not state its withdrawal period
\* is noted to refer to another.
TermsLoaded(d, t) ==
    [d EXCEPT !.product = [p \in DOMAIN d.product |->
        IF p[2] # 0 THEN d.product[p]
        ELSE LET days == Withdrawal(Doc(p[1], t).days)
             IN  [d.product[p] EXCEPT !.cooling = days,
                                      !.refers = @ \/ days = None]]]

Empty == [product |-> <<>>, rules |-> {}, excl |-> {}, ranges |-> {}]

-----------------------------------------------------------------------------
(* Requests *)

Order == <<"payout", "terms", "coverage", "catalog", "waiting", "exclusion">>

\* An endpoint takes the product it is given before the brand in the question.
Scope(q) == IF q.product # None THEN q.product ELSE BaseOf(q.words)

\* The semantic router is asked where no gate is tripped.
Gates(q) == IF q.gates = {} THEN SemanticRoute(q.sims) ELSE q.gates

\* The branches a request visits: one for an endpoint of its own.
Visits(q, i) == IF q.via = "answer" THEN Order[i] \in Gates(q) ELSE Order[i] = q.via

\* The next branch, or the one behind the last: the search of the corpus.
NextBranch(q, i) ==
    LET next == {j \in DOMAIN Order : j > i /\ Visits(q, j)}
    IN  IF next = {} THEN Len(Order) + 1 ELSE CHOOSE j \in next : \A k \in next : j <= k

\* Mutant: the rules of every product.
RulesOfAll(d, b) == d.rules

\* get_rules: the product and its subcontracts, or everything.
Rules(d, b) == {r \in d.rules : b = None \/ r.pid[1] = b}

\* get_exclusions.
Exclusions(d, p) == {x.article : x \in {y \in d.excl : y.pid = p}}

\* get_ranges: this very product, or everything.
Ranges(d, b) == {r \in d.ranges : b = None \/ r.pid = <<b, 0>>}

\* get_terms: the product, or any main policy whose name holds the word.
TermsOf(d, b, hint) ==
    IF b # None THEN {<<b, 0>>} \cap DOMAIN d.product
    ELSE {p \in DOMAIN d.product : p[2] = 0 /\ hint # None /\ <<hint, d.product[p].name>> \in Within}

\* list_catalog.
Catalog(d, b) == {d.product[p].name : p \in Children(d, b)}

\* get_waiting_facts: the subcontracts, joined with their reductions.
WaitingRows(d, b) ==
    {w \in UNION {{[pid |-> p, name |-> d.product[p].name, waiting |-> d.product[p].waiting,
                    reduction |-> x] :
                      x \in LET rs == {r.reduction : r \in {s \in d.rules :
                                             s.pid = p /\ s.source = "kb_table"}}
                            IN  IF rs = {} THEN {None} ELSE rs} : p \in Children(d, b)} :
        w.waiting # None \/ w.reduction # None}

Current == IF branch \in DOMAIN Order THEN Order[branch] ELSE "search"

Arrive ==
    /\ ask = None \/ reply # None
    /\ \E q \in Queries : ask' = q /\ branch' = NextBranch(q, 0)
    /\ read' = None /\ reply' = None
    /\ UNCHANGED scriptVars

Waits(b) == ask # None /\ reply = None /\ Current = b

Give(kind, pids, told) ==
    /\ reply' = [kind |-> kind, pids |-> pids, told |-> told]
    /\ UNCHANGED <<scriptVars, ask, branch, read>>

Keep(r) == read' = r /\ UNCHANGED <<scriptVars, ask, branch, reply>>

\* A branch that finds nothing leaves the question to the next one.
Leave ==
    /\ branch' = NextBranch(ask, branch) /\ read' = None
    /\ UNCHANGED <<scriptVars, ask, reply>>

\* No branch has an answer: the corpus is searched, or the endpoint says so.
NoFact == Waits("search") /\ Give("none", {}, {})

PayoutRules ==
    /\ Waits("payout") /\ read = None
    /\ LET found == Selected(Rules(db, Scope(ask)), ask.words, ask.says)
       IN  IF found = {} THEN Leave ELSE \E r \in found : Keep([rate |-> r])

PayoutExclusions ==
    /\ Waits("payout") /\ read # None
    /\ Give("payout", {read.rate.pid},
            [rate |-> read.rate, articles |-> Exclusions(db, read.rate.pid)])

Terms ==
    /\ Waits("terms")
    /\ LET found == TermsOf(db, Scope(ask), TermsHint(ask.words))
       IN  IF found = {} THEN Leave
           ELSE \E p \in found : Give("terms", {p}, TermsTold(db.product[p]))

CoverageRanges ==
    /\ Waits("coverage") /\ read = None
    /\ LET ranges == Ranges(db, Scope(ask))
       IN  IF CodeOf(ask) = None \/ ranges = {} THEN Leave
           ELSE Keep([verdict |-> Judge(CodeOf(ask), ranges, CoverageOf(ask)),
                      covering |-> Covering(ranges, CodeOf(ask))])

\* _coverage_answer_reconciled: what the coverage that does pay pays.
CoverageRate ==
    /\ Waits("coverage") /\ read # None
    /\ LET pays == Effective(read.verdict)
           found == IF pays = None THEN {}
                    ELSE Selected(Rules(db, Scope(ask)), Mentions(pays), {})
       IN  \E r \in IF found = {} THEN {None} ELSE found :
              Give("coverage", IF r = None THEN {} ELSE {r.pid},
                   [verdict |-> read.verdict, rate |-> r, covering |-> read.covering])

CatalogNames ==
    /\ Waits("catalog")
    /\ LET b == Scope(ask)
           found == IF b = None THEN {} ELSE Covered(Catalog(db, b), ask.words)
       IN  IF found = {} THEN Leave ELSE Give("catalog", {<<b, 0>>}, found)

Waiting ==
    /\ Waits("waiting")
    /\ LET b == Scope(ask)
           found == IF b = None THEN {} ELSE Picked(WaitingRows(db, b), ask.words)
       IN  IF found = {} THEN Leave ELSE \E w \in found : Give("waiting", {w.pid}, w)

ExclusionProduct ==
    /\ Waits("exclusion") /\ read = None
    /\ LET found == TermsOf(db, Scope(ask), TermsHint(ask.words))
       IN  IF found = {} THEN Leave
           ELSE \E p \in found : Keep([pid |-> p, refers |-> db.product[p].refers])

\* The endpoint tells the reference to the main policy even without an article.
ExclusionArticles ==
    /\ Waits("exclusion") /\ read # None
    /\ LET found == Exclusions(db, read.pid)
       IN  IF found = {} /\ (ask.via = "answer" \/ ~read.refers) THEN Leave
           ELSE Give("exclusion", {read.pid}, ExclusionsTold(found, read.refers))

-----------------------------------------------------------------------------
(* Scripts and editions between the statements of requests. *)

requestVars == <<ask, branch, read, reply>>

Ran(s, op) == [o \in DOMAIN s \cup {op} |-> IF o = op THEN {} ELSE s[o] \cup {op}]

Run(op, d) ==
    /\ ops < MaxOps
    /\ ops' = ops + 1
    /\ db' = d
    /\ since' = Ran(since, op)
    /\ UNCHANGED requestVars

\* A new edition of a document is published; no table changes.
Revise(b) ==
    /\ text[b] < Len(Editions[b])
    /\ text' = [text EXCEPT ![b] = @ + 1]
    /\ Run(<<"revise", b>>, db)

Ingest(b) == Run(<<"ingest", b>>, Ingested(db, b, Doc(b, text))) /\ UNCHANGED text

\* A load whose foreign keys fail is rolled back.
LoadPayout ==
    /\ Exist(db, PayoutBases)
    /\ Run(<<"load_payout">>, PayoutsLoaded(db, text)) /\ UNCHANGED text

LoadCoverage ==
    /\ Exist(db, PayoutBases)
    /\ Run(<<"load_coverage">>, CoverageLoaded(db, text)) /\ UNCHANGED text

LoadKbCoverage ==
    /\ Run(<<"load_kb_coverage">>, KbCoverageLoaded(db, text)) /\ UNCHANGED text
    /\ Exist(db, Planned(text))

LoadWaiting == Run(<<"load_waiting">>, WaitingLoaded(db, text)) /\ UNCHANGED text

LoadTerms == Run(<<"load_terms">>, TermsLoaded(db, text)) /\ UNCHANGED text

Init ==
    /\ text = [b \in Bases |-> 1]
    /\ \E s \in Start : db = s.db /\ since = s.since
    /\ ops = 0
    /\ ask = None /\ branch = 0 /\ read = None /\ reply = None

Next ==
    \/ \E b \in Bases : Revise(b) \/ Ingest(b)
    \/ LoadPayout \/ LoadCoverage \/ LoadKbCoverage \/ LoadWaiting \/ LoadTerms
    \/ Arrive \/ NoFact
    \/ PayoutRules \/ PayoutExclusions \/ Terms
    \/ CoverageRanges \/ CoverageRate \/ CatalogNames \/ Waiting
    \/ ExclusionProduct \/ ExclusionArticles

Spec == Init /\ [][Next]_vars

-----------------------------------------------------------------------------
Replied(kind) == reply # None /\ reply.kind = kind

\* A question that names its product is answered from that product and its
\* subcontracts alone, whatever is loaded in between (router.py 355-360 and
\* 829-836: another insurer's rates were once told).
OwnProduct ==
    reply # None /\ Scope(ask) # None => \A p \in reply.pids : p[1] = Scope(ask)

\* A rate is never told without the exclusions of its product: those of one
\* edition of its document, the articles being replaced while requests run
\* (router.py 364: they are attached by force).
ExclusionsAttached ==
    Replied("payout") =>
        LET p == reply.told.rate.pid
        IN  \E e \in 1 .. text[p[1]] :
               reply.told.articles = ArticlesIn(Editions[p[1]][e], p[2])

\* The rate in a coverage answer is not that of the coverage the answer has
\* just refused, but of the one it points to (router.py 159-162).
NoContradiction ==
    Replied("coverage") /\ reply.told.rate # None =>
        LET v == reply.told.verdict
            r == reply.told.rate
        IN  /\ v.verdict # "undecided"
            /\ v.verdict = "not_covered" => r.coverage # v.coverage
            /\ \E n \in Mentions(Effective(v)) : <<n, r.coverage>> \in Within

\* No keyword in the question is a longer form of the coverage.
MostSpecificRate(rate) ==
    \A i \in DOMAIN Keywords :
        Keywords[i] \in ask.words /\ <<rate.coverage, Keywords[i]>> \in Within
        => Keywords[i] = rate.coverage

\* The rate told is of the most specific coverage the question names: no name in
\* the question is a longer form of its coverage (payout_sql.py 20-28: a rate
\* five times too high was once told).
MostSpecific == Replied("payout") => MostSpecificRate(reply.told.rate)

OneCover(verdict, covering) == verdict.verdict = "covered" => covering = {verdict.coverage}

\* Within one product a code that is covered belongs to one coverage: cancer and
\* the diseases that are paid less for being similar to it exclude each other
\* (extract_kb_coverage.py 64-72).
SpecificCover ==
    Replied("coverage") /\ Scope(ask) \in CancerBases
    => OneCover(reply.told.verdict, reply.told.covering)

\* So far the editions of a document have kept the subcontracts of earlier ones.
OnlyAdded(b, t) ==
    \A e, f \in 1 .. t[b] : e <= f => \A i \in DOMAIN Numbered(Editions[b][e]) :
        /\ i \in DOMAIN Numbered(Editions[b][f])
        /\ Numbered(Editions[b][f])[i].name = Numbered(Editions[b][e])[i].name

\* One subcontract of edition e has that name.
Alone(b, e, name) ==
    LET subs == Numbered(Editions[b][e])
    IN  \E i \in DOMAIN subs : subs[i].name = name /\ \A j \in DOMAIN subs : subs[j].name = name => j = i

\* Parts of each other, as names go.
Akin(m, n) == <<m, n>> \in Within \/ <<n, m>> \in Within

\* What the editions tell of a name itself, or of one akin to it that in the
\* edition of the fact or an earlier one was not the name of one subcontract.
FactsAbout(b, t, name) ==
    UNION {{f \in WaitingFacts(Editions[b][g]) :
               \/ f.name = name
               \/ Akin(f.name, name) /\ \E e \in 1..g : ~Alone(b, e, f.name)} :
           g \in 1 .. t[b]}

\* As long as editions only add subcontracts, the waiting period and the
\* reduction told of a subcontract are what some edition says of it, or of a
\* name akin to its own that was no other subcontract's (load_waiting.py 47-54).
OwnWaiting ==
    Replied("waiting") /\ OnlyAdded(reply.told.pid[1], text) =>
        LET w == reply.told
            own == FactsAbout(w.pid[1], text, w.name)
        IN  /\ w.waiting # None => \E f \in own : f.waiting = w.waiting
            /\ w.reduction # None => \E f \in own : f.reduction = w.reduction

\* b ran, and a not since.
Before(s, a, b) == b \in DOMAIN s /\ a \notin s[b]

LeftOver(d, t, b) == Children(d, b) \ Pids(Doc(b, t), b)

PayoutsInOrder(d, t, s) ==
    \A b \in PayoutBases : Before(s, <<"revise", b>>, <<"load_payout">>) =>
        {r \in d.rules : r.pid = <<b, 0>> /\ r.source = "rule"}
           = {RateRow(b, r) : r \in Payouts(Doc(b, t))}

CoverageInOrder(d, t, s) ==
    \A b \in PayoutBases : Before(s, <<"revise", b>>, <<"load_coverage">>) =>
        Ranges(d, b) = {RangeRow(b, r) : r \in LabelledRanges(Doc(b, t))}

KbCoverageInOrder(d, t, s) ==
    \A b \in CancerBases :
        Before(s, <<"revise", b>>, <<"load_kb_coverage">>)
           /\ Before(s, <<"load_coverage">>, <<"load_kb_coverage">>) =>
        Ranges(d, b) = SpecificRows(b, t) \/ SpecificRows(b, t) = {}

TermsInOrder(d, t, s) ==
    \A b \in Bases :
        Before(s, <<"revise", b>>, <<"ingest", b>>) /\ Before(s, <<"ingest", b>>, <<"load_terms">>) =>
        d.product[<<b, 0>>].cooling = Withdrawal(Doc(b, t).days)

\* What the tables say of a subcontract is what its facts say.
WaitTold(d, t, p) ==
    LET facts == FactsFor(d, t, p)
    IN  \/ d.product[p].waiting \in {f.waiting : f \in facts}
        \/ d.product[p].waiting = None /\ \A f \in facts : f.waiting = None

ReductionsTold(d, t, p) ==
    \A f \in FactsFor(d, t, p) : f.reduction # None =>
        {r.reduction : r \in {s \in d.rules : s.pid = p /\ s.coverage = f.name
                                                 /\ s.source = "kb_table"}} = {f.reduction}

WaitingInOrder(d, t, s) ==
    \A b \in KbBases :
        /\ Before(s, <<"revise", b>>, <<"ingest", b>>)
        /\ Before(s, <<"ingest", b>>, <<"load_waiting">>)
        /\ Before(s, <<"load_payout">>, <<"load_waiting">>)
        /\ LeftOver(d, t, b) = {}
        => \A p \in Children(d, b) : WaitTold(d, t, p) /\ ReductionsTold(d, t, p)

InOrder(d, t, s) ==
    /\ PayoutsInOrder(d, t, s) /\ CoverageInOrder(d, t, s) /\ KbCoverageInOrder(d, t, s)
    /\ TermsInOrder(d, t, s) /\ WaitingInOrder(d, t, s)

\* Loaded in the order ingest, load_payout, load_waiting, load_coverage,
\* load_kb_coverage, load_terms after the last edition, and with no subcontract
\* left from an older one, the tables say what the documents say, but for the
\* ranges of a document in which no disease table is found.  Each load deletes
\* or overwrites rows of others, so that no other order will do.
LoadedInOrder == InOrder(db, text, since)

-----------------------------------------------------------------------------
\* Inductive invariants.

\* The columns of the tables, as far as the scripts overwrite them.
Columns(d) ==
    /\ DOMAIN d = {"product", "rules", "excl", "ranges"}
    /\ \A p \in DOMAIN d.product :
          DOMAIN d.product[p] = {"name", "cooling", "refers", "waiting"}

\* A product has the exclusions of one edition of its document.
ProductsKnown(d, t) ==
    \A p \in DOMAIN d.product :
        /\ p[1] \in Bases
        /\ \E e \in 1 .. t[p[1]] :
              /\ p \in Pids(Editions[p[1]][e], p[1])
              /\ Exclusions(d, p) = ArticlesIn(Editions[p[1]][e], p[2])

\* The foreign key of the rules.
RulesKnown(d) == \A r \in d.rules : r.pid \in DOMAIN d.product

\* The ranges of a cancer product are those of one edition.
RangesOfOneEdition(d, t) ==
    \A b \in CancerBases : \E e \in 1 .. t[b] :
        Ranges(d, b) \subseteq {RangeRow(b, r) : r \in SpecificRanges(Editions[b][e].table)}

\* Behind TermsInOrder and WaitingInOrder: what an ingest leaves.
Reset(d, t, s) ==
    \A b \in Bases :
        /\ <<"ingest", b>> \in DOMAIN s => <<b, 0>> \in DOMAIN d.product
        /\ Before(s, <<"revise", b>>, <<"ingest", b>>) /\ LeftOver(d, t, b) = {}
           => \A p \in Children(d, b) :
                 \/ d.product[p].waiting = None
                 \/ d.product[p].waiting \in {f.waiting : f \in FactsFor(d, t, p)}

TablesSound(d, t, s) ==
    /\ Columns(d) /\ ProductsKnown(d, t) /\ RulesKnown(d) /\ RangesOfOneEdition(d, t)
    /\ Reset(d, t, s) /\ InOrder(d, t, s)

\* The coverages that ranges are loaded for, and those a question asks about.
RangeCoverages ==
    {"cancer_diagnosis"} \cup {s.coverage : s \in Similar}
    \cup (UNION {UNION {{r.coverage : r \in LabelledRanges(Editions[b][e])} :
                          e \in DOMAIN Editions[b]} : b \in Bases})

Refusable == {Hints[i][2] : i \in DOMAIN Hints}

\* Where a keyword is part of the name of such a coverage, the name is a keyword
\* itself: "the whole names must be listed" (payout_sql.py 26-31).
ASSUME CoveragesAssumption ==
    \A c \in RangeCoverages :
        /\ c # None
        /\ (\E i \in DOMAIN Keywords : Keywords[i] \in Mentions(c))
               => \E j \in DOMAIN Keywords : Keywords[j] = c

\* A document that has a rate for a coverage has one for each coverage with
\* ranges whose name is a part of it.
PartsRated ==
    \A b \in PayoutBases : \A e \in DOMAIN Editions[b] :
        LET rates == {r \in Payouts(Editions[b][e]) : r.rate # None}
        IN  \A r \in rates : \A c \in RangeCoverages :
               r.coverage \in Refusable /\ <<c, r.coverage>> \in Within
               => \E s \in rates : s.coverage = c

\* Rates are those of one edition; the other rows have none.
RatesOf(d, b) == {r \in d.rules : r.pid = <<b, 0>> /\ r.source = "rule"}

RatesOfOneEdition(d, t) ==
    /\ \A r \in d.rules : r.rate # None => \E b \in PayoutBases : r \in RatesOf(d, b)
    /\ \A b \in PayoutBases : RatesOf(d, b) # {} =>
          \E e \in 1 .. t[b] : RatesOf(d, b) = {RateRow(b, r) : r \in Payouts(Editions[b][e])}

RangesNamed(d) == \A r \in d.ranges : r.id \in Nat /\ r.coverage \in RangeCoverages

RatesSound(d, t) == RatesOfOneEdition(d, t) /\ RangesNamed(d)

\* The subcontracts are those of one edition.
ChildrenOfOneEdition(d, t, b) ==
    Children(d, b) = {} \/ \E e \in 1 .. t[b] :
        LET subs == Numbered(Editions[b][e])
        IN  /\ Children(d, b) = {<<b, i>> : i \in DOMAIN subs}
            /\ \A i \in DOMAIN subs : d.product[<<b, i>>].name = subs[i].name

\* What is known of a subcontract is about its name.
OwnFacts(d, t, p) ==
    LET own == FactsAbout(p[1], t, d.product[p].name)
    IN  /\ d.product[p].waiting # None => \E f \in own : f.waiting = d.product[p].waiting
        /\ \A r \in d.rules : r.pid = p /\ r.source = "kb_table" /\ r.reduction # None =>
              \E f \in own : f.reduction = r.reduction

FactsSound(d, t) ==
    \A b \in Bases : OnlyAdded(b, t) =>
        ChildrenOfOneEdition(d, t, b) /\ \A p \in Children(d, b) : OwnFacts(d, t, p)

\* The scripts that ran before left such tables; none having run, they are empty.
StartSound ==
    \A s \in Start :
        LET t == [b \in Bases |-> 1]
        IN  TablesSound(s.db, t, s.since) /\ RatesSound(s.db, t) /\ FactsSound(s.db, t)

\* A code is a letter with two digits, and a digit behind the point or none.
Codes == [cat : Nat, dec : 0..9 \cup {None}]

ASSUME CodesAssumption ==
    /\ Diseases \in Seq(Names \X Codes)
    /\ \A q \in Queries : q.code \in Codes \cup {None}

ASSUME EditionsAssumption ==
    \A b \in Bases : \A e \in DOMAIN Editions[b] :
        LET doc == Editions[b][e]
        IN  /\ \A u \in doc.table : u.lo \in Codes /\ u.hi \in Codes
            /\ Len(doc.conditions) \in Nat
            /\ DOMAIN doc.conditions = 1 .. Len(doc.conditions)
            /\ DOMAIN doc.diseases \subseteq Nat
            /\ 0 \notin DOMAIN Numbered(doc)

Published(t) ==
    /\ DOMAIN t = Bases
    /\ \A b \in Bases : t[b] \in DOMAIN Editions[b]

TablesInv == Published(text) /\ TablesSound(db, text, since)

\* What the first statement of a branch gave stays true of the request.
ReadInv ==
    read # None =>
        /\ Current = "payout" =>
              /\ read.rate.pid \in DOMAIN db.product
              /\ Scope(ask) # None => read.rate.pid[1] = Scope(ask)
              /\ MostSpecificRate(read.rate)
        /\ Current = "coverage" /\ Scope(ask) \in CancerBases =>
              OneCover(read.verdict, read.covering)
        /\ Current = "exclusion" /\ Scope(ask) # None => read.pid[1] = Scope(ask)

AnswerInv ==
    /\ ask \in Queries \cup {None} /\ ReadInv
    /\ Replied("payout") => reply.told.rate.pid[1] \in Bases
    /\ OwnProduct /\ ExclusionsAttached /\ MostSpecific /\ SpecificCover

TablesRequestInv == TablesInv /\ AnswerInv

\* A verdict names the coverage that pays, which is not the one it refuses.
VerdictSound(v) ==
    /\ v.verdict \in {"covered", "not_covered", "undecided"}
    /\ v.verdict = "covered" => v.coverage \in RangeCoverages
    /\ v.verdict = "not_covered" =>
          v.coverage \in Refusable /\ v.redirect \in RangeCoverages \ {v.coverage}

VerdictInv ==
    /\ RatesSound(db, text)
    /\ read # None /\ Current = "coverage" => VerdictSound(read.verdict)
    /\ NoContradiction

WaitingInv ==
    /\ FactsSound(db, text)
    /\ Replied("waiting") => reply.told.pid[1] \in Bases
    /\ OwnWaiting

=============================================================================
