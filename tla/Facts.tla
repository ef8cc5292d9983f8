------------------------------- MODULE Facts -------------------------------
(***************************************************************************)
(* What the scripts read out of a policy document before it is loaded:     *)
(* extract_waiting.py, extract_payout.py, judge_coverage.py,               *)
(* extract_kb_coverage.py, extract_terms.py, the matching of load_waiting  *)
(* and the numbering of ingest_compound.                                   *)
(*                                                                         *)
(* A document is a record of what those scripts look at: its sections, the *)
(* lines of its waiting and reduction tables, those of its payment tables, *)
(* its table of diseases, its sentences on withdrawal and renewal.         *)
(***************************************************************************)
EXTENDS Judgement

\* The value of a field in the first line about a name that has one.
FirstTold(lines, name, field) ==
    LET told == {i \in DOMAIN lines : lines[i].name = name /\ lines[i][field] # None}
    IN  IF told = {} THEN None
        ELSE lines[CHOOSE i \in told : \A j \in told : i <= j][field]

\* extract_waiting: what the waiting and the reduction table say of a coverage
\* is put together, in the order in which the coverages appear.
WaitingFacts(doc) ==
    {[at |-> i, name |-> doc.conditions[i].name,
      waiting |-> FirstTold(doc.conditions, doc.conditions[i].name, "waiting"),
      reduction |-> FirstTold(doc.conditions, doc.conditions[i].name, "reduction")] :
        i \in {j \in DOMAIN doc.conditions :
                  \A h \in 1..(j - 1) : doc.conditions[h].name # doc.conditions[j].name}}

-----------------------------------------------------------------------------
\* The matrix that line i of a payment table belongs to starts with the first
\* header of its block of table lines.
Header(lines, i) ==
    LET before == {h \in 1..(i - 1) : lines[h].kind = "header"
                       /\ \A j \in h..i : lines[j].kind \in {"header", "row"}}
    IN  IF before = {} THEN 0 ELSE CHOOSE h \in before : \A j \in before : h <= j

\* A matrix without a cause of its own takes the last one above it.
CauseOf(lines, h) ==
    LET above == {i \in 1..h : lines[i].kind = "cause"}
    IN  IF above = {} THEN None ELSE lines[CHOOSE i \in above : \A j \in above : j <= i].cause

Rate(coverage, cause, period, rate) ==
    [coverage |-> coverage, cause |-> cause, age_band |-> None,
     period_bucket |-> period, rate |-> rate]

\* _matrix_rules: one filled cell is a flat rate, several are rates by period.
MatrixRates(lines, i) ==
    LET h == Header(lines, i)
        columns == lines[h].periods
        filled == {c \in DOMAIN columns : columns[c] # None /\ c \in DOMAIN lines[i].rates
                                             /\ lines[i].rates[c] # None}
    IN  IF h = 0 THEN {}
        ELSE {Rate(lines[i].name, CauseOf(lines, h),
                   IF Cardinality(filled) = 1 THEN None ELSE columns[c],
                   lines[i].rates[c]) : c \in filled}

\* extract_payout: lines of three columns with an amount, and matrices.
Payouts(doc) ==
    LET lines == doc.payments
    IN  {Rate(lines[i].name, None, None, lines[i].rate) :
            i \in {j \in DOMAIN lines : lines[j].kind = "three columns"}}
        \cup UNION {MatrixRates(lines, i) : i \in {j \in DOMAIN lines : lines[j].kind = "row"}}

-----------------------------------------------------------------------------
\* judge_coverage.py, coverage_ranges: a line of the disease table names its
\* coverage.
LabelledRanges(doc) ==
    {[id |-> i, coverage |-> doc.diseases[i].label,
      lo |-> doc.diseases[i].lo, hi |-> doc.diseases[i].hi] :
        i \in {j \in DOMAIN doc.diseases : doc.diseases[j].label # None}}

\* Letter C is 300..399, letter D 400..499.
C(n) == [cat |-> 300 + n, dec |-> None]
D(n) == [cat |-> 400 + n, dec |-> None]

\* What the insurer counts as similar to cancer and insures separately.
Similar == {[id |-> 2, cat |-> 344, coverage |-> "other_skin_cancer"],
            [id |-> 3, cat |-> 373, coverage |-> "thyroid_cancer"]}

SimilarCats == {s.cat : s \in Similar}

\* _expand_c: whole categories of letter C; a finer token is not expanded.
IsWholeC(t) == t.lo.dec = None /\ t.hi.dec = None /\ {t.lo.cat, t.hi.cat} \subseteq 300..399

CCats(table) == UNION {t.lo.cat .. t.hi.cat : t \in {u \in table : IsWholeC(u)}}

\* _collapse: the longest runs of categories.
Runs(cats) ==
    {r \in cats \X cats :
        r[1] <= r[2] /\ r[1]..r[2] \subseteq cats /\ r[1] - 1 \notin cats /\ r[2] + 1 \notin cats}

\* Mutant: the similar diseases stay among the cancers.
RemainingAll(table) == CCats(table)

Remaining(table) == CCats(table) \ SimilarCats

\* coverage_ranges_kb: cancer is the table without the similar diseases, each of
\* which is a coverage of its own.
SpecificRanges(table) ==
    {[id |-> 1, coverage |-> "cancer_diagnosis",
      lo |-> [cat |-> r[1], dec |-> None], hi |-> [cat |-> r[2], dec |-> None]] :
        r \in Runs(Remaining(table))}
    \cup {[id |-> 1, coverage |-> "cancer_diagnosis", lo |-> t.lo, hi |-> t.hi] :
            t \in {u \in table : u.lo.cat \in 400..499}}
    \cup {[id |-> s.id, coverage |-> s.coverage,
           lo |-> [cat |-> s.cat, dec |-> None], hi |-> [cat |-> s.cat, dec |-> None]] :
            s \in {x \in Similar : x.cat \in CCats(table)}}

-----------------------------------------------------------------------------
\* extract_terms: the standard 15 days, or the first declaration.
Withdrawal(days) ==
    IF days = <<>> THEN None ELSE IF \E i \in DOMAIN days : days[i] = 15 THEN 15 ELSE days[1]

\* sections_for_ingest, and main: stubs, sections without any article, are
\* skipped, the others numbered in their order, with or without exclusions.
Numbered(doc) == SelectSeq(doc.sections, LAMBDA s : ~s.stub)

\* Mutant: the first of several that match.
MatchAny(name, subs) ==
    {p \in DOMAIN subs : <<name, subs[p]>> \in Within \/ <<subs[p], name>> \in Within}

\* _match: the subcontract of that very name, or else the only one of at least
\* four letters whose name contains it or is contained in it; a name that two
\* subcontracts have does not count.
Match(name, subs) ==
    LET unique == {p \in DOMAIN subs : \A q \in DOMAIN subs : subs[q] = subs[p] => q = p}
        exact == {p \in unique : subs[p] = name}
        partly == {p \in unique : /\ Size[subs[p]] >= 4
                                  /\ \/ <<name, subs[p]>> \in Within
                                     \/ <<subs[p], name>> \in Within}
    IN  IF exact # {} THEN exact
        ELSE IF Cardinality(partly) = 1 THEN partly ELSE {}

=============================================================================
