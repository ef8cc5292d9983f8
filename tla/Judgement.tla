----------------------------- MODULE Judgement -----------------------------
(***************************************************************************)
(* What the SQL routes conclude from a question and from the rows they are *)
(* given: rag/payout_sql.py, coverage_sql.py, waiting_sql.py,              *)
(* catalog_sql.py, terms_sql.py and exclusion_sql.py.  These modules know  *)
(* no database; everything here is an operator.                            *)
(*                                                                         *)
(* A question is what the patterns find in it: the names that occur in its *)
(* text (with a name every part of it occurs), the signals it gives, and   *)
(* the disease code it writes out, if any.  The keyword lists are          *)
(* sequences, as their order decides.                                      *)
(***************************************************************************)
EXTENDS Naturals, Sequences, FiniteSets

CONSTANTS
    Names,       \* coverage names, and words a question may hold
    Within,      \* the pairs <<a, b>> where the text of a occurs in that of b
    Size,        \* the length of a name
    Tokens,      \* the words of at least two letters that make up a name
    Stem,        \* a name without the roman number at its end
    Keywords,    \* _COVERAGE_KEYWORDS
    Hints,       \* _COVERAGE_HINT: <<word, coverage>>
    Diseases,    \* _DISEASE_CODE: <<word, code>>
    Brands,      \* _PRODUCT_HINTS: <<word, base product>>
    TermsWords,  \* _COVERAGE_KEYWORDS of terms_sql
    Generic,     \* words that name no coverage on their own
    None

ASSUME NamesAssumption ==
    /\ Within \subseteq Names \X Names
    /\ \A a \in Names : <<a, a>> \in Within
    /\ Size \in [Names -> Nat]
    /\ \A p \in Within : p[1] # p[2] => Size[p[1]] < Size[p[2]]
    /\ Keywords \in Seq(Names)
    /\ Hints \in Seq(Names \X Names)

\* The entry of a list of pairs whose word comes first among those that occur.
FirstOf(list, words) ==
    LET found == {i \in DOMAIN list : list[i][1] \in words}
    IN  IF found = {} THEN None
        ELSE list[CHOOSE i \in found : \A j \in found : i <= j][2]

-----------------------------------------------------------------------------
(* Amounts *)

\* Mutant: the keyword that comes first in the list.
FirstKeyword(words) ==
    {i \in DOMAIN Keywords :
        /\ Keywords[i] \in words
        /\ \A j \in DOMAIN Keywords : Keywords[j] \in words => i <= j}

\* The longest keyword that occurs, the first of several: its place in the list.
LongestKeyword(words) ==
    {i \in DOMAIN Keywords :
        /\ Keywords[i] \in words
        /\ \A j \in DOMAIN Keywords : Keywords[j] \in words =>
               \/ Size[Keywords[j]] < Size[Keywords[i]]
               \/ Size[Keywords[j]] = Size[Keywords[i]] /\ i <= j}

Axes == {"cause", "age_band", "period_bucket"}

\* What a question says about an axis; the first pattern that matches decides.
Intent(says) ==
    [cause |->
        IF {"not by accident", "illness"} \cap says # {} THEN "illness"
        ELSE IF "accident" \in says THEN "injury" ELSE None,
     age_band |->
        IF "adult" \in says THEN "15 and over"
        ELSE IF "child" \in says THEN "under 15" ELSE None,
     period_bucket |->
        IF "90 days" \in says THEN "up to 90 days"
        ELSE IF "after a year" \in says THEN "from one year"
        ELSE IF "in between" \in says THEN "90 days to a year" ELSE None]

\* Rows with a rate, of the coverage itself or else of those that contain it.
Candidates(rows, coverage) ==
    LET live == {r \in rows : r.rate # None}
        exact == {r \in live : r.coverage = coverage}
    IN  IF exact # {} THEN exact
        ELSE {r \in live : <<coverage, r.coverage>> \in Within}

\* An axis that no candidate uses does not count.
Hits(cands, intent) ==
    {r \in cands : \A k \in Axes :
        intent[k] # None /\ (\E c \in cands : c[k] # None) => r[k] = intent[k]}

Overlap(r, words) == Cardinality(Tokens[r.coverage] \cap words)

\* Most words in common, then a flat rate; rows come in no particular order.
Best(hits, words) ==
    {r \in hits : \A s \in hits :
        \/ Overlap(r, words) > Overlap(s, words)
        \/ /\ Overlap(r, words) = Overlap(s, words)
           /\ r.period_bucket = None \/ s.period_bucket # None}

\* select_payout: the rows it may return; none where no coverage is named.
Selected(rows, words, says) ==
    UNION {Best(Hits(Candidates(rows, Keywords[i]), Intent(says)), words) :
              i \in LongestKeyword(words)}

-----------------------------------------------------------------------------
(* Disease codes *)

\* A code is its letter and two digits as one number, and the digit behind the
\* point or None; codes are compared at that precision.
From(c) == c.cat * 10 + (IF c.dec = None THEN 0 ELSE c.dec)
Upto(c) == c.cat * 10 + (IF c.dec = None THEN 9 ELSE c.dec)

\* A range holds a code; a range of one code has that code on both sides.
Holds(range, code) == From(range.lo) <= From(code) /\ From(code) <= Upto(range.hi)

\* A code that is written out is taken before a disease is looked up.
CodeOf(q) == IF q.code # None THEN q.code ELSE FirstOf(Diseases, q.words)

CoverageOf(q) == FirstOf(Hints, q.words)

\* The coverages of the range rows that hold a code, and the first of them:
\* coverages are in the order of their first row.
Covering(ranges, code) == {r.coverage : r \in {s \in ranges : Holds(s, code)}}

FirstId(ranges, c) ==
    LET ids == {r.id : r \in {s \in ranges : s.coverage = c}}
    IN  CHOOSE i \in ids : \A j \in ids : i <= j

FirstCovering(ranges, cs) ==
    CHOOSE c \in cs : \A d \in cs : FirstId(ranges, c) <= FirstId(ranges, d)

Verdict(verdict, coverage, redirect) ==
    [verdict |-> verdict, coverage |-> coverage, redirect |-> redirect]

\* judge_coverage: three values, and the coverage that does pay.
Judge(code, ranges, coverage) ==
    LET cs == Covering(ranges, code)
        others == cs \ {coverage}
    IN  IF coverage \in cs THEN Verdict("covered", coverage, None)
        ELSE IF cs = {} THEN Verdict("undecided", coverage, None)
        ELSE IF coverage = None THEN Verdict("covered", FirstCovering(ranges, cs), None)
        ELSE Verdict("not_covered", coverage, FirstCovering(ranges, others))

\* Mutant: the coverage that was asked about.
EffectiveAsked(v) == v.coverage

\* effective_coverage: the coverage that pays for the code.
Effective(v) ==
    CASE v.verdict = "covered" -> v.coverage
      [] v.verdict = "not_covered" -> v.redirect
      [] OTHER -> None

\* The text "<coverage> 얼마 지급", with which the payout is looked up.
Mentions(coverage) == {n \in Names : <<n, coverage>> \in Within}

-----------------------------------------------------------------------------
(* Waiting periods, catalogue, terms, exclusions *)

\* Names of fewer than four letters are not matched.
Named(name, words) == Size[name] >= 4 /\ name \in words

\* pick_subcontract: the longest full name that occurs; else the one row whose
\* name occurs without its roman number and is alone with that stem.
Picked(rows, words) ==
    LET exact == {r \in rows : Named(r.name, words)}
        longest == {r \in exact : \A s \in exact : Size[s.name] <= Size[r.name]}
        stemmed == {r \in rows : Named(Stem[r.name], words)}
        alone == {r \in stemmed : \A s \in stemmed : Stem[s.name] = Stem[r.name] => s = r}
    IN  IF exact # {}
        THEN {r \in longest : \A s \in longest : r.pid[2] <= s.pid[2]}
        ELSE IF Cardinality(alone) = 1 THEN alone ELSE {}

\* find_covered.
Covered(catalog, words) == {n \in catalog \ Generic : Named(n, words)}

BaseOf(words) == FirstOf(Brands, words)

TermsHint(words) ==
    FirstOf([i \in DOMAIN TermsWords |-> <<TermsWords[i], TermsWords[i]>>], words)

\* format_terms: a missing withdrawal period is the main policy's affair, and is
\* said to be.
TermsTold(p) ==
    IF p.cooling = None THEN "main policy" ELSE p.cooling

\* format_exclusions: the articles, and the main policy's where the product
\* refers to it.
ExclusionsTold(articles, refers) == [articles |-> articles, common |-> refers]

=============================================================================
