------------------------------ MODULE Grading -------------------------------
(***************************************************************************)
(* rag/grader.py: how an answer of the LLM is held against the context it  *)
(* was given, what kind of failure a mismatch is, and what the LLM is told *)
(* when it is asked to write the answer again.                             *)
(*                                                                         *)
(* A text is the set of the references it makes, as the patterns find      *)
(* them: articles (with a paragraph, 0 if none; items and sub-items change *)
(* nothing but the spelling), appendices, numbers with a unit, dates.  A   *)
(* reference broken by a line end is found in the answer as a whole, but   *)
(* in none of the claims the answer is split into.                         *)
(***************************************************************************)
EXTENDS Integers, FiniteSets

Article == [kind : {"article"}, art : Nat \ {0}, par : Nat]

\* An addendum may cite its own article: "addendum, article no".
Appendix == [kind : {"appendix"}, name : {"table", "addendum", "form", "layout"}, no : Nat]

Factor ==
    [manwon |-> 10000, eokwon |-> 100000000, won |-> 1, percent |-> 1, day |-> 1,
     month |-> 30, year |-> 1, age |-> 1, times |-> 1]

UnitCode ==
    [manwon |-> "KRW", eokwon |-> "KRW", won |-> "KRW", percent |-> "PERCENT", day |-> "DAYS",
     month |-> "DAYS", year |-> "YEARS", age |-> "AGE", times |-> "COUNT"]

Number == [kind : {"number"}, amount : Nat, unit : DOMAIN Factor]

Date == [kind : {"date"}, day : Nat]

Reference == Article \cup Appendix \cup Number \cup Date

\* extract_article_refs: "addendum, article 3" is also found as article 3.
Articles(T) ==
    {r \in T : r.kind = "article"}
    \cup {[kind |-> "article", art |-> r.no, par |-> 0] :
             r \in {s \in T : s.kind = "appendix" /\ s.name = "addendum" /\ s.no # 0}}

Appendices(T) == {r \in T : r.kind = "appendix"}

Refs(T) == Articles(T) \cup Appendices(T)

Numerics(T) == {r \in T : r.kind \in {"number", "date"}}

\* NumericFact: amounts and periods are compared in won and days.  Every date
\* has the value 0, so any two dates count as the same.
Canonical(r) ==
    IF r.kind = "date" THEN [value |-> 0, unit |-> "DATE"]
    ELSE [value |-> r.amount * Factor[r.unit], unit |-> UnitCode[r.unit]]

Critical == {"KRW", "DAYS", "YEARS", "PERCENT"}

-----------------------------------------------------------------------------
\* verify_answer: T is the answer's text, E the evidence: the context and the
\* retrieved chunks with their headings.

\* Articles count by their number, appendices as they are.
MissingRefs(T, E) ==
    {r \in Articles(T) : \A e \in Articles(E) : e.art # r.art} \cup (Appendices(T) \ Appendices(E))

Mismatches(T, E) ==
    {r \in Numerics(T) : \A e \in Numerics(E) : Canonical(e) # Canonical(r)}

Risk(T, E) ==
    IF MissingRefs(T, E) # {} THEN "hard_fail"
    ELSE IF \E r \in Mismatches(T, E) : Canonical(r).unit \in Critical THEN "soft_fail"
    ELSE IF Mismatches(T, E) # {} THEN "warn"
    ELSE "pass"

\* The groundedness of an answer is measured on the claims that can be checked;
\* without any, the summary has no such key.
Verifiable(claims) == {c \in claims : Refs(c) \cup Numerics(c) # {}}

Measurable(claims) == Verifiable(claims) # {}

\* Claims that some chunk supports, of the texts of the chunks: by a reference
\* they make, articles again by their number, never by a number with a unit.
Supported(T, E, texts, claims) ==
    {c \in claims : \E t \in texts :
        \/ \E r \in Articles(c) \cap Articles(T), e \in Articles(E) \cap Articles(t) : e.art = r.art
        \/ Appendices(c) \cap Appendices(T) \cap Appendices(E) \cap Appendices(t) # {}}

-----------------------------------------------------------------------------
\* classify_failure, and what build_hint tells the LLM.

Distance(m, n) == IF m > n THEN m - n ELSE n - m

\* _article_num and _paragraph_num of a reference's spelling; 0 is none.
ArticleNum(r) ==
    IF r.kind = "article" THEN r.art ELSE IF r.name = "addendum" THEN r.no ELSE 0

ParagraphNum(r) == IF r.kind = "article" THEN r.par ELSE 0

\* _has_adjacent_article: the neighbouring article, or the same one with a
\* neighbouring paragraph or given with a paragraph on one side only.
Adjacent(r, c) ==
    /\ ArticleNum(r) # 0 /\ ArticleNum(c) # 0
    /\ \/ Distance(ArticleNum(r), ArticleNum(c)) = 1
       \/ /\ ArticleNum(r) = ArticleNum(c)
          /\ \/ /\ ParagraphNum(r) # 0 /\ ParagraphNum(c) # 0
                /\ Distance(ParagraphNum(r), ParagraphNum(c)) <= 1
             \/ (ParagraphNum(r) = 0) # (ParagraphNum(c) = 0)

\* _has_close_numeric: same unit, and less than half of the larger one apart.
Close(r, c) ==
    LET v == Canonical(r)  w == Canonical(c)
    IN  /\ v.value # 0 /\ v.unit = w.unit
        /\ 2 * Distance(v.value, w.value) < (IF v.value > w.value THEN v.value ELSE w.value)

\* C is the context alone, without the chunks.
Failure(T, E, C) ==
    IF MissingRefs(T, E) # {}
    THEN IF \E r \in MissingRefs(T, E), c \in Refs(C) : Adjacent(r, c)
         THEN "generation_error" ELSE "retrieval_gap"
    ELSE IF \E r \in Mismatches(T, E), c \in Numerics(C) :
                Canonical(r).unit \in Critical /\ Close(r, c)
         THEN "unit_error" ELSE "minor"

Allowed(failure, E, C) ==
    IF failure = "generation_error" THEN Refs(C)
    ELSE IF failure = "unit_error" THEN Numerics(C) ELSE {}

Forbidden(failure, T, E) ==
    IF failure = "generation_error" THEN MissingRefs(T, E)
    ELSE IF failure = "unit_error" THEN Mismatches(T, E) ELSE {}

=============================================================================
