----------------------------- MODULE TablesProofs -----------------------------
(***************************************************************************)
(* Theorems about the tables of the insurance documents and the requests   *)
(* answered from them, for any documents, any questions and any schedule   *)
(* of scripts.                                                             *)
(***************************************************************************)
EXTENDS Tables, WellFoundedInduction, TLAPS

-----------------------------------------------------------------------------
\* What the conclusions from the rows return.

\* A set of numbers has a least element.
LEMMA LeastNumber ==
    ASSUME NEW S \in SUBSET Nat, S # {}
    PROVE  \E m \in S : \A n \in S : m <= n
<1> DEFINE Less == OpToRel(<, Nat)
<1>1. IsWellFoundedOn(Less, Nat)
  BY NatLessThanWellFounded
<1>2. \A m, n \in Nat : <<m, n>> \in Less <=> m < n
  BY DEF OpToRel
<1> HIDE DEF Less
<1>3. PICK m \in S : \A n \in S : ~(<<n, m>> \in Less)
  BY <1>1, WFMin
<1>4. ASSUME NEW n \in S
      PROVE  m <= n
  <2>1. m \in Nat /\ n \in Nat
    BY <1>3, <1>4
  <2>2. ~(n < m)
    BY <1>2, <1>3, <1>4, <2>1
  <2> QED
    BY <2>1, <2>2
<1> QED
  BY <1>3, <1>4

\* What a list of pairs gives for the words of a question stands in the list.
LEMMA FirstOfListed ==
    ASSUME NEW A, NEW B, NEW list \in Seq(A \X B), NEW words
    PROVE  FirstOf(list, words) \in B \cup {None}
<1> DEFINE found == {i \in DOMAIN list : list[i][1] \in words}
<1>1. CASE found = {}
  BY <1>1 DEF FirstOf
<1>2. CASE found # {}
  <2>1. found \subseteq Nat
    OBVIOUS
  <2>2. \E i \in found : \A j \in found : i <= j
    BY <1>2, <2>1, LeastNumber
  <2>3. (CHOOSE i \in found : \A j \in found : i <= j) \in DOMAIN list
    BY <2>2
  <2> QED
    BY <1>2, <2>3 DEF FirstOf
<1> QED
  BY <1>1, <1>2

\* The rate that is told is one of the rows that were read.
LEMMA SelectedRead ==
    ASSUME NEW rows, NEW words, NEW says
    PROVE  Selected(rows, words, says) \subseteq rows
BY DEF Selected, Best, Hits, Candidates

\* Its coverage is the longest keyword of the question, or contains it.
LEMMA SelectedNamed ==
    ASSUME NEW rows, NEW words, NEW says, NEW r \in Selected(rows, words, says)
    PROVE  \E i \in LongestKeyword(words) :
              r.coverage = Keywords[i] \/ <<Keywords[i], r.coverage>> \in Within
<1>1. PICK i \in LongestKeyword(words) :
          r \in Best(Hits(Candidates(rows, Keywords[i]), Intent(says)), words)
  BY DEF Selected
<1>2. r \in Candidates(rows, Keywords[i])
  BY <1>1 DEF Best, Hits
<1> QED
  BY <1>2 DEF Candidates

\* No keyword of the question is a longer form of it.
LEMMA SelectedSpecific ==
    ASSUME NEW rows, NEW words, NEW says, NEW r \in Selected(rows, words, says),
           NEW k \in DOMAIN Keywords, Keywords[k] \in words,
           <<r.coverage, Keywords[k]>> \in Within
    PROVE  Keywords[k] = r.coverage
<1>1. PICK i \in LongestKeyword(words) :
          r.coverage = Keywords[i] \/ <<Keywords[i], r.coverage>> \in Within
  BY SelectedNamed
<1>2. /\ i \in DOMAIN Keywords
      /\ Size[Keywords[k]] < Size[Keywords[i]] \/ Size[Keywords[k]] = Size[Keywords[i]]
  BY <1>1 DEF LongestKeyword
<1>3. /\ Keywords[i] \in Names /\ Keywords[k] \in Names /\ r.coverage \in Names
      /\ Size[Keywords[i]] \in Nat /\ Size[Keywords[k]] \in Nat /\ Size[r.coverage] \in Nat
  BY <1>2, NamesAssumption
<1>4. Keywords[i] # r.coverage => Size[Keywords[i]] < Size[r.coverage]
  <2> DEFINE p == <<Keywords[i], r.coverage>>
  <2>1. p \in Within /\ p[1] # p[2] => Size[p[1]] < Size[p[2]]
    BY NamesAssumption
  <2> QED
    BY <1>1, <2>1
<1>5. Keywords[k] # r.coverage => Size[r.coverage] < Size[Keywords[k]]
  <2> DEFINE p == <<r.coverage, Keywords[k]>>
  <2>1. p \in Within /\ p[1] # p[2] => Size[p[1]] < Size[p[2]]
    BY NamesAssumption
  <2> QED
    BY <2>1
<1>6. ~(Size[r.coverage] < Size[Keywords[k]])
  BY <1>2, <1>3, <1>4
<1> QED
  BY <1>5, <1>6

-----------------------------------------------------------------------------
\* The ranges of an insurer whose cancers exclude each other.

\* A code is compared within its category; a whole category holds all of them.
LEMMA CodeBounds ==
    ASSUME NEW c \in Codes
    PROVE  /\ c.cat \in Nat /\ From(c) \in Nat
           /\ c.cat * 10 <= From(c) /\ From(c) <= c.cat * 10 + 9
BY DEF Codes, From

\* A code range of a whole category runs from its first decimal to its last.
LEMMA WholeCategory ==
    ASSUME NEW n \in Nat
    PROVE  /\ From([cat |-> n, dec |-> None]) = n * 10
           /\ Upto([cat |-> n, dec |-> None]) = n * 10 + 9
<1>1. /\ [cat |-> n, dec |-> None].cat = n
      /\ [cat |-> n, dec |-> None].dec = None
  OBVIOUS
<1> QED
  BY <1>1 DEF From, Upto

\* The diseases insured separately are two: other skin cancers, and cancer of
\* the thyroid.
LEMMA SimilarTwo ==
    ASSUME NEW s \in Similar
    PROVE  \/ s.id = 2 /\ s.cat = 344 /\ s.coverage = "other_skin_cancer"
           \/ s.id = 3 /\ s.cat = 373 /\ s.coverage = "thyroid_cancer"
<1>1. \/ s = [id |-> 2, cat |-> 344, coverage |-> "other_skin_cancer"]
      \/ s = [id |-> 3, cat |-> 373, coverage |-> "thyroid_cancer"]
  BY DEF Similar
<1> QED
  BY <1>1

\* A row is a run of cancers, a line of letter D, or a similar disease.
LEMMA RowOfRanges ==
    ASSUME NEW table, NEW r \in SpecificRanges(table)
    PROVE  \/ r.id = 1 /\ r.coverage = "cancer_diagnosis"
                /\ \/ \E q \in Runs(Remaining(table)) :
                         /\ r.lo = [cat |-> q[1], dec |-> None]
                         /\ r.hi = [cat |-> q[2], dec |-> None]
                   \/ \E u \in table : u.lo.cat \in 400..499 /\ r.lo = u.lo
           \/ \E s \in Similar :
                 /\ r.id = s.id /\ r.coverage = s.coverage
                 /\ r.lo = [cat |-> s.cat, dec |-> None] /\ r.hi = [cat |-> s.cat, dec |-> None]
<1>1. ASSUME NEW q \in Runs(Remaining(table)),
             r = [id |-> 1, coverage |-> "cancer_diagnosis",
                  lo |-> [cat |-> q[1], dec |-> None], hi |-> [cat |-> q[2], dec |-> None]]
      PROVE  /\ r.id = 1 /\ r.coverage = "cancer_diagnosis"
             /\ r.lo = [cat |-> q[1], dec |-> None] /\ r.hi = [cat |-> q[2], dec |-> None]
  BY <1>1
<1>2. ASSUME NEW u \in {v \in table : v.lo.cat \in 400..499},
             r = [id |-> 1, coverage |-> "cancer_diagnosis", lo |-> u.lo, hi |-> u.hi]
      PROVE  /\ r.id = 1 /\ r.coverage = "cancer_diagnosis"
             /\ u \in table /\ u.lo.cat \in 400..499 /\ r.lo = u.lo
  BY <1>2
<1>3. ASSUME NEW s \in {x \in Similar : x.cat \in CCats(table)},
             r = [id |-> s.id, coverage |-> s.coverage,
                  lo |-> [cat |-> s.cat, dec |-> None], hi |-> [cat |-> s.cat, dec |-> None]]
      PROVE  /\ s \in Similar /\ r.id = s.id /\ r.coverage = s.coverage
             /\ r.lo = [cat |-> s.cat, dec |-> None] /\ r.hi = [cat |-> s.cat, dec |-> None]
  BY <1>3
<1>4. \/ \E q \in Runs(Remaining(table)) :
            r = [id |-> 1, coverage |-> "cancer_diagnosis",
                 lo |-> [cat |-> q[1], dec |-> None], hi |-> [cat |-> q[2], dec |-> None]]
      \/ \E u \in {v \in table : v.lo.cat \in 400..499} :
            r = [id |-> 1, coverage |-> "cancer_diagnosis", lo |-> u.lo, hi |-> u.hi]
      \/ \E s \in {x \in Similar : x.cat \in CCats(table)} :
            r = [id |-> s.id, coverage |-> s.coverage,
                 lo |-> [cat |-> s.cat, dec |-> None], hi |-> [cat |-> s.cat, dec |-> None]]
  BY Zenon DEF SpecificRanges
<1>5. CASE \E q \in Runs(Remaining(table)) :
              r = [id |-> 1, coverage |-> "cancer_diagnosis",
                   lo |-> [cat |-> q[1], dec |-> None], hi |-> [cat |-> q[2], dec |-> None]]
  BY ONLY <1>1, <1>5, Zenon
<1>6. CASE \E u \in {v \in table : v.lo.cat \in 400..499} :
              r = [id |-> 1, coverage |-> "cancer_diagnosis", lo |-> u.lo, hi |-> u.hi]
  BY ONLY <1>2, <1>6, Zenon
<1>7. CASE \E s \in {x \in Similar : x.cat \in CCats(table)} :
              r = [id |-> s.id, coverage |-> s.coverage,
                   lo |-> [cat |-> s.cat, dec |-> None], hi |-> [cat |-> s.cat, dec |-> None]]
  BY ONLY <1>3, <1>7, Zenon
<1> QED
  BY <1>4, <1>5, <1>6, <1>7, Zenon

\* The id of a range of the disease table tells its coverage.
LEMMA RowIds ==
    ASSUME NEW table, NEW r \in SpecificRanges(table)
    PROVE  \/ r.id = 1 /\ r.coverage = "cancer_diagnosis"
           \/ r.id = 2 /\ r.coverage = "other_skin_cancer"
           \/ r.id = 3 /\ r.coverage = "thyroid_cancer"
<1>1. CASE r.id = 1 /\ r.coverage = "cancer_diagnosis"
  BY <1>1
<1>2. CASE \E s \in Similar : r.id = s.id /\ r.coverage = s.coverage
  BY <1>2, SimilarTwo
<1> QED
  BY <1>1, <1>2, RowOfRanges

\* A code of a range lies in one coverage: the similar diseases are left out of
\* the runs of cancers, and letter D begins behind them.
LEMMA RangesExclude ==
    ASSUME NEW table, \A u \in table : u.lo \in Codes /\ u.hi \in Codes,
           NEW code \in Codes,
           NEW r \in SpecificRanges(table), Holds(r, code)
    PROVE  \/ r.id = 1 /\ r.coverage = "cancer_diagnosis" /\ code.cat \notin {344, 373}
           \/ r.id = 2 /\ r.coverage = "other_skin_cancer" /\ code.cat = 344
           \/ r.id = 3 /\ r.coverage = "thyroid_cancer" /\ code.cat = 373
<1>1. /\ code.cat \in Nat /\ From(code) \in Nat
      /\ code.cat * 10 <= From(code) /\ From(code) <= code.cat * 10 + 9
  BY CodeBounds
<1>2. From(r.lo) <= From(code) /\ From(code) <= Upto(r.hi)
  BY DEF Holds
<1>3. CCats(table) \subseteq Nat
  BY DEF CCats, Codes
<1>4. ASSUME NEW q \in Runs(Remaining(table)),
             r.lo = [cat |-> q[1], dec |-> None], r.hi = [cat |-> q[2], dec |-> None]
      PROVE  code.cat \notin {344, 373}
  <2>1. q[1] \in Nat /\ q[2] \in Nat /\ q[1]..q[2] \subseteq Remaining(table)
    BY <1>3, <1>4 DEF Runs, Remaining
  <2>2. From(r.lo) = q[1] * 10 /\ Upto(r.hi) = q[2] * 10 + 9
    BY <1>4, <2>1, WholeCategory
  <2>3. code.cat \in q[1]..q[2]
    BY <1>1, <1>2, <2>1, <2>2
  <2>4. code.cat \in Remaining(table)
    BY <2>1, <2>3
  <2>5. SimilarCats = {344, 373}
    BY DEF SimilarCats, Similar
  <2> QED
    BY <2>4, <2>5 DEF Remaining
<1>5. ASSUME NEW u \in table, u.lo.cat \in 400..499, r.lo = u.lo
      PROVE  code.cat \notin {344, 373}
  <2>1. u.lo.cat * 10 <= From(u.lo) /\ From(u.lo) \in Nat
    BY CodeBounds
  <2>2. 4000 <= From(u.lo)
    BY <1>5, <2>1
  <2>3. 400 <= code.cat
    BY <1>1, <1>2, <1>5, <2>1, <2>2
  <2> QED
    BY <1>1, <2>3
<1>6. ASSUME NEW s \in Similar,
             r.lo = [cat |-> s.cat, dec |-> None], r.hi = [cat |-> s.cat, dec |-> None]
      PROVE  code.cat = s.cat
  <2>1. s.cat \in Nat
    BY SimilarTwo
  <2>2. From(r.lo) = s.cat * 10 /\ Upto(r.hi) = s.cat * 10 + 9
    BY <1>6, <2>1, WholeCategory
  <2> QED
    BY <1>1, <1>2, <2>1, <2>2
<1>7. ASSUME \/ \E q \in Runs(Remaining(table)) :
                   /\ r.lo = [cat |-> q[1], dec |-> None]
                   /\ r.hi = [cat |-> q[2], dec |-> None]
             \/ \E u \in table : u.lo.cat \in 400..499 /\ r.lo = u.lo
      PROVE  code.cat \notin {344, 373}
  BY ONLY <1>4, <1>5, <1>7
<1>8. ASSUME NEW s \in Similar, r.id = s.id, r.coverage = s.coverage,
             r.lo = [cat |-> s.cat, dec |-> None], r.hi = [cat |-> s.cat, dec |-> None]
      PROVE  \/ r.id = 2 /\ r.coverage = "other_skin_cancer" /\ code.cat = 344
             \/ r.id = 3 /\ r.coverage = "thyroid_cancer" /\ code.cat = 373
  BY <1>6, <1>8, SimilarTwo
<1>9. CASE \E s \in Similar :
              /\ r.id = s.id /\ r.coverage = s.coverage
              /\ r.lo = [cat |-> s.cat, dec |-> None] /\ r.hi = [cat |-> s.cat, dec |-> None]
  BY ONLY <1>8, <1>9
<1> QED
  <2>1. CASE ~\E s \in Similar :
                /\ r.id = s.id /\ r.coverage = s.coverage
                /\ r.lo = [cat |-> s.cat, dec |-> None] /\ r.hi = [cat |-> s.cat, dec |-> None]
    <3>1. r.id = 1 /\ r.coverage = "cancer_diagnosis"
      BY <2>1, RowOfRanges, Zenon
    <3>2. \/ \E q \in Runs(Remaining(table)) :
                /\ r.lo = [cat |-> q[1], dec |-> None]
                /\ r.hi = [cat |-> q[2], dec |-> None]
          \/ \E u \in table : u.lo.cat \in 400..499 /\ r.lo = u.lo
      BY <2>1, RowOfRanges, Zenon
    <3> QED
      BY <1>7, <3>1, <3>2
  <2> QED
    BY <1>9, <2>1

\* What is concluded from such ranges names the one coverage that holds the code.
LEMMA JudgeNamesTheOne ==
    ASSUME NEW table, \A u \in table : u.lo \in Codes /\ u.hi \in Codes,
           NEW b \in Bases, NEW code \in Codes, NEW coverage,
           NEW rs \in SUBSET {RangeRow(b, r) : r \in SpecificRanges(table)}
    PROVE  OneCover(Judge(code, rs, coverage), Covering(rs, code))
<1> DEFINE cs == Covering(rs, code)
<1>0. Rank[b] \in Nat
  BY TablesAssumption
<1>1. ASSUME NEW x \in rs, Holds(x, code)
      PROVE  \/ x.id = 100 * Rank[b] + 1 /\ x.coverage = "cancer_diagnosis" /\ code.cat \notin {344, 373}
             \/ x.id = 100 * Rank[b] + 2 /\ x.coverage = "other_skin_cancer" /\ code.cat = 344
             \/ x.id = 100 * Rank[b] + 3 /\ x.coverage = "thyroid_cancer" /\ code.cat = 373
  <2>1. PICK r \in SpecificRanges(table) : x = RangeRow(b, r)
    BY <1>1
  <2>2. /\ x.id = 100 * Rank[b] + r.id /\ x.coverage = r.coverage
        /\ x.lo = r.lo /\ x.hi = r.hi
    BY <2>1 DEF RangeRow
  <2>3. Holds(r, code)
    BY <1>1, <2>2 DEF Holds
  <2> QED
    BY <2>2, <2>3, RangesExclude
<1>2. \A c, d \in cs : c = d
  BY <1>1 DEF Covering
<1>3. CASE coverage \in cs
  <2>1. cs = {coverage}
    BY <1>2, <1>3
  <2> QED
    BY <1>3, <2>1 DEF Judge, OneCover, Verdict
<1>4. CASE coverage \notin cs /\ cs = {}
  BY <1>4 DEF Judge, OneCover, Verdict
<1>5. CASE coverage \notin cs /\ cs # {} /\ coverage # None
  BY <1>5 DEF Judge, OneCover, Verdict
<1>6. CASE coverage \notin cs /\ cs # {} /\ coverage = None
  <2>1. PICK c : cs = {c}
    BY <1>2, <1>6
  <2>2. FirstId(rs, c) \in Int
    <3> DEFINE ids == {x.id : x \in {y \in rs : y.coverage = c}}
    <3>1. PICK x \in rs : Holds(x, code) /\ x.coverage = c
      BY <2>1 DEF Covering
    <3>2. PICK k \in {1, 2, 3} :
              x.id = 100 * Rank[b] + k /\ \A r \in SpecificRanges(table) : r.coverage = c => r.id = k
      <4>1. \A r \in SpecificRanges(table) :
                \/ r.id = 1 /\ r.coverage = "cancer_diagnosis"
                \/ r.id = 2 /\ r.coverage = "other_skin_cancer"
                \/ r.id = 3 /\ r.coverage = "thyroid_cancer"
        BY RowIds
      <4> QED
        BY <1>1, <3>1, <4>1
    <3>3. \A y \in rs : y.coverage = c => y.id = 100 * Rank[b] + k
      <4> SUFFICES ASSUME NEW y \in rs, y.coverage = c
                   PROVE  y.id = 100 * Rank[b] + k
        OBVIOUS
      <4>1. PICK r \in SpecificRanges(table) : y = RangeRow(b, r)
        OBVIOUS
      <4> QED
        BY <3>2, <4>1 DEF RangeRow
    <3>4. ids = {100 * Rank[b] + k}
      BY <3>1, <3>3
    <3>5. 100 * Rank[b] + k \in Nat
      BY <1>0
    <3> HIDE DEF ids
    <3>6. (CHOOSE i \in ids : \A j \in ids : i <= j) = 100 * Rank[b] + k
      BY <3>4, <3>5
    <3>7. FirstId(rs, c) = CHOOSE i \in ids : \A j \in ids : i <= j
      BY DEF FirstId, ids
    <3>8. FirstId(rs, c) \in Nat
      BY <3>5, <3>6, <3>7, Zenon
    <3> QED
      BY <3>8
  <2>3. FirstCovering(rs, cs) = c
    <3>1. FirstId(rs, c) <= FirstId(rs, c)
      BY <2>2
    <3>2. \A e : e \in cs /\ (\A d \in cs : FirstId(rs, e) <= FirstId(rs, d)) <=> e = c
      BY <2>1, <3>1
    <3> QED
      BY <3>2 DEF FirstCovering
  <2> QED
    BY <1>6, <2>1, <2>3 DEF Judge, OneCover, Verdict
<1> QED
  BY <1>3, <1>4, <1>5, <1>6

-----------------------------------------------------------------------------
\* Requests.

\* The articles of one edition that is not newer than the one published.
OfOneEdition(p, articles) ==
    \E e \in 1 .. text[p[1]] : articles = ArticlesIn(Editions[p[1]][e], p[2])

\* A branch that finds no row leaves the answer undecided and drops what it
\* has read.
LEMMA LeavePreserves ==
    ASSUME AnswerInv, Leave
    PROVE  AnswerInv'
<1>1. /\ UNCHANGED <<text, db, ask, reply>>
      /\ read' = None
  BY DEF Leave, scriptVars
<1> QED
  BY <1>1 DEF AnswerInv, ReadInv, OwnProduct, ExclusionsAttached, MostSpecific, MostSpecificRate,
              SpecificCover, Replied

\* A branch that goes on to its second query replies nothing yet: what it has
\* read is all that has to be accounted for.
LEMMA KeepPreserves ==
    ASSUME AnswerInv, NEW r, Keep(r), ReadInv'
    PROVE  AnswerInv'
<1>1. UNCHANGED <<text, db, ask, reply>>
  BY DEF Keep, scriptVars
<1> QED
  BY <1>1 DEF AnswerInv, OwnProduct, ExclusionsAttached, MostSpecific, MostSpecificRate,
              SpecificCover, Replied

\* A reply is sound when it names rows of the product asked about, when a rate
\* is the most specific of the rates found and comes with the exclusions of its
\* edition, and when a verdict rests on one cover.
LEMMA GivePreserves ==
    ASSUME AnswerInv, NEW kind, NEW pids, NEW told, Give(kind, pids, told),
           Scope(ask) # None => \A p \in pids : p[1] = Scope(ask),
           kind = "payout" =>
              /\ MostSpecificRate(told.rate) /\ told.rate.pid[1] \in Bases
              /\ OfOneEdition(told.rate.pid, told.articles),
           kind = "coverage" /\ Scope(ask) \in CancerBases => OneCover(told.verdict, told.covering)
    PROVE  AnswerInv'
<1>1. /\ UNCHANGED <<text, db, ask, branch, read>>
      /\ reply' = [kind |-> kind, pids |-> pids, told |-> told]
  BY DEF Give, scriptVars
<1>2. /\ reply'.kind = kind /\ reply'.pids = pids /\ reply'.told = told
  BY <1>1
<1>0. (Replied("payout") => reply.told.rate.pid[1] \in Bases)'
  BY <1>1, <1>2 DEF Replied
<1>3. ReadInv' /\ (ask \in Queries \cup {None})'
  <2>1. Current' = Current
    BY <1>1 DEF Current
  <2> QED
    BY <1>1, <2>1 DEF AnswerInv, ReadInv, MostSpecificRate
<1>4. OwnProduct'
  BY <1>1, <1>2 DEF OwnProduct
<1>5. ExclusionsAttached'
  BY <1>1, <1>2 DEF ExclusionsAttached, Replied, OfOneEdition
<1>6. MostSpecific'
  BY <1>1, <1>2 DEF MostSpecific, MostSpecificRate, Replied
<1>7. SpecificCover'
  BY <1>1, <1>2 DEF SpecificCover, Replied
<1> QED
  BY <1>0, <1>3, <1>4, <1>5, <1>6, <1>7 DEF AnswerInv

\* A request begins with nothing read and nothing told.
LEMMA ArrivePreserves ==
    ASSUME AnswerInv, Arrive
    PROVE  AnswerInv'
<1>1. read' = None /\ reply' = None /\ ask' \in Queries
  BY DEF Arrive
<1> QED
  BY <1>1 DEF AnswerInv, ReadInv, OwnProduct, ExclusionsAttached, MostSpecific, SpecificCover,
              Replied

\* Both queries of the payout branch keep what the replies say accounted for.
LEMMA PayoutPreserves ==
    ASSUME TablesInv, AnswerInv, PayoutRules \/ PayoutExclusions
    PROVE  AnswerInv'
<1>1. CASE PayoutRules
  <2> DEFINE rows == Rules(db, Scope(ask))
             found == Selected(rows, ask.words, ask.says)
  <2>1. CASE found = {}
    BY <1>1, <2>1, LeavePreserves DEF PayoutRules
  <2>2. CASE found # {}
    <3>1. PICK r \in found : Keep([rate |-> r])
      BY <1>1, <2>2 DEF PayoutRules
    <3>2. r \in rows
      BY <3>1, SelectedRead
    <3>3. r.pid \in DOMAIN db.product /\ (Scope(ask) # None => r.pid[1] = Scope(ask))
      BY <3>2 DEF Rules, TablesInv, TablesSound, RulesKnown
    <3>4. MostSpecificRate(r)
      BY <3>1, SelectedSpecific DEF MostSpecificRate
    <3>5. Current = "payout"
      BY <1>1 DEF PayoutRules, Waits
    <3>6. UNCHANGED <<db, ask, branch>> /\ read' = [rate |-> r] /\ read'.rate = r
      BY <3>1 DEF Keep, scriptVars
    <3>7. Current' = "payout"
      BY <3>5, <3>6 DEF Current
    <3>8. ReadInv'
      BY <3>3, <3>4, <3>6, <3>7 DEF ReadInv, MostSpecificRate
    <3> QED
      BY <3>1, <3>8, KeepPreserves
  <2> QED
    BY <2>1, <2>2
<1>2. CASE PayoutExclusions
  <2> DEFINE p == read.rate.pid
             articles == Exclusions(db, p)
             told == [rate |-> read.rate, articles |-> articles]
  <2>1. /\ Current = "payout" /\ read # None
        /\ Give("payout", {p}, told)
    BY <1>2 DEF PayoutExclusions, Waits
  <2>2. /\ p \in DOMAIN db.product
        /\ Scope(ask) # None => p[1] = Scope(ask)
        /\ MostSpecificRate(read.rate)
    BY <2>1 DEF AnswerInv, ReadInv
  <2>3. OfOneEdition(p, articles) /\ p[1] \in Bases
    BY <2>2 DEF TablesInv, TablesSound, ProductsKnown, OfOneEdition
  <2>4. told.rate = read.rate /\ told.articles = articles
    OBVIOUS
  <2> HIDE DEF told, articles
  <2> QED
    BY <2>1, <2>2, <2>3, <2>4, GivePreserves
<1> QED
  BY <1>1, <1>2

\* The policy that is found without a product is one of all; with one, that one.
LEMMA TermsOfProduct ==
    ASSUME NEW d, NEW b, NEW hint, NEW p \in TermsOf(d, b, hint), b # None
    PROVE  p[1] = b
BY DEF TermsOf

\* The contract-terms branch replies with a product of the scope.
LEMMA TermsPreserve ==
    ASSUME AnswerInv, Terms
    PROVE  AnswerInv'
<1> DEFINE found == TermsOf(db, Scope(ask), TermsHint(ask.words))
<1>1. CASE found = {}
  BY <1>1, LeavePreserves DEF Terms
<1>2. CASE found # {}
  <2>1. PICK p \in found : Give("terms", {p}, TermsTold(db.product[p]))
    BY <1>2 DEF Terms
  <2> QED
    BY <2>1, TermsOfProduct, GivePreserves
<1> QED
  BY <1>1, <1>2

\* Both queries of the coverage branch keep what the replies say accounted
\* for.
LEMMA CoveragePreserves ==
    ASSUME TablesInv, AnswerInv, CoverageRanges \/ CoverageRate
    PROVE  AnswerInv'
<1>1. CASE CoverageRanges
  <2> DEFINE rs == Ranges(db, Scope(ask))
             code == CodeOf(ask)
  <2>1. CASE code = None \/ rs = {}
    BY <1>1, <2>1, LeavePreserves DEF CoverageRanges
  <2>2. CASE code # None /\ rs # {}
    <3> DEFINE verdict == Judge(code, rs, CoverageOf(ask))
               covering == Covering(rs, code)
    <3>1. Keep([verdict |-> verdict, covering |-> covering])
      BY <1>1, <2>2 DEF CoverageRanges
    <3>2. Current = "coverage" /\ ask \in Queries
      BY <1>1 DEF CoverageRanges, Waits, AnswerInv
    <3>3. code \in Codes
      <4>1. CASE ask.code # None
        BY <3>2, <4>1, CodesAssumption DEF CodeOf
      <4>2. CASE ask.code = None
        <5>1. FirstOf(Diseases, ask.words) \in Codes \cup {None}
          BY CodesAssumption, FirstOfListed
        <5> QED
          BY <2>2, <4>2, <5>1 DEF CodeOf
      <4> QED
        BY <4>1, <4>2
    <3>4. ASSUME Scope(ask) \in CancerBases
          PROVE  OneCover(verdict, covering)
      <4> DEFINE b == Scope(ask)
      <4>1. PICK e \in 1 .. text[b] :
               rs \subseteq {RangeRow(b, r) : r \in SpecificRanges(Editions[b][e].table)}
        BY <3>4 DEF TablesInv, TablesSound, RangesOfOneEdition
      <4>2. b \in Bases
        BY <3>4, TablesAssumption
      <4>3. e \in DOMAIN Editions[b]
        BY <4>1, <4>2, TablesAssumption DEF TablesInv, Published
      <4>4. \A u \in Editions[b][e].table : u.lo \in Codes /\ u.hi \in Codes
        BY <4>2, <4>3, EditionsAssumption
      <4> HIDE DEF b, rs, code
      <4> QED
        BY <3>3, <4>1, <4>2, <4>4, JudgeNamesTheOne
    <3>5. /\ UNCHANGED <<db, ask, branch>>
          /\ read' = [verdict |-> verdict, covering |-> covering]
      BY <3>1 DEF Keep, scriptVars
    <3>6. read'.verdict = verdict /\ read'.covering = covering
      BY <3>5
    <3>7. Current' = "coverage"
      BY <3>2, <3>5 DEF Current
    <3> HIDE DEF verdict, covering
    <3>8. ReadInv'
      BY <3>4, <3>5, <3>6, <3>7 DEF ReadInv
    <3> QED
      BY <3>1, <3>8, KeepPreserves
  <2> QED
    BY <2>1, <2>2
<1>2. CASE CoverageRate
  <2> DEFINE pays == Effective(read.verdict)
             found == IF pays = None THEN {}
                      ELSE Selected(Rules(db, Scope(ask)), Mentions(pays), {})
  <2>1. PICK r \in IF found = {} THEN {None} ELSE found :
              Give("coverage", IF r = None THEN {} ELSE {r.pid},
                   [verdict |-> read.verdict, rate |-> r, covering |-> read.covering])
    BY <1>2 DEF CoverageRate
  <2> DEFINE pids == IF r = None THEN {} ELSE {r.pid}
             told == [verdict |-> read.verdict, rate |-> r, covering |-> read.covering]
  <2>2. r # None => r \in Rules(db, Scope(ask))
    BY <2>1, SelectedRead
  <2>3. Scope(ask) # None => \A p \in pids : p[1] = Scope(ask)
    BY <2>2 DEF Rules
  <2>4. told.verdict = read.verdict /\ told.covering = read.covering
    OBVIOUS
  <2>5. Scope(ask) \in CancerBases => OneCover(read.verdict, read.covering)
    BY <1>2 DEF CoverageRate, Waits, AnswerInv, ReadInv
  <2> HIDE DEF pids, told
  <2>6. Give("coverage", pids, told)
    BY <2>1 DEF pids, told
  <2> QED
    BY <2>3, <2>4, <2>5, <2>6, GivePreserves
<1> QED
  BY <1>1, <1>2

\* A catalogue is that of the product asked about.
LEMMA CatalogPreserves ==
    ASSUME AnswerInv, CatalogNames
    PROVE  AnswerInv'
<1> DEFINE b == Scope(ask)
           found == IF b = None THEN {} ELSE Covered(Catalog(db, b), ask.words)
<1>1. CASE found = {}
  BY <1>1, LeavePreserves DEF CatalogNames
<1>2. CASE found # {}
  <2>1. Give("catalog", {<<b, 0>>}, found)
    BY <1>2 DEF CatalogNames
  <2> HIDE DEF found
  <2> QED
    BY <2>1, GivePreserves
<1> QED
  BY <1>1, <1>2

\* The waiting-period branch replies with a row of the product asked about.
LEMMA WaitingPreserves ==
    ASSUME AnswerInv, Waiting
    PROVE  AnswerInv'
<1> DEFINE b == Scope(ask)
           found == IF b = None THEN {} ELSE Picked(WaitingRows(db, b), ask.words)
<1>1. CASE found = {}
  BY <1>1, LeavePreserves DEF Waiting
<1>2. CASE found # {}
  <2>1. PICK w \in found : Give("waiting", {w.pid}, w)
    BY <1>2 DEF Waiting
  <2>2. w \in WaitingRows(db, b)
    BY <1>2 DEF Picked
  <2>3. w.pid[1] = b
    BY <2>2 DEF WaitingRows, Children
  <2> QED
    BY <2>1, <2>3, GivePreserves
<1> QED
  BY <1>1, <1>2

\* Both queries of the exclusion branch keep what the replies say accounted
\* for.
LEMMA ExclusionPreserves ==
    ASSUME AnswerInv, ExclusionProduct \/ ExclusionArticles
    PROVE  AnswerInv'
<1>1. CASE ExclusionProduct
  <2> DEFINE found == TermsOf(db, Scope(ask), TermsHint(ask.words))
  <2>1. CASE found = {}
    BY <1>1, <2>1, LeavePreserves DEF ExclusionProduct
  <2>2. CASE found # {}
    <3>1. PICK p \in found : Keep([pid |-> p, refers |-> db.product[p].refers])
      BY <1>1, <2>2 DEF ExclusionProduct
    <3>2. Scope(ask) # None => p[1] = Scope(ask)
      BY <3>1, TermsOfProduct
    <3>3. Current = "exclusion"
      BY <1>1 DEF ExclusionProduct, Waits
    <3>4. UNCHANGED <<db, ask, branch>> /\ read'.pid = p
      BY <3>1 DEF Keep, scriptVars
    <3>5. Current' = "exclusion"
      BY <3>3, <3>4 DEF Current
    <3>6. ReadInv'
      BY <3>2, <3>4, <3>5 DEF ReadInv
    <3> QED
      BY <3>1, <3>6, KeepPreserves
  <2> QED
    BY <2>1, <2>2
<1>2. CASE ExclusionArticles
  <2> DEFINE found == Exclusions(db, read.pid)
  <2>1. CASE Leave
    BY <2>1, LeavePreserves
  <2>2. CASE Give("exclusion", {read.pid}, ExclusionsTold(found, read.refers))
    <3>1. Scope(ask) # None => read.pid[1] = Scope(ask)
      BY <1>2 DEF ExclusionArticles, Waits, AnswerInv, ReadInv
    <3> QED
      BY <2>2, <3>1, GivePreserves
  <2> QED
    BY <1>2, <2>1, <2>2 DEF ExclusionArticles
<1> QED
  BY <1>1, <1>2

-----------------------------------------------------------------------------
\* What ran since what.

\* An operation that runs becomes the last one and leaves the order of the
\* others as it was.
LEMMA RanBefore ==
    ASSUME NEW s, NEW op, NEW a, NEW b
    PROVE  /\ b = op => Before(Ran(s, op), a, b)
           /\ b # op => (Before(Ran(s, op), a, b) <=> a # op /\ Before(s, a, b))
           /\ DOMAIN Ran(s, op) = DOMAIN s \cup {op}
BY DEF Before, Ran

\* Operations of one document are not loads.
LEMMA OpsDiffer ==
    ASSUME NEW x, NEW y, NEW b
    PROVE  <<x, b>> # <<y>>
OBVIOUS

\* The editions published of a document are among those it has.
LEMMA PublishedEditions ==
    ASSUME NEW t, Published(t), NEW b \in Bases
    PROVE  t[b] \in Nat /\ t[b] \in 1..t[b] /\ t[b] \in 1 .. Len(Editions[b])
BY TablesAssumption DEF Published

\* The facts of a subcontract depend on its document and on the names of the
\* subcontracts.
LEMMA FactsSame ==
    ASSUME NEW d, NEW e, NEW t, NEW u, NEW p,
           Children(d, p[1]) = Children(e, p[1]),
           \A c \in Children(d, p[1]) : d.product[c].name = e.product[c].name,
           Doc(p[1], t) = Doc(p[1], u)
    PROVE  FactsFor(d, t, p) = FactsFor(e, u, p)
<1> DEFINE sd == [c \in Children(d, p[1]) |-> d.product[c].name]
           se == [c \in Children(e, p[1]) |-> e.product[c].name]
<1>1. sd = se
  OBVIOUS
<1>2. FactsFor(d, t, p) = {f \in WaitingFacts(Doc(p[1], t)) : p \in Match(f.name, sd)}
  BY DEF FactsFor
<1>3. FactsFor(e, u, p) = {f \in WaitingFacts(Doc(p[1], u)) : p \in Match(f.name, se)}
  BY DEF FactsFor
<1> HIDE DEF sd, se
<1> QED
  BY <1>1, <1>2, <1>3

\* The subcontracts of a document are products of it.
LEMMA ChildOf ==
    ASSUME NEW d, NEW b
    PROVE  \A p \in Children(d, b) : p \in DOMAIN d.product /\ p[1] = b /\ p[2] # 0
BY DEF Children

\* Tables with the same products say the same of waiting periods.
LEMMA SameProducts ==
    ASSUME NEW d, NEW e, NEW t, e.product = d.product
    PROVE  \A b : /\ Children(e, b) = Children(d, b)
                  /\ LeftOver(e, t, b) = LeftOver(d, t, b)
                  /\ \A p : FactsFor(e, t, p) = FactsFor(d, t, p)
                  /\ \A p : WaitTold(e, t, p) <=> WaitTold(d, t, p)
<1>1. \A b : Children(e, b) = Children(d, b)
  BY DEF Children
<1>2. \A b : LeftOver(e, t, b) = LeftOver(d, t, b)
  BY <1>1 DEF LeftOver
<1>3. \A p : FactsFor(e, t, p) = FactsFor(d, t, p)
  BY <1>1, FactsSame
<1>4. \A p : WaitTold(e, t, p) <=> WaitTold(d, t, p)
  BY <1>3 DEF WaitTold
<1> QED
  BY <1>1, <1>2, <1>3, <1>4

-----------------------------------------------------------------------------
\* A new edition.

\* A new edition leaves the tables as they are: what they owe to the old one
\* is owed until the ingest and the loads run again.
LEMMA RevisePreserves ==
    ASSUME NEW d, NEW t, NEW s, Published(t), TablesSound(d, t, s),
           NEW b \in Bases, t[b] < Len(Editions[b])
    PROVE  LET u == [t EXCEPT ![b] = @ + 1]
           IN  Published(u) /\ TablesSound(d, u, Ran(s, <<"revise", b>>))
<1> DEFINE u == [t EXCEPT ![b] = @ + 1]
           op == <<"revise", b>>
           r == Ran(s, op)
<1>1. /\ DOMAIN u = Bases /\ u[b] = t[b] + 1
      /\ \A c \in Bases : c # b => u[c] = t[c]
  BY DEF Published
<1>2. \A c \in Bases : t[c] \in Nat /\ 1..t[c] \subseteq 1..u[c]
  BY <1>1, PublishedEditions
<1>3. Published(u)
  BY <1>1, <1>2, TablesAssumption DEF Published
<1>4. \A c \in Bases : c # b => Doc(c, u) = Doc(c, t)
  BY <1>1 DEF Doc
<1>5. \A a, c : c # op => (Before(r, a, c) => a # op /\ Before(s, a, c))
  BY RanBefore
<1>6. DOMAIN r = DOMAIN s \cup {op}
  BY RanBefore
<1>7. \A c : /\ op # <<"ingest", c>> /\ op # <<"load_payout">> /\ op # <<"load_coverage">>
             /\ op # <<"load_kb_coverage">> /\ op # <<"load_terms">> /\ op # <<"load_waiting">>
  BY OpsDiffer
<1> HIDE DEF u, op, r
<1>8. Columns(d) /\ RulesKnown(d)
  BY DEF TablesSound
<1>9. ProductsKnown(d, u)
  <2> SUFFICES ASSUME NEW p \in DOMAIN d.product
               PROVE  /\ p[1] \in Bases
                      /\ \E e \in 1 .. u[p[1]] :
                            /\ p \in Pids(Editions[p[1]][e], p[1])
                            /\ Exclusions(d, p) = ArticlesIn(Editions[p[1]][e], p[2])
    BY DEF ProductsKnown
  <2>1. /\ p[1] \in Bases
        /\ \E e \in 1 .. t[p[1]] :
              /\ p \in Pids(Editions[p[1]][e], p[1])
              /\ Exclusions(d, p) = ArticlesIn(Editions[p[1]][e], p[2])
    BY DEF TablesSound, ProductsKnown
  <2> QED
    BY <1>2, <2>1
<1>10. RangesOfOneEdition(d, u)
  BY <1>2, TablesAssumption DEF TablesSound, RangesOfOneEdition
<1>11. \A c \in Bases : Before(r, <<"revise", c>>, <<"ingest", c>>) =>
          /\ c # b /\ Before(s, <<"revise", c>>, <<"ingest", c>>)
          /\ LeftOver(d, u, c) = LeftOver(d, t, c)
          /\ \A p \in Children(d, c) : FactsFor(d, u, p) = FactsFor(d, t, p)
  <2> SUFFICES ASSUME NEW c \in Bases, Before(r, <<"revise", c>>, <<"ingest", c>>)
               PROVE  /\ c # b /\ Before(s, <<"revise", c>>, <<"ingest", c>>)
                      /\ LeftOver(d, u, c) = LeftOver(d, t, c)
                      /\ \A p \in Children(d, c) : FactsFor(d, u, p) = FactsFor(d, t, p)
    OBVIOUS
  <2>1. c # b /\ Before(s, <<"revise", c>>, <<"ingest", c>>)
    BY <1>5, <1>7 DEF op
  <2>2. LeftOver(d, u, c) = LeftOver(d, t, c)
    BY <1>4, <2>1 DEF LeftOver
  <2>3. ASSUME NEW p \in Children(d, c)
        PROVE  FactsFor(d, u, p) = FactsFor(d, t, p)
    <3>1. p[1] = c
      BY ChildOf
    <3>2. Doc(p[1], u) = Doc(p[1], t)
      BY <1>4, <2>1, <3>1
    <3> QED
      BY <3>2, FactsSame
  <2> QED
    BY <2>1, <2>2, <2>3
<1>12. Reset(d, u, r)
  <2>1. \A c \in Bases : <<"ingest", c>> \in DOMAIN r => <<c, 0>> \in DOMAIN d.product
    BY <1>6, <1>7 DEF TablesSound, Reset
  <2>2. \A c \in Bases : Before(r, <<"revise", c>>, <<"ingest", c>>) /\ LeftOver(d, u, c) = {}
           => \A p \in Children(d, c) :
                 \/ d.product[p].waiting = None
                 \/ d.product[p].waiting \in {f.waiting : f \in FactsFor(d, u, p)}
    BY <1>11 DEF TablesSound, Reset
  <2> QED
    BY <2>1, <2>2 DEF Reset
<1>13. \A c, x : Before(r, <<"revise", c>>, <<x>>) => c # b /\ Before(s, <<"revise", c>>, <<x>>)
  <2>1. \A x : op # <<x>>
    BY OpsDiffer DEF op
  <2> QED
    BY <1>5, <2>1 DEF op
<1>14. PayoutsInOrder(d, u, r)
  BY <1>4, <1>13, TablesAssumption DEF TablesSound, InOrder, PayoutsInOrder
<1>15. CoverageInOrder(d, u, r)
  BY <1>4, <1>13, TablesAssumption DEF TablesSound, InOrder, CoverageInOrder
<1>16. KbCoverageInOrder(d, u, r)
  BY <1>4, <1>5, <1>7, <1>13, TablesAssumption DEF TablesSound, InOrder, KbCoverageInOrder, SpecificRows
<1>17. TermsInOrder(d, u, r)
  BY <1>4, <1>5, <1>7, <1>11 DEF TablesSound, InOrder, TermsInOrder
<1>18. WaitingInOrder(d, u, r)
  <2> SUFFICES ASSUME NEW c \in KbBases,
                      Before(r, <<"revise", c>>, <<"ingest", c>>),
                      Before(r, <<"ingest", c>>, <<"load_waiting">>),
                      Before(r, <<"load_payout">>, <<"load_waiting">>),
                      LeftOver(d, u, c) = {}, NEW p \in Children(d, c)
               PROVE  WaitTold(d, u, p) /\ ReductionsTold(d, u, p)
    BY DEF WaitingInOrder
  <2>1. c \in Bases
    BY TablesAssumption
  <2>2. /\ Before(s, <<"revise", c>>, <<"ingest", c>>) /\ LeftOver(d, t, c) = {}
        /\ FactsFor(d, u, p) = FactsFor(d, t, p)
    BY <1>11, <2>1
  <2>3. /\ Before(s, <<"ingest", c>>, <<"load_waiting">>)
        /\ Before(s, <<"load_payout">>, <<"load_waiting">>)
    BY <1>5, <1>7
  <2>4. WaitTold(d, t, p) /\ ReductionsTold(d, t, p)
    BY <2>2, <2>3 DEF TablesSound, InOrder, WaitingInOrder
  <2> QED
    BY <2>2, <2>4 DEF WaitTold, ReductionsTold
<1>19. TablesSound(d, u, r)
  BY <1>8, <1>9, <1>10, <1>12, <1>14, <1>15, <1>16, <1>17, <1>18 DEF TablesSound, InOrder
<1> QED
  BY <1>3, <1>19 DEF u, r, op

-----------------------------------------------------------------------------
\* An ingest.

\* The ingest of a document writes its products anew, without their waiting
\* periods, and leaves those of the other documents alone.
LEMMA IngestedProducts ==
    ASSUME NEW d, NEW b, NEW doc, Columns(d)
    PROVE  LET e == Ingested(d, b, doc)
           IN  /\ Columns(e)
               /\ e.rules = d.rules /\ e.ranges = d.ranges
               /\ e.excl = ExclusionsIngested(d, b, doc)
               /\ DOMAIN e.product = DOMAIN d.product \cup Pids(doc, b)
               /\ \A p \in Pids(doc, b) : e.product[p].waiting = None
               /\ \A p \in DOMAIN d.product : p \notin Pids(doc, b) => e.product[p] = d.product[p]
<1> DEFINE e == Ingested(d, b, doc)
<1>1. /\ e.rules = d.rules /\ e.ranges = d.ranges
      /\ e.excl = ExclusionsIngested(d, b, doc)
      /\ e.product = ProductsIngested(d, b, doc)
      /\ DOMAIN e = {"product", "rules", "excl", "ranges"}
  BY DEF Columns, Ingested
<1> HIDE DEF e
<1>2. DOMAIN e.product = DOMAIN d.product \cup Pids(doc, b)
  BY <1>1 DEF ProductsIngested
<1>3. ASSUME NEW p \in Pids(doc, b)
      PROVE  \E n, refers : e.product[p] = [name |-> n, cooling |-> None,
                                            refers |-> refers, waiting |-> None]
  BY <1>1, <1>3 DEF ProductsIngested
<1>4. ASSUME NEW p \in DOMAIN d.product, p \notin Pids(doc, b)
      PROVE  e.product[p] = d.product[p]
  BY <1>1, <1>4 DEF ProductsIngested
<1>5. ASSUME NEW p \in Pids(doc, b)
      PROVE  /\ e.product[p].waiting = None
             /\ DOMAIN e.product[p] = {"name", "cooling", "refers", "waiting"}
  <2>1. PICK n, refers : e.product[p] = [name |-> n, cooling |-> None,
                                         refers |-> refers, waiting |-> None]
    BY <1>3
  <2> QED
    BY <2>1
<1>6. Columns(e)
  BY <1>1, <1>2, <1>4, <1>5 DEF Columns
<1> QED
  BY <1>1, <1>2, <1>4, <1>5, <1>6 DEF e

\* The ingest of a document keeps the tables sound.
LEMMA IngestPreserves ==
    ASSUME NEW d, NEW t, NEW s, Published(t), TablesSound(d, t, s), NEW b \in Bases
    PROVE  TablesSound(Ingested(d, b, Doc(b, t)), t, Ran(s, <<"ingest", b>>))
<1> DEFINE doc == Doc(b, t)
           e == Ingested(d, b, doc)
           op == <<"ingest", b>>
           r == Ran(s, op)
<1> HIDE DEF e, r
<1>1. /\ Columns(e)
      /\ e.rules = d.rules /\ e.ranges = d.ranges
      /\ e.excl = ExclusionsIngested(d, b, doc)
      /\ DOMAIN e.product = DOMAIN d.product \cup Pids(doc, b)
      /\ \A p \in Pids(doc, b) : e.product[p].waiting = None
      /\ \A p \in DOMAIN d.product : p \notin Pids(doc, b) => e.product[p] = d.product[p]
  BY IngestedProducts DEF e, TablesSound
<1>2. \A p \in Pids(doc, b) : p[1] = b
  BY DEF Pids
<1>3. /\ \A a, c : c # op => (Before(r, a, c) => a # op /\ Before(s, a, c))
      /\ DOMAIN r = DOMAIN s \cup {op}
  BY RanBefore DEF r
<1>4. \A c : /\ op # <<"load_payout">> /\ op # <<"load_coverage">>
             /\ op # <<"load_kb_coverage">> /\ op # <<"load_terms">> /\ op # <<"load_waiting">>
             /\ c # b => op # <<"ingest", c>>
  BY OpsDiffer
<1>5. doc = Editions[b][t[b]] /\ t[b] \in 1..t[b]
  BY PublishedEditions DEF Doc
<1> HIDE DEF doc, op
<1>6. ProductsKnown(e, t)
  <2> SUFFICES ASSUME NEW p \in DOMAIN e.product
               PROVE  /\ p[1] \in Bases
                      /\ \E n \in 1 .. t[p[1]] :
                            /\ p \in Pids(Editions[p[1]][n], p[1])
                            /\ Exclusions(e, p) = ArticlesIn(Editions[p[1]][n], p[2])
    BY DEF ProductsKnown
  <2>1. CASE p \in Pids(doc, b)
    <3>1. Exclusions(e, p) = ArticlesIn(doc, p[2])
      <4>1. \A a : a \in ArticlesIn(doc, p[2]) => [pid |-> p, article |-> a] \in e.excl
        <5> DEFINE of(q) == {[pid |-> q, article |-> a] : a \in ArticlesIn(doc, q[2])}
        <5>1. of(p) \subseteq UNION {of(q) : q \in Pids(doc, b)}
          BY <2>1
        <5>2. UNION {of(q) : q \in Pids(doc, b)} \subseteq e.excl
          BY <1>1 DEF ExclusionsIngested
        <5> QED
          BY <5>1, <5>2
      <4>2. \A x \in e.excl : x.pid = p => x.article \in ArticlesIn(doc, p[2])
        BY <1>1, <2>1 DEF ExclusionsIngested
      <4>3. \A a : [pid |-> p, article |-> a].pid = p /\ [pid |-> p, article |-> a].article = a
        OBVIOUS
      <4> QED
        BY <4>1, <4>2, <4>3 DEF Exclusions
    <3> QED
      BY <1>2, <1>5, <2>1, <3>1
  <2>2. CASE p \in DOMAIN d.product /\ p \notin Pids(doc, b)
    <3>1. \A x : x.pid = p => (x \in e.excl <=> x \in d.excl)
      BY <1>1, <2>2 DEF ExclusionsIngested
    <3>2. Exclusions(e, p) = Exclusions(d, p)
      BY <3>1 DEF Exclusions
    <3> QED
      BY <2>2, <3>2 DEF TablesSound, ProductsKnown
  <2> QED
    BY <1>1, <2>1, <2>2
<1>7. RulesKnown(e)
  BY <1>1 DEF TablesSound, RulesKnown
<1>8. \A c : Ranges(e, c) = Ranges(d, c)
  BY <1>1 DEF Ranges
<1>9. RangesOfOneEdition(e, t)
  BY <1>8 DEF TablesSound, RangesOfOneEdition
<1>10. ASSUME NEW c \in Bases, c # b
       PROVE  /\ Children(e, c) = Children(d, c)
              /\ LeftOver(e, t, c) = LeftOver(d, t, c)
              /\ \A p \in Children(d, c) : /\ e.product[p] = d.product[p]
                                           /\ FactsFor(e, t, p) = FactsFor(d, t, p)
  <2>1. Children(e, c) = Children(d, c)
    BY <1>1, <1>2, <1>10 DEF Children
  <2>2. \A p \in Children(d, c) : e.product[p] = d.product[p]
    BY <1>1, <1>2, <1>10, ChildOf
  <2>3. ASSUME NEW p \in Children(d, c)
        PROVE  FactsFor(e, t, p) = FactsFor(d, t, p)
    <3>1. p[1] = c
      BY ChildOf
    <3> QED
      BY <2>1, <2>2, <3>1, FactsSame
  <2> QED
    BY <2>1, <2>2, <2>3 DEF LeftOver
<1>11. Reset(e, t, r)
  <2>1. ASSUME NEW c \in Bases, <<"ingest", c>> \in DOMAIN r
        PROVE  <<c, 0>> \in DOMAIN e.product
    <3>1. CASE c = b
      BY <1>1, <3>1 DEF Pids
    <3>2. CASE c # b
      BY <1>1, <1>3, <1>4, <2>1, <3>2 DEF TablesSound, Reset
    <3> QED
      BY <3>1, <3>2
  <2>2. ASSUME NEW c \in Bases, Before(r, <<"revise", c>>, <<"ingest", c>>),
               LeftOver(e, t, c) = {}, NEW p \in Children(e, c)
        PROVE  \/ e.product[p].waiting = None
               \/ e.product[p].waiting \in {f.waiting : f \in FactsFor(e, t, p)}
    <3>1. CASE c = b
      BY <1>1, <2>2, <3>1 DEF LeftOver, doc
    <3>2. CASE c # b
      <4>1. Before(s, <<"revise", c>>, <<"ingest", c>>)
        BY <1>3, <1>4, <2>2, <3>2
      <4> QED
        BY <1>10, <2>2, <3>2, <4>1 DEF TablesSound, Reset
    <3> QED
      BY <3>1, <3>2
  <2> QED
    BY <2>1, <2>2 DEF Reset
<1>12. PayoutsInOrder(e, t, r)
  BY <1>1, <1>3, <1>4 DEF TablesSound, InOrder, PayoutsInOrder
<1>13. CoverageInOrder(e, t, r)
  BY <1>3, <1>4, <1>8 DEF TablesSound, InOrder, CoverageInOrder
<1>14. KbCoverageInOrder(e, t, r)
  BY <1>3, <1>4, <1>8 DEF TablesSound, InOrder, KbCoverageInOrder
<1>15. TermsInOrder(e, t, r)
  <2> SUFFICES ASSUME NEW c \in Bases, Before(r, <<"revise", c>>, <<"ingest", c>>),
                      Before(r, <<"ingest", c>>, <<"load_terms">>)
               PROVE  e.product[<<c, 0>>].cooling = Withdrawal(Doc(c, t).days)
    BY DEF TermsInOrder
  <2>1. c # b /\ Before(s, <<"ingest", c>>, <<"load_terms">>)
    BY <1>3, <1>4 DEF op
  <2>2. Before(s, <<"revise", c>>, <<"ingest", c>>)
    BY <1>3, <1>4, <2>1
  <2>3. <<c, 0>> \in DOMAIN d.product
    BY <2>2 DEF Before, TablesSound, Reset
  <2>4. e.product[<<c, 0>>] = d.product[<<c, 0>>]
    BY <1>1, <1>2, <2>1, <2>3
  <2> QED
    BY <2>1, <2>2, <2>4 DEF TablesSound, InOrder, TermsInOrder
<1>16. WaitingInOrder(e, t, r)
  <2> SUFFICES ASSUME NEW c \in KbBases,
                      Before(r, <<"revise", c>>, <<"ingest", c>>),
                      Before(r, <<"ingest", c>>, <<"load_waiting">>),
                      Before(r, <<"load_payout">>, <<"load_waiting">>),
                      LeftOver(e, t, c) = {}, NEW p \in Children(e, c)
               PROVE  WaitTold(e, t, p) /\ ReductionsTold(e, t, p)
    BY DEF WaitingInOrder
  <2>1. c \in Bases
    BY TablesAssumption
  <2>2. c # b /\ Before(s, <<"ingest", c>>, <<"load_waiting">>)
    BY <1>3, <1>4 DEF op
  <2>3. /\ Before(s, <<"revise", c>>, <<"ingest", c>>)
        /\ Before(s, <<"load_payout">>, <<"load_waiting">>)
    BY <1>3, <1>4, <2>2
  <2>4. /\ p \in Children(d, c) /\ LeftOver(d, t, c) = {}
        /\ e.product[p] = d.product[p] /\ FactsFor(e, t, p) = FactsFor(d, t, p)
    BY <1>10, <2>1, <2>2
  <2>5. WaitTold(d, t, p) /\ ReductionsTold(d, t, p)
    BY <2>2, <2>3, <2>4 DEF TablesSound, InOrder, WaitingInOrder
  <2>6. WaitTold(e, t, p)
    BY <2>4, <2>5 DEF WaitTold
  <2>7. ReductionsTold(e, t, p)
    BY <1>1, <2>4, <2>5 DEF ReductionsTold
  <2> QED
    BY <2>6, <2>7
<1>17. TablesSound(e, t, r)
  BY <1>1, <1>6, <1>7, <1>9, <1>11, <1>12, <1>13, <1>14, <1>15, <1>16 DEF TablesSound, InOrder
<1> QED
  BY <1>17 DEF e, r, op, doc

-----------------------------------------------------------------------------
\* The loads.  Each of them runs since nothing but what ran since before it.

\* A load that runs comes after every ingest, and changes no order of the
\* others.
LEMMA RanLoad ==
    ASSUME NEW s, NEW load
    PROVE  LET r == Ran(s, <<load>>)
           IN  /\ \A a, b, c : Before(r, <<a, b>>, <<c, b>>) => Before(s, <<a, b>>, <<c, b>>)
               /\ \A b : <<"ingest", b>> \in DOMAIN r => <<"ingest", b>> \in DOMAIN s
               /\ \A a, c : c # load /\ Before(r, a, <<c>>) => a # <<load>> /\ Before(s, a, <<c>>)
<1>1. \A x, y : /\ y # <<load>> => (Before(Ran(s, <<load>>), x, y) => x # <<load>> /\ Before(s, x, y))
                /\ DOMAIN Ran(s, <<load>>) = DOMAIN s \cup {<<load>>}
  BY RanBefore
<1>2. \A x, b : <<x, b>> # <<load>>
  BY OpsDiffer
<1>3. \A c : c # load => <<c>> # <<load>>
  OBVIOUS
<1> QED
  BY <1>1, <1>2, <1>3

\* A load that leaves the products alone keeps what is said of waiting periods.
LEMMA SameReset ==
    ASSUME NEW d, NEW e, NEW t, NEW s, NEW load, e.product = d.product, Reset(d, t, s)
    PROVE  Reset(e, t, Ran(s, <<load>>))
<1> DEFINE r == Ran(s, <<load>>)
<1>1. \A b : /\ Before(r, <<"revise", b>>, <<"ingest", b>>) => Before(s, <<"revise", b>>, <<"ingest", b>>)
             /\ <<"ingest", b>> \in DOMAIN r => <<"ingest", b>> \in DOMAIN s
  BY RanLoad
<1> HIDE DEF r
<1>2. \A b : /\ Children(e, b) = Children(d, b) /\ LeftOver(e, t, b) = LeftOver(d, t, b)
             /\ \A p : FactsFor(e, t, p) = FactsFor(d, t, p)
  BY SameProducts
<1>3. Reset(e, t, r)
  BY <1>1, <1>2 DEF Reset
<1> QED
  BY <1>3 DEF r

\* So does one that leaves the reductions alone as well, unless it is the load
\* after which they are told.
LEMMA SameWaiting ==
    ASSUME NEW d, NEW e, NEW t, NEW s, NEW load, e.product = d.product, e.rules = d.rules,
           load # "load_waiting", WaitingInOrder(d, t, s)
    PROVE  WaitingInOrder(e, t, Ran(s, <<load>>))
<1> DEFINE r == Ran(s, <<load>>)
<1>1. \A a, b : /\ Before(r, <<"revise", b>>, <<"ingest", b>>) => Before(s, <<"revise", b>>, <<"ingest", b>>)
                /\ Before(r, a, <<"load_waiting">>) => Before(s, a, <<"load_waiting">>)
  BY RanLoad
<1> HIDE DEF r
<1>2. \A b : /\ Children(e, b) = Children(d, b) /\ LeftOver(e, t, b) = LeftOver(d, t, b)
             /\ \A p : WaitTold(e, t, p) <=> WaitTold(d, t, p)
             /\ \A p : FactsFor(e, t, p) = FactsFor(d, t, p)
  BY SameProducts
<1>3. \A p : ReductionsTold(e, t, p) <=> ReductionsTold(d, t, p)
  BY <1>2 DEF ReductionsTold
<1>4. WaitingInOrder(e, t, r)
  BY <1>1, <1>2, <1>3 DEF WaitingInOrder
<1> QED
  BY <1>4 DEF r

\* The load of the rates keeps the tables sound once the products that it
\* reads exist.
LEMMA LoadPayoutPreserves ==
    ASSUME NEW d, NEW t, NEW s, Published(t), TablesSound(d, t, s), Exist(d, PayoutBases)
    PROVE  TablesSound(PayoutsLoaded(d, t), t, Ran(s, <<"load_payout">>))
<1> DEFINE e == PayoutsLoaded(d, t)
           r == Ran(s, <<"load_payout">>)
           rows(b) == {RateRow(b, x) : x \in Payouts(Doc(b, t))}
<1>1. /\ e.product = d.product /\ e.excl = d.excl /\ e.ranges = d.ranges
      /\ e.rules = UNION {rows(b) : b \in PayoutBases}
      /\ DOMAIN e = {"product", "rules", "excl", "ranges"}
  BY DEF TablesSound, Columns, PayoutsLoaded
<1> HIDE DEF e
<1>2. \A a, c : c # "load_payout" /\ Before(r, a, <<c>>) => a # <<"load_payout">> /\ Before(s, a, <<c>>)
  BY RanLoad
<1>3. \A a, b, c : Before(r, <<a, b>>, <<c, b>>) => Before(s, <<a, b>>, <<c, b>>)
  BY RanLoad
<1>4. \A b : \A x \in rows(b) : x.pid = <<b, 0>> /\ x.source = "rule"
  BY DEF RateRow
<1> HIDE DEF r, rows
<1>5. Columns(e) /\ ProductsKnown(e, t) /\ RangesOfOneEdition(e, t)
  BY <1>1 DEF TablesSound, Columns, ProductsKnown, Exclusions, RangesOfOneEdition, Ranges
<1>6. RulesKnown(e)
  <2> SUFFICES ASSUME NEW x \in e.rules
               PROVE  x.pid \in DOMAIN d.product
    BY <1>1 DEF RulesKnown
  <2>1. PICK b \in PayoutBases : x \in rows(b)
    BY <1>1
  <2> QED
    BY <1>4, <2>1 DEF Exist
<1>7. Reset(e, t, r)
  BY <1>1, SameReset DEF TablesSound, r
<1>8. PayoutsInOrder(e, t, r)
  <2> SUFFICES ASSUME NEW b \in PayoutBases
               PROVE  {x \in e.rules : x.pid = <<b, 0>> /\ x.source = "rule"} = rows(b)
    BY DEF PayoutsInOrder, rows
  <2>1. \A c : \A x \in rows(c) : x.pid = <<b, 0>> => c = b
    BY <1>4
  <2> QED
    BY <1>1, <1>4, <2>1
<1>9. \A b : Ranges(e, b) = Ranges(d, b)
  BY <1>1 DEF Ranges
<1>10. CoverageInOrder(e, t, r) /\ KbCoverageInOrder(e, t, r)
  BY <1>2, <1>9 DEF TablesSound, InOrder, CoverageInOrder, KbCoverageInOrder
<1>11. TermsInOrder(e, t, r)
  BY <1>1, <1>2, <1>3 DEF TablesSound, InOrder, TermsInOrder
<1>12. WaitingInOrder(e, t, r)
  BY <1>2 DEF WaitingInOrder
<1>13. TablesSound(e, t, r)
  BY <1>5, <1>6, <1>7, <1>8, <1>10, <1>11, <1>12 DEF TablesSound, InOrder
<1> QED
  BY <1>13 DEF e, r

\* The load of the labelled ranges keeps the tables sound.
LEMMA LoadCoveragePreserves ==
    ASSUME NEW d, NEW t, NEW s, Published(t), TablesSound(d, t, s)
    PROVE  TablesSound(CoverageLoaded(d, t), t, Ran(s, <<"load_coverage">>))
<1> DEFINE e == CoverageLoaded(d, t)
           r == Ran(s, <<"load_coverage">>)
           rows(b) == {RangeRow(b, x) : x \in LabelledRanges(Doc(b, t))}
<1>1. /\ e.product = d.product /\ e.excl = d.excl /\ e.rules = d.rules
      /\ e.ranges = UNION {rows(b) : b \in PayoutBases}
      /\ DOMAIN e = {"product", "rules", "excl", "ranges"}
  BY DEF TablesSound, Columns, CoverageLoaded
<1> HIDE DEF e
<1>2. \A a, c : c # "load_coverage" /\ Before(r, a, <<c>>) => a # <<"load_coverage">> /\ Before(s, a, <<c>>)
  BY RanLoad
<1>3. \A a, b, c : Before(r, <<a, b>>, <<c, b>>) => Before(s, <<a, b>>, <<c, b>>)
  BY RanLoad
<1>4. \A b : \A x \in rows(b) : x.pid = <<b, 0>>
  BY DEF RangeRow
<1> HIDE DEF r, rows
<1>5. Columns(e) /\ ProductsKnown(e, t) /\ RulesKnown(e)
  BY <1>1 DEF TablesSound, Columns, ProductsKnown, Exclusions, RulesKnown
<1>6. \A b \in Bases : Ranges(e, b) = IF b \in PayoutBases THEN rows(b) ELSE {}
  BY <1>1, <1>4, TablesAssumption DEF Ranges
<1>7. RangesOfOneEdition(e, t)
  <2> SUFFICES ASSUME NEW b \in CancerBases
               PROVE  \E n \in 1 .. t[b] : Ranges(e, b) = {}
    BY DEF RangesOfOneEdition
  <2>1. b \in Bases /\ b \notin PayoutBases
    BY TablesAssumption
  <2> QED
    BY <1>6, <2>1, PublishedEditions
<1>8. Reset(e, t, r)
  BY <1>1, SameReset DEF TablesSound, r
<1>9. PayoutsInOrder(e, t, r)
  BY <1>1, <1>2 DEF TablesSound, InOrder, PayoutsInOrder
<1>10. CoverageInOrder(e, t, r)
  BY <1>6, TablesAssumption DEF CoverageInOrder, rows
<1>11. KbCoverageInOrder(e, t, r)
  BY <1>2 DEF KbCoverageInOrder
<1>12. TermsInOrder(e, t, r)
  BY <1>1, <1>2, <1>3 DEF TablesSound, InOrder, TermsInOrder
<1>13. WaitingInOrder(e, t, r)
  BY <1>1, SameWaiting DEF TablesSound, InOrder, r
<1>14. TablesSound(e, t, r)
  BY <1>5, <1>7, <1>8, <1>9, <1>10, <1>11, <1>12, <1>13 DEF TablesSound, InOrder
<1> QED
  BY <1>14 DEF e, r

\* The load of the disease table's ranges keeps the tables sound.
LEMMA LoadKbCoveragePreserves ==
    ASSUME NEW d, NEW t, NEW s, Published(t), TablesSound(d, t, s)
    PROVE  TablesSound(KbCoverageLoaded(d, t), t, Ran(s, <<"load_kb_coverage">>))
<1> DEFINE e == KbCoverageLoaded(d, t)
           r == Ran(s, <<"load_kb_coverage">>)
           rows(b) == SpecificRows(b, t)
           plan == Planned(t)
<1>1. /\ e.product = d.product /\ e.excl = d.excl /\ e.rules = d.rules
      /\ e.ranges = {x \in d.ranges : x.pid \notin {<<b, 0>> : b \in plan}}
                    \cup UNION {rows(b) : b \in plan}
      /\ DOMAIN e = {"product", "rules", "excl", "ranges"}
  <2>1. /\ e.product = d.product /\ e.excl = d.excl /\ e.rules = d.rules
        /\ e.ranges = (d.ranges \ UNION {{x \in d.ranges : x.pid = <<b, 0>>} : b \in plan})
                      \cup UNION {rows(b) : b \in CancerBases}
        /\ DOMAIN e = {"product", "rules", "excl", "ranges"}
    BY DEF TablesSound, Columns, KbCoverageLoaded
  <2>2. plan \subseteq CancerBases /\ \A b \in CancerBases : b \in plan <=> rows(b) # {}
    BY DEF Planned
  <2> HIDE DEF e, rows, plan
  <2>3. UNION {rows(b) : b \in CancerBases} = UNION {rows(b) : b \in plan}
    BY <2>2
  <2>4. d.ranges \ UNION {{x \in d.ranges : x.pid = <<b, 0>>} : b \in plan}
          = {x \in d.ranges : x.pid \notin {<<b, 0>> : b \in plan}}
    OBVIOUS
  <2> QED
    BY <2>1, <2>3, <2>4
<1> HIDE DEF e
<1>2. \A a, c : c # "load_kb_coverage" /\ Before(r, a, <<c>>)
                => a # <<"load_kb_coverage">> /\ Before(s, a, <<c>>)
  BY RanLoad
<1>3. \A a, b, c : Before(r, <<a, b>>, <<c, b>>) => Before(s, <<a, b>>, <<c, b>>)
  BY RanLoad
<1>4. /\ \A b : \A x \in rows(b) : x.pid = <<b, 0>>
      /\ plan \subseteq CancerBases /\ \A b \in CancerBases : b \in plan <=> rows(b) # {}
  BY DEF SpecificRows, RangeRow, Planned
<1> HIDE DEF r, rows, plan
<1>5. Columns(e) /\ ProductsKnown(e, t) /\ RulesKnown(e)
  BY <1>1 DEF TablesSound, Columns, ProductsKnown, Exclusions, RulesKnown
<1>6. \A b \in CancerBases : Ranges(e, b) = IF b \in plan THEN rows(b) ELSE Ranges(d, b)
  <2> SUFFICES ASSUME NEW b \in CancerBases
               PROVE  \A x : x \in e.ranges /\ x.pid = <<b, 0>> <=>
                              IF b \in plan THEN x \in rows(b)
                              ELSE x \in d.ranges /\ x.pid = <<b, 0>>
    BY TablesAssumption DEF Ranges
  <2>1. \A c : \A x \in rows(c) : x.pid = <<b, 0>> => c = b
    BY <1>4
  <2>2. ASSUME NEW x
        PROVE  x \in e.ranges /\ x.pid = <<b, 0>> <=>
                  \/ x \in d.ranges /\ x.pid = <<b, 0>> /\ b \notin plan
                  \/ b \in plan /\ x \in rows(b)
    <3>1. x \in e.ranges <=> \/ x \in d.ranges /\ x.pid \notin {<<c, 0>> : c \in plan}
                             \/ \E c \in plan : x \in rows(c)
      BY <1>1
    <3>2. x.pid = <<b, 0>> => (x.pid \notin {<<c, 0>> : c \in plan} <=> b \notin plan)
      OBVIOUS
    <3> QED
      BY <1>4, <2>1, <3>1, <3>2
  <2> QED
    BY <2>2
<1>7. \A b \in PayoutBases : Ranges(e, b) = Ranges(d, b)
  <2> SUFFICES ASSUME NEW b \in PayoutBases
               PROVE  \A x : x.pid = <<b, 0>> => (x \in e.ranges <=> x \in d.ranges)
    BY TablesAssumption DEF Ranges
  <2>1. \A c \in plan : <<c, 0>> # <<b, 0>>
    BY <1>4, TablesAssumption
  <2> QED
    BY <1>1, <1>4, <2>1
<1>8. RangesOfOneEdition(e, t)
  <2> SUFFICES ASSUME NEW b \in CancerBases
               PROVE  \E n \in 1 .. t[b] :
                         Ranges(e, b) \subseteq {RangeRow(b, x) : x \in SpecificRanges(Editions[b][n].table)}
    BY DEF RangesOfOneEdition
  <2>1. t[b] \in 1..t[b]
    BY PublishedEditions, TablesAssumption
  <2>2. CASE b \in plan
    BY <1>6, <2>1, <2>2 DEF rows, SpecificRows, Doc
  <2>3. CASE b \notin plan
    BY <1>6, <2>3 DEF TablesSound, RangesOfOneEdition
  <2> QED
    BY <2>2, <2>3
<1>9. Reset(e, t, r)
  BY <1>1, SameReset DEF TablesSound, r
<1>10. PayoutsInOrder(e, t, r)
  BY <1>1, <1>2 DEF TablesSound, InOrder, PayoutsInOrder
<1>11. CoverageInOrder(e, t, r)
  BY <1>2, <1>7 DEF TablesSound, InOrder, CoverageInOrder
<1>12. KbCoverageInOrder(e, t, r)
  BY <1>4, <1>6 DEF KbCoverageInOrder, rows
<1>13. TermsInOrder(e, t, r)
  BY <1>1, <1>2, <1>3 DEF TablesSound, InOrder, TermsInOrder
<1>14. WaitingInOrder(e, t, r)
  BY <1>1, SameWaiting DEF TablesSound, InOrder, r
<1>15. TablesSound(e, t, r)
  BY <1>5, <1>8, <1>9, <1>10, <1>11, <1>12, <1>13, <1>14 DEF TablesSound, InOrder
<1> QED
  BY <1>15 DEF e, r

\* A bounded set of positions has a last one.
LEMMA GreatestNumber ==
    ASSUME NEW n \in Nat, NEW S \in SUBSET (1..n), S # {}
    PROVE  \E m \in S : \A k \in S : k <= m
<1> DEFINE T == {n - k : k \in S}
<1>1. T \in SUBSET Nat /\ T # {}
  <2>1. \A k \in S : n - k \in Nat
    OBVIOUS
  <2> QED
    BY <2>1
<1>2. PICK l \in T : \A k \in T : l <= k
  BY <1>1, LeastNumber
<1>3. PICK m \in S : l = n - m
  BY <1>2
<1>4. ASSUME NEW k \in S
      PROVE  k <= m
  <2>1. n - m <= n - k
    BY <1>2, <1>3
  <2> QED
    BY <2>1
<1> QED
  BY <1>4

\* What the waiting and the reduction table say of a coverage is one fact.
LEMMA OneFactPerName ==
    ASSUME NEW t, Published(t), NEW b \in Bases,
           NEW f \in WaitingFacts(Doc(b, t)), NEW g \in WaitingFacts(Doc(b, t))
    PROVE  /\ f.at \in 1 .. Len(Doc(b, t).conditions)
           /\ f.name = g.name => f = g
<1> DEFINE c == Doc(b, t).conditions
           first == {j \in DOMAIN c : \A h \in 1..(j - 1) : c[h].name # c[j].name}
           fact(i) == [at |-> i, name |-> c[i].name,
                       waiting |-> FirstTold(c, c[i].name, "waiting"),
                       reduction |-> FirstTold(c, c[i].name, "reduction")]
<1>1. Len(c) \in Nat /\ DOMAIN c = 1 .. Len(c)
  BY EditionsAssumption DEF Doc, Published
<1>2. PICK i \in first : f = fact(i)
  BY DEF WaitingFacts
<1>3. PICK j \in first : g = fact(j)
  BY DEF WaitingFacts
<1>4. f.at = i /\ f.name = c[i].name /\ g.name = c[j].name
  BY <1>2, <1>3
<1>5. c[i].name = c[j].name => i = j
  BY <1>1
<1> QED
  BY <1>1, <1>2, <1>3, <1>4, <1>5

\* A load of waiting periods overwrites those of subcontracts that a fact times.
LEMMA WaitsLoadedProducts ==
    ASSUME NEW d, NEW t, Published(t), Columns(d), ProductsKnown(d, t),
           NEW p \in DOMAIN d.product
    PROVE  LET q == WaitsLoaded(d, t)[p]
               timed == IF p[1] \in KbBases /\ p[2] # 0
                        THEN {f \in FactsFor(d, t, p) : f.waiting # None} ELSE {}
           IN  /\ DOMAIN q = DOMAIN d.product[p]
               /\ q.name = d.product[p].name /\ q.cooling = d.product[p].cooling
               /\ timed = {} => q = d.product[p]
               /\ timed # {} => \E f \in timed : q.waiting = f.waiting
<1> DEFINE q == WaitsLoaded(d, t)[p]
           timed == IF p[1] \in KbBases /\ p[2] # 0
                    THEN {f \in FactsFor(d, t, p) : f.waiting # None} ELSE {}
           last == CHOOSE f \in timed : \A g \in timed : g.at <= f.at
<1>1. q = IF timed = {} THEN d.product[p] ELSE [d.product[p] EXCEPT !.waiting = last.waiting]
  BY DEF WaitsLoaded
<1>2. DOMAIN d.product[p] = {"name", "cooling", "refers", "waiting"}
  BY DEF Columns
<1>3. CASE timed = {}
  BY <1>1, <1>3
<1>4. CASE timed # {}
  <2> DEFINE n == Len(Doc(p[1], t).conditions)
             places == {f.at : f \in timed}
  <2>1. p[1] \in Bases
    BY DEF ProductsKnown
  <2>2. n \in Nat
    BY <2>1, EditionsAssumption DEF Doc, Published
  <2>3. \A f \in timed : f.at \in 1..n
    BY <2>1, OneFactPerName DEF FactsFor
  <2>4. places \in SUBSET (1..n) /\ places # {}
    BY <1>4, <2>3
  <2> HIDE DEF n, timed
  <2>5. PICK m \in places : \A k \in places : k <= m
    BY <2>2, <2>4, GreatestNumber
  <2>6. \E f \in timed : \A g \in timed : g.at <= f.at
    BY <2>5
  <2>7. last \in timed
    BY <2>6
  <2> HIDE DEF last
  <2>8. q = [d.product[p] EXCEPT !.waiting = last.waiting]
    BY <1>1, <1>4
  <2> HIDE DEF q
  <2>9. /\ DOMAIN q = DOMAIN d.product[p]
        /\ q.name = d.product[p].name /\ q.cooling = d.product[p].cooling
        /\ q.waiting = last.waiting
    BY <1>2, <2>8
  <2>10. \E f \in timed : q.waiting = f.waiting
    BY <2>7, <2>9
  <2> QED
    BY <1>4, <2>9, <2>10 DEF q, timed
<1> QED
  BY <1>3, <1>4

\* A reduction row is that of a subcontract whose facts state it.
LEMMA ReductionsOfSubcontracts ==
    ASSUME NEW d, NEW t, NEW x \in Reductions(d, t)
    PROVE  /\ x.pid \in DOMAIN d.product /\ x.source = "kb_table"
           /\ \E g \in FactsFor(d, t, x.pid) : x.coverage = g.name /\ x.reduction = g.reduction
<1>1. PICK p \in UNION {Children(d, b) : b \in KbBases} :
          x \in {ReductionRow(p, f) : f \in {g \in FactsFor(d, t, p) : g.reduction # None}}
  BY DEF Reductions
<1>2. PICK f \in FactsFor(d, t, p) : x = ReductionRow(p, f)
  BY <1>1
<1>3. p \in DOMAIN d.product
  BY <1>1, ChildOf
<1> QED
  BY <1>2, <1>3 DEF ReductionRow

\* The load of the waiting periods and the reductions keeps the tables sound.
LEMMA LoadWaitingPreserves ==
    ASSUME NEW d, NEW t, NEW s, Published(t), TablesSound(d, t, s)
    PROVE  TablesSound(WaitingLoaded(d, t), t, Ran(s, <<"load_waiting">>))
<1> DEFINE e == WaitingLoaded(d, t)
           r == Ran(s, <<"load_waiting">>)
           timed(p) == IF p[1] \in KbBases /\ p[2] # 0
                       THEN {f \in FactsFor(d, t, p) : f.waiting # None} ELSE {}
<1>1. /\ e.product = WaitsLoaded(d, t) /\ e.excl = d.excl /\ e.ranges = d.ranges
      /\ e.rules = ReductionsLoaded(d, t)
      /\ DOMAIN e = {"product", "rules", "excl", "ranges"}
  BY DEF TablesSound, Columns, WaitingLoaded
<1> HIDE DEF e
<1>2. \A a, c : c # "load_waiting" /\ Before(r, a, <<c>>) => a # <<"load_waiting">> /\ Before(s, a, <<c>>)
  BY RanLoad
<1>3. \A a, b, c : /\ Before(r, <<a, b>>, <<c, b>>) => Before(s, <<a, b>>, <<c, b>>)
                   /\ <<"ingest", b>> \in DOMAIN r => <<"ingest", b>> \in DOMAIN s
  BY RanLoad
<1> HIDE DEF r
<1>4. DOMAIN e.product = DOMAIN d.product
  BY <1>1 DEF WaitsLoaded
<1>5. \A p \in DOMAIN d.product :
          /\ DOMAIN e.product[p] = DOMAIN d.product[p]
          /\ e.product[p].name = d.product[p].name /\ e.product[p].cooling = d.product[p].cooling
          /\ timed(p) = {} => e.product[p] = d.product[p]
          /\ timed(p) # {} => \E f \in timed(p) : e.product[p].waiting = f.waiting
  BY <1>1, WaitsLoadedProducts DEF TablesSound
<1>6. \A b : Children(e, b) = Children(d, b) /\ LeftOver(e, t, b) = LeftOver(d, t, b)
  BY <1>4 DEF Children, LeftOver
<1>7. \A p : FactsFor(e, t, p) = FactsFor(d, t, p)
  BY <1>5, <1>6, FactsSame, ChildOf
<1>8. Columns(e) /\ ProductsKnown(e, t) /\ RangesOfOneEdition(e, t)
  BY <1>1, <1>4, <1>5 DEF TablesSound, Columns, ProductsKnown, Exclusions, RangesOfOneEdition, Ranges
<1>9. \A x \in e.rules : x \in d.rules \/ x \in Reductions(d, t)
  BY <1>1 DEF ReductionsLoaded
<1>10. RulesKnown(e)
  BY <1>4, <1>9, ReductionsOfSubcontracts DEF TablesSound, RulesKnown
<1>11. Reset(e, t, r)
  <2>1. \A b \in Bases : <<"ingest", b>> \in DOMAIN r => <<b, 0>> \in DOMAIN e.product
    BY <1>3, <1>4 DEF TablesSound, Reset
  <2>2. ASSUME NEW b \in Bases, Before(r, <<"revise", b>>, <<"ingest", b>>),
               LeftOver(e, t, b) = {}, NEW p \in Children(e, b)
        PROVE  \/ e.product[p].waiting = None
               \/ e.product[p].waiting \in {f.waiting : f \in FactsFor(e, t, p)}
    <3>1. p \in Children(d, b) /\ p \in DOMAIN d.product /\ LeftOver(d, t, b) = {}
      BY <1>6, <2>2, ChildOf
    <3>2. CASE timed(p) = {}
      <4>1. Before(s, <<"revise", b>>, <<"ingest", b>>)
        BY <1>3, <2>2
      <4>2. \/ d.product[p].waiting = None
            \/ d.product[p].waiting \in {f.waiting : f \in FactsFor(d, t, p)}
        BY <3>1, <4>1 DEF TablesSound, Reset
      <4> QED
        BY <1>5, <1>7, <3>1, <3>2, <4>2
    <3>3. CASE timed(p) # {}
      BY <1>5, <1>7, <3>1, <3>3
    <3> QED
      BY <3>2, <3>3
  <2> QED
    BY <2>1, <2>2 DEF Reset
<1>12. PayoutsInOrder(e, t, r)
  <2>1. \A x : x.source = "rule" => (x \in e.rules <=> x \in d.rules)
    <3>1. \A x \in Reductions(d, t) : x.source = "kb_table"
      BY ReductionsOfSubcontracts
    <3> QED
      BY <1>1, <3>1 DEF ReductionsLoaded
  <2> QED
    BY <1>2, <2>1 DEF TablesSound, InOrder, PayoutsInOrder
<1>13. \A b : Ranges(e, b) = Ranges(d, b)
  BY <1>1 DEF Ranges
<1>14. CoverageInOrder(e, t, r) /\ KbCoverageInOrder(e, t, r)
  BY <1>2, <1>13 DEF TablesSound, InOrder, CoverageInOrder, KbCoverageInOrder
<1>15. TermsInOrder(e, t, r)
  <2> SUFFICES ASSUME NEW b \in Bases, Before(r, <<"revise", b>>, <<"ingest", b>>),
                      Before(r, <<"ingest", b>>, <<"load_terms">>)
               PROVE  e.product[<<b, 0>>].cooling = Withdrawal(Doc(b, t).days)
    BY DEF TermsInOrder
  <2>1. Before(s, <<"revise", b>>, <<"ingest", b>>) /\ Before(s, <<"ingest", b>>, <<"load_terms">>)
    BY <1>2, <1>3
  <2>2. <<b, 0>> \in DOMAIN d.product
    BY <2>1 DEF TablesSound, Reset, Before
  <2> QED
    BY <1>5, <2>1, <2>2 DEF TablesSound, InOrder, TermsInOrder
<1>16. WaitingInOrder(e, t, r)
  <2> SUFFICES ASSUME NEW b \in KbBases, Before(r, <<"revise", b>>, <<"ingest", b>>),
                      LeftOver(e, t, b) = {}, NEW p \in Children(e, b)
               PROVE  WaitTold(e, t, p) /\ ReductionsTold(e, t, p)
    BY DEF WaitingInOrder
  <2>1. /\ p \in Children(d, b) /\ p \in DOMAIN d.product /\ p[1] = b /\ p[2] # 0
        /\ LeftOver(d, t, b) = {} /\ b \in Bases
    BY <1>6, ChildOf, TablesAssumption
  <2>2. WaitTold(e, t, p)
    <3>1. CASE timed(p) = {}
      <4>1. \A f \in FactsFor(d, t, p) : f.waiting = None
        BY <2>1, <3>1
      <4>2. \/ d.product[p].waiting = None
            \/ d.product[p].waiting \in {f.waiting : f \in FactsFor(d, t, p)}
        BY <1>3, <2>1 DEF TablesSound, Reset
      <4>3. e.product[p] = d.product[p]
        BY <1>5, <2>1, <3>1
      <4> QED
        BY <1>7, <4>1, <4>2, <4>3 DEF WaitTold
    <3>2. CASE timed(p) # {}
      BY <1>5, <1>7, <2>1, <3>2 DEF WaitTold
    <3> QED
      BY <3>1, <3>2
  <2>3. ReductionsTold(e, t, p)
    <3> SUFFICES ASSUME NEW f \in FactsFor(d, t, p), f.reduction # None
                 PROVE  {x.reduction : x \in {y \in e.rules : y.pid = p /\ y.coverage = f.name
                                                                /\ y.source = "kb_table"}} = {f.reduction}
      BY <1>7 DEF ReductionsTold
    <3> DEFINE row == ReductionRow(p, f)
    <3>1. /\ row.pid = p /\ row.coverage = f.name /\ row.source = "kb_table"
          /\ row.reduction = f.reduction
      BY DEF ReductionRow
    <3>2. row \in Reductions(d, t)
      <4> DEFINE of(q) == {ReductionRow(q, h) : h \in {g \in FactsFor(d, t, q) : g.reduction # None}}
      <4>1. p \in UNION {Children(d, c) : c \in KbBases}
        BY <2>1
      <4>2. row \in of(p)
        OBVIOUS
      <4>3. Reductions(d, t) = UNION {of(q) : q \in UNION {Children(d, c) : c \in KbBases}}
        BY DEF Reductions
      <4> HIDE DEF of
      <4> QED
        BY <4>1, <4>2, <4>3
    <3>3. row \in e.rules
      BY <1>1, <3>2 DEF ReductionsLoaded
    <3> HIDE DEF row
    <3>4. ASSUME NEW y \in e.rules, y.pid = p, y.coverage = f.name, y.source = "kb_table"
          PROVE  y.reduction = f.reduction
      <4>1. y \in Reductions(d, t)
        BY <1>1, <3>1, <3>2, <3>4 DEF ReductionsLoaded
      <4>2. PICK g \in FactsFor(d, t, p) : y.coverage = g.name /\ y.reduction = g.reduction
        BY <3>4, <4>1, ReductionsOfSubcontracts
      <4>3. f \in WaitingFacts(Doc(b, t)) /\ g \in WaitingFacts(Doc(b, t))
        BY <2>1 DEF FactsFor
      <4>4. f = g
        <5>1. f.name = g.name
          BY <3>4, <4>2
        <5> QED
          BY <2>1, <4>3, <5>1, OneFactPerName
      <4> QED
        BY <4>2, <4>4
    <3> QED
      BY <3>1, <3>3, <3>4
  <2> QED
    BY <2>2, <2>3
<1>17. TablesSound(e, t, r)
  BY <1>8, <1>10, <1>11, <1>12, <1>14, <1>15, <1>16 DEF TablesSound, InOrder
<1> QED
  BY <1>17 DEF e, r

\* The load of the contract terms keeps the tables sound.
LEMMA LoadTermsPreserves ==
    ASSUME NEW d, NEW t, NEW s, Published(t), TablesSound(d, t, s)
    PROVE  TablesSound(TermsLoaded(d, t), t, Ran(s, <<"load_terms">>))
<1> DEFINE e == TermsLoaded(d, t)
           r == Ran(s, <<"load_terms">>)
           days(p) == Withdrawal(Doc(p[1], t).days)
<1>1. /\ e.product = [p \in DOMAIN d.product |->
                        IF p[2] # 0 THEN d.product[p]
                        ELSE [d.product[p] EXCEPT !.cooling = days(p),
                                                  !.refers = @ \/ days(p) = None]]
      /\ e.excl = d.excl /\ e.ranges = d.ranges /\ e.rules = d.rules
      /\ DOMAIN e = {"product", "rules", "excl", "ranges"}
  BY DEF TablesSound, Columns, TermsLoaded
<1> HIDE DEF e
<1>2. \A a, c : c # "load_terms" /\ Before(r, a, <<c>>) => a # <<"load_terms">> /\ Before(s, a, <<c>>)
  BY RanLoad
<1>3. \A a, b, c : /\ Before(r, <<a, b>>, <<c, b>>) => Before(s, <<a, b>>, <<c, b>>)
                   /\ <<"ingest", b>> \in DOMAIN r => <<"ingest", b>> \in DOMAIN s
  BY RanLoad
<1> HIDE DEF r, days
<1>4. DOMAIN e.product = DOMAIN d.product
  BY <1>1
<1>5. ASSUME NEW p \in DOMAIN d.product
      PROVE  /\ DOMAIN e.product[p] = DOMAIN d.product[p]
             /\ e.product[p].name = d.product[p].name
             /\ e.product[p].waiting = d.product[p].waiting
             /\ p[2] = 0 => e.product[p].cooling = days(p)
  <2>1. DOMAIN d.product[p] = {"name", "cooling", "refers", "waiting"}
    BY DEF TablesSound, Columns
  <2>2. CASE p[2] # 0
    BY <1>1, <2>2
  <2>3. CASE p[2] = 0
    <3>1. \E w : e.product[p] = [d.product[p] EXCEPT !.cooling = days(p), !.refers = w]
      BY <1>1, <2>3
    <3> QED
      BY <2>1, <3>1
  <2> QED
    BY <2>2, <2>3
<1>6. \A b : Children(e, b) = Children(d, b) /\ LeftOver(e, t, b) = LeftOver(d, t, b)
  BY <1>4 DEF Children, LeftOver
<1>7. \A p : FactsFor(e, t, p) = FactsFor(d, t, p)
  BY <1>5, <1>6, FactsSame, ChildOf
<1>8. /\ Columns(e) /\ ProductsKnown(e, t) /\ RulesKnown(e) /\ RangesOfOneEdition(e, t)
  BY <1>1, <1>4, <1>5 DEF TablesSound, Columns, ProductsKnown, Exclusions, RulesKnown,
                          RangesOfOneEdition, Ranges
<1>9. Reset(e, t, r)
  BY <1>3, <1>4, <1>5, <1>6, <1>7, ChildOf DEF TablesSound, Reset
<1>10. PayoutsInOrder(e, t, r)
  BY <1>1, <1>2 DEF TablesSound, InOrder, PayoutsInOrder
<1>11. \A b : Ranges(e, b) = Ranges(d, b)
  BY <1>1 DEF Ranges
<1>12. CoverageInOrder(e, t, r) /\ KbCoverageInOrder(e, t, r)
  BY <1>2, <1>11 DEF TablesSound, InOrder, CoverageInOrder, KbCoverageInOrder
<1>13. TermsInOrder(e, t, r)
  <2> SUFFICES ASSUME NEW b \in Bases, Before(r, <<"revise", b>>, <<"ingest", b>>)
               PROVE  e.product[<<b, 0>>].cooling = Withdrawal(Doc(b, t).days)
    BY DEF TermsInOrder
  <2>1. <<b, 0>> \in DOMAIN d.product
    BY <1>3 DEF TablesSound, Reset, Before
  <2> QED
    BY <1>5, <2>1 DEF days
<1>14. WaitingInOrder(e, t, r)
  <2> SUFFICES ASSUME NEW b \in KbBases,
                      Before(r, <<"revise", b>>, <<"ingest", b>>),
                      Before(r, <<"ingest", b>>, <<"load_waiting">>),
                      Before(r, <<"load_payout">>, <<"load_waiting">>),
                      LeftOver(e, t, b) = {}, NEW p \in Children(e, b)
               PROVE  WaitTold(e, t, p) /\ ReductionsTold(e, t, p)
    BY DEF WaitingInOrder
  <2>1. p \in Children(d, b) /\ p \in DOMAIN d.product /\ LeftOver(d, t, b) = {}
    BY <1>6, ChildOf
  <2>2. WaitTold(d, t, p) /\ ReductionsTold(d, t, p)
    BY <1>2, <1>3, <2>1 DEF TablesSound, InOrder, WaitingInOrder
  <2>3. WaitTold(e, t, p)
    BY <1>5, <1>7, <2>1, <2>2 DEF WaitTold
  <2>4. ReductionsTold(e, t, p)
    BY <1>1, <1>7, <2>2 DEF ReductionsTold
  <2> QED
    BY <2>3, <2>4
<1>15. TablesSound(e, t, r)
  BY <1>8, <1>9, <1>10, <1>12, <1>13, <1>14 DEF TablesSound, InOrder
<1> QED
  BY <1>15 DEF e, r

-----------------------------------------------------------------------------
\* Every step, and the theorems.

\* A script keeps the tables sound and the requests under way.
LEMMA ScriptStep ==
    ASSUME TablesInv,
           \/ \E b \in Bases : Revise(b) \/ Ingest(b)
           \/ LoadPayout \/ LoadCoverage \/ LoadKbCoverage \/ LoadWaiting \/ LoadTerms
    PROVE  /\ TablesInv' /\ UNCHANGED requestVars
           /\ DOMAIN db.product \subseteq DOMAIN db'.product
           /\ \A b \in Bases : 1..text[b] \subseteq (1..text[b])'
<1> USE DEF TablesInv
<1>1. ASSUME NEW b \in Bases, Revise(b)
      PROVE  /\ TablesInv' /\ UNCHANGED requestVars /\ db' = db
             /\ \A c \in Bases : 1..text[c] \subseteq (1..text[c])'
  <2>1. /\ text[b] < Len(Editions[b]) /\ text' = [text EXCEPT ![b] = @ + 1]
        /\ db' = db /\ since' = Ran(since, <<"revise", b>>) /\ UNCHANGED requestVars
    BY <1>1 DEF Revise, Run
  <2>2. TablesInv'
    BY <2>1, RevisePreserves
  <2>3. \A c \in Bases : text[c] \in Nat /\ text'[c] \in {text[c], text[c] + 1}
    BY <2>1, PublishedEditions DEF Published
  <2>4. \A c \in Bases : 1..text[c] \subseteq (1..text[c])'
    BY <2>3
  <2> QED
    BY <2>1, <2>2, <2>4
<1>2. ASSUME NEW b \in Bases, Ingest(b)
      PROVE  /\ TablesInv' /\ UNCHANGED <<text, requestVars>>
             /\ DOMAIN db.product \subseteq DOMAIN db'.product
  <2>1. /\ db' = Ingested(db, b, Doc(b, text)) /\ since' = Ran(since, <<"ingest", b>>)
        /\ UNCHANGED <<text, requestVars>>
    BY <1>2 DEF Ingest, Run
  <2>2. TablesInv'
    BY <2>1, IngestPreserves
  <2>3. DOMAIN db.product \subseteq DOMAIN db'.product
    BY <2>1, IngestedProducts DEF TablesSound
  <2> QED
    BY <2>1, <2>2, <2>3
<1>3. ASSUME LoadPayout \/ LoadCoverage \/ LoadKbCoverage \/ LoadWaiting \/ LoadTerms
      PROVE  /\ TablesInv' /\ UNCHANGED <<text, requestVars>>
             /\ DOMAIN db.product = DOMAIN db'.product
  <2>1. CASE LoadPayout
    <3>1. /\ Exist(db, PayoutBases) /\ db' = PayoutsLoaded(db, text)
          /\ since' = Ran(since, <<"load_payout">>) /\ UNCHANGED <<text, requestVars>>
      BY <2>1 DEF LoadPayout, Run
    <3>2. db'.product = db.product
      BY <3>1 DEF PayoutsLoaded, TablesSound, Columns
    <3> QED
      BY <3>1, <3>2, LoadPayoutPreserves
  <2>2. CASE LoadCoverage
    <3>1. /\ db' = CoverageLoaded(db, text)
          /\ since' = Ran(since, <<"load_coverage">>) /\ UNCHANGED <<text, requestVars>>
      BY <2>2 DEF LoadCoverage, Run
    <3>2. db'.product = db.product
      BY <3>1 DEF CoverageLoaded, TablesSound, Columns
    <3> QED
      BY <3>1, <3>2, LoadCoveragePreserves
  <2>3. CASE LoadKbCoverage
    <3>1. /\ db' = KbCoverageLoaded(db, text)
          /\ since' = Ran(since, <<"load_kb_coverage">>) /\ UNCHANGED <<text, requestVars>>
      BY <2>3 DEF LoadKbCoverage, Run
    <3>2. db'.product = db.product
      BY <3>1 DEF KbCoverageLoaded, TablesSound, Columns
    <3> QED
      BY <3>1, <3>2, LoadKbCoveragePreserves
  <2>4. CASE LoadWaiting
    <3>1. /\ db' = WaitingLoaded(db, text)
          /\ since' = Ran(since, <<"load_waiting">>) /\ UNCHANGED <<text, requestVars>>
      BY <2>4 DEF LoadWaiting, Run
    <3>2. DOMAIN db'.product = DOMAIN db.product
      BY <3>1 DEF WaitingLoaded, WaitsLoaded, TablesSound, Columns
    <3> QED
      BY <3>1, <3>2, LoadWaitingPreserves
  <2>5. CASE LoadTerms
    <3>1. /\ db' = TermsLoaded(db, text)
          /\ since' = Ran(since, <<"load_terms">>) /\ UNCHANGED <<text, requestVars>>
      BY <2>5 DEF LoadTerms, Run
    <3>2. DOMAIN db'.product = DOMAIN db.product
      BY <3>1 DEF TermsLoaded, TablesSound, Columns
    <3> QED
      BY <3>1, <3>2, LoadTermsPreserves
  <2> QED
    BY <1>3, <2>1, <2>2, <2>3, <2>4, <2>5
<1> QED
  BY <1>1, <1>2, <1>3

\* What was read and told stays true when a script runs.
LEMMA AnswersSurviveScripts ==
    ASSUME TablesInv, AnswerInv, UNCHANGED requestVars,
           DOMAIN db.product \subseteq DOMAIN db'.product,
           \A b \in Bases : 1..text[b] \subseteq (1..text[b])'
    PROVE  AnswerInv'
<1>1. UNCHANGED <<ask, branch, read, reply>>
  BY DEF requestVars
<1>2. Current' = Current
  BY <1>1 DEF Current
<1>3. ReadInv'
  BY <1>1, <1>2 DEF AnswerInv, ReadInv, MostSpecificRate
<1>4. ExclusionsAttached'
  BY <1>1 DEF AnswerInv, ExclusionsAttached, Replied
<1> QED
  BY <1>1, <1>3, <1>4 DEF AnswerInv, OwnProduct, MostSpecific, MostSpecificRate, SpecificCover, Replied

\* A request leaves the tables and the documents alone.
LEMMA RequestStep ==
    ASSUME TablesInv, AnswerInv,
           \/ Arrive \/ NoFact \/ PayoutRules \/ PayoutExclusions \/ Terms
           \/ CoverageRanges \/ CoverageRate \/ CatalogNames \/ Waiting
           \/ ExclusionProduct \/ ExclusionArticles
    PROVE  TablesInv' /\ AnswerInv'
<1>1. UNCHANGED scriptVars
  BY DEF Arrive, NoFact, PayoutRules, PayoutExclusions, Terms, CoverageRanges, CoverageRate,
         CatalogNames, Waiting, ExclusionProduct, ExclusionArticles, Give, Keep, Leave
<1>2. TablesInv'
  BY <1>1 DEF TablesInv, scriptVars
<1>3. ASSUME NoFact
      PROVE  AnswerInv'
  <2>1. Give("none", {}, {})
    BY <1>3 DEF NoFact
  <2> QED
    BY <2>1, GivePreserves
<1> QED
  BY <1>2, <1>3, ArrivePreserves, PayoutPreserves, TermsPreserve, CoveragePreserves,
     CatalogPreserves, WaitingPreserves, ExclusionPreserves

\* The first script may run on empty tables: with them the hypothesis of the
\* theorems holds, whatever the documents.
LEMMA EmptyIsSound ==
    LET t == [b \in Bases |-> 1]
    IN  TablesSound(Empty, t, <<>>) /\ RatesSound(Empty, t) /\ FactsSound(Empty, t)
<1> DEFINE t == [b \in Bases |-> 1]
<1>1. /\ DOMAIN Empty = {"product", "rules", "excl", "ranges"}
      /\ DOMAIN Empty.product = {} /\ Empty.rules = {} /\ Empty.excl = {} /\ Empty.ranges = {}
  BY DEF Empty
<1>2. \A a, b : ~Before(<<>>, a, b)
  BY DEF Before
<1>3. \A b : b \notin DOMAIN <<>>
  OBVIOUS
<1>4. \A b \in CancerBases : 1 \in 1..t[b] /\ Ranges(Empty, b) = {}
  BY <1>1, TablesAssumption DEF Ranges
<1> HIDE DEF t
<1>5. RangesOfOneEdition(Empty, t)
  BY <1>4 DEF RangesOfOneEdition
<1>6. InOrder(Empty, t, <<>>)
  BY <1>2 DEF InOrder, PayoutsInOrder, CoverageInOrder, KbCoverageInOrder, TermsInOrder,
              WaitingInOrder
<1>7. Reset(Empty, t, <<>>)
  BY <1>2, <1>3 DEF Reset
<1>8. TablesSound(Empty, t, <<>>)
  BY <1>1, <1>5, <1>6, <1>7 DEF TablesSound, Columns, ProductsKnown, RulesKnown
<1>9. RatesSound(Empty, t)
  BY <1>1 DEF RatesSound, RatesOfOneEdition, RatesOf, RangesNamed
<1>10. FactsSound(Empty, t)
  BY <1>1 DEF FactsSound, ChildrenOfOneEdition, Children
<1> QED
  BY <1>8, <1>9, <1>10 DEF t

\* The tables stay sound and every request stays true, whatever scripts and
\* editions come in between its statements.
THEOREM TablesInvariant ==
    ASSUME StartSound
    PROVE  Spec => []TablesRequestInv
<1>1. Init => TablesRequestInv
  <2> SUFFICES ASSUME Init
               PROVE  TablesRequestInv
    OBVIOUS
  <2>1. Published(text)
    BY TablesAssumption DEF Init, Published
  <2>2. TablesSound(db, text, since)
    BY DEF Init, StartSound
  <2>3. AnswerInv
    BY DEF Init, AnswerInv, ReadInv, OwnProduct, ExclusionsAttached, MostSpecific, SpecificCover,
           Replied
  <2> QED
    BY <2>1, <2>2, <2>3 DEF TablesRequestInv, TablesInv
<1>2. TablesRequestInv /\ [Next]_vars => TablesRequestInv'
  <2> SUFFICES ASSUME TablesInv, AnswerInv, [Next]_vars
               PROVE  TablesInv' /\ AnswerInv'
    BY DEF TablesRequestInv
  <2>1. CASE \/ \E b \in Bases : Revise(b) \/ Ingest(b)
             \/ LoadPayout \/ LoadCoverage \/ LoadKbCoverage \/ LoadWaiting \/ LoadTerms
    BY <2>1, ScriptStep, AnswersSurviveScripts
  <2>2. CASE \/ Arrive \/ NoFact \/ PayoutRules \/ PayoutExclusions \/ Terms
             \/ CoverageRanges \/ CoverageRate \/ CatalogNames \/ Waiting
             \/ ExclusionProduct \/ ExclusionArticles
    BY <2>2, RequestStep
  <2>3. CASE UNCHANGED vars
    <3>1. UNCHANGED <<text, db, since, ask, branch, read, reply>>
      BY <2>3 DEF vars
    <3>2. Current' = Current
      BY <3>1 DEF Current
    <3> QED
      BY <3>1, <3>2 DEF TablesInv, AnswerInv, ReadInv, OwnProduct, ExclusionsAttached, MostSpecific,
                        MostSpecificRate, SpecificCover, Replied
  <2> QED
    BY <2>1, <2>2, <2>3 DEF Next
<1> QED
  BY <1>1, <1>2, PTL DEF Spec

\* A question that names its product is answered from that product and its
\* subcontracts alone, for any questions and tables.
THEOREM OnlyItsProduct ==
    ASSUME StartSound
    PROVE  Spec => []OwnProduct
<1>1. TablesRequestInv => OwnProduct
  BY DEF TablesRequestInv, AnswerInv
<1> QED
  BY <1>1, TablesInvariant, PTL

\* A rate is told with the exclusions of its product in one edition, though a
\* script may replace both between the two statements.
THEOREM RateWithExclusions ==
    ASSUME StartSound
    PROVE  Spec => []ExclusionsAttached
<1>1. TablesRequestInv => ExclusionsAttached
  BY DEF TablesRequestInv, AnswerInv
<1> QED
  BY <1>1, TablesInvariant, PTL

\* The rate told is of the most specific coverage the question names, for any
\* list of keywords.
THEOREM RateIsSpecific ==
    ASSUME StartSound
    PROVE  Spec => []MostSpecific
<1>1. TablesRequestInv => MostSpecific
  BY DEF TablesRequestInv, AnswerInv
<1> QED
  BY <1>1, TablesInvariant, PTL

\* A code that is covered is covered by one coverage of the insurer that insures
\* similar diseases separately, for any table of diseases.
THEOREM CoversExclude ==
    ASSUME StartSound
    PROVE  Spec => []SpecificCover
<1>1. TablesRequestInv => SpecificCover
  BY DEF TablesRequestInv, AnswerInv
<1> QED
  BY <1>1, TablesInvariant, PTL

\* Loaded in order, the tables say what the documents say, after any schedule of
\* scripts and editions before.
THEOREM OrderSuffices ==
    ASSUME StartSound
    PROVE  Spec => []LoadedInOrder
<1>1. TablesRequestInv => LoadedInOrder
  BY DEF TablesRequestInv, TablesInv, TablesSound, LoadedInOrder
<1> QED
  BY <1>1, TablesInvariant, PTL

-----------------------------------------------------------------------------
\* Coverage answers that do not contradict themselves.

\* The coverage that is told first is one of those that cover the code.
LEMMA FirstCoveringListed ==
    ASSUME NEW rs, \A r \in rs : r.id \in Nat,
           NEW cs, cs # {}, \A c \in cs : \E r \in rs : r.coverage = c
    PROVE  FirstCovering(rs, cs) \in cs
<1> DEFINE ids(c) == {r.id : r \in {s \in rs : s.coverage = c}}
<1>1. ASSUME NEW c \in cs
      PROVE  FirstId(rs, c) \in Nat
  <2>1. ids(c) \in SUBSET Nat /\ ids(c) # {}
    OBVIOUS
  <2>2. FirstId(rs, c) = CHOOSE i \in ids(c) : \A j \in ids(c) : i <= j
    BY DEF FirstId
  <2> HIDE DEF ids
  <2>3. \E i \in ids(c) : \A j \in ids(c) : i <= j
    BY <2>1, LeastNumber
  <2> QED
    BY <2>1, <2>2, <2>3
<1> DEFINE firsts == {FirstId(rs, c) : c \in cs}
<1>2. firsts \in SUBSET Nat /\ firsts # {}
  BY <1>1
<1>3. \E i \in firsts : \A j \in firsts : i <= j
  BY <1>2, LeastNumber
<1>4. \E c \in cs : \A e \in cs : FirstId(rs, c) <= FirstId(rs, e)
  BY <1>3
<1> QED
  BY <1>4 DEF FirstCovering

\* A verdict from named ranges names a coverage that pays, and one that is
\* refused is not that one.
LEMMA JudgeSound ==
    ASSUME NEW rs, \A r \in rs : r.id \in Nat /\ r.coverage \in RangeCoverages,
           NEW code, NEW coverage \in Refusable \cup {None}
    PROVE  VerdictSound(Judge(code, rs, coverage))
<1> DEFINE cs == Covering(rs, code)
<1>1. \A c \in cs : \E r \in rs : r.coverage = c
  BY DEF Covering
<1>2. cs \subseteq RangeCoverages
  BY <1>1
<1> HIDE DEF cs
<1>3. CASE coverage \in cs
  BY <1>2, <1>3 DEF Judge, Verdict, VerdictSound, cs
<1>4. CASE coverage \notin cs /\ cs = {}
  BY <1>4 DEF Judge, Verdict, VerdictSound, cs
<1>5. CASE coverage \notin cs /\ cs # {}
  <2>1. cs \ {coverage} = cs
    BY <1>5
  <2>2. FirstCovering(rs, cs) \in cs
    BY <1>1, <1>5, FirstCoveringListed
  <2>3. CASE coverage = None
    BY <1>2, <1>5, <2>2, <2>3 DEF Judge, Verdict, VerdictSound, cs
  <2>4. CASE coverage # None
    <3>1. Judge(code, rs, coverage) = Verdict("not_covered", coverage, FirstCovering(rs, cs))
      BY <1>5, <2>1, <2>4 DEF Judge, cs
    <3> QED
      BY <1>2, <1>5, <2>2, <2>4, <3>1 DEF Verdict, VerdictSound
  <2> QED
    BY <2>3, <2>4
<1> QED
  BY <1>3, <1>4, <1>5

\* A coverage that pays comes from the ranges.
LEMMA EffectiveNamed ==
    ASSUME NEW v, VerdictSound(v), Effective(v) # None
    PROVE  /\ v.verdict # "undecided" /\ Effective(v) \in RangeCoverages
           /\ v.verdict = "not_covered" => v.coverage \in Refusable /\ v.coverage # Effective(v)
BY DEF VerdictSound, Effective

\* The rate of the coverage that pays is looked up by its whole name, so that it
\* is not that of the one refused: where that has a rate, the coverage has one of
\* its own.
LEMMA RateOfEffective ==
    ASSUME PartsRated, NEW d, NEW t, Published(t), RatesOfOneEdition(d, t),
           NEW scope, NEW v, VerdictSound(v), Effective(v) # None,
           NEW r \in Selected(Rules(d, scope), Mentions(Effective(v)), {})
    PROVE  /\ v.verdict = "not_covered" => r.coverage # v.coverage
           /\ \E n \in Mentions(Effective(v)) : <<n, r.coverage>> \in Within
<1> DEFINE pays == Effective(v)
           rows == Rules(d, scope)
<1>1. PICK i \in LongestKeyword(Mentions(pays)) :
          r \in Best(Hits(Candidates(rows, Keywords[i]), Intent({})), Mentions(pays))
  BY DEF Selected
<1>2. r \in Candidates(rows, Keywords[i])
  BY <1>1 DEF Best, Hits
<1>3. pays \in RangeCoverages
  BY EffectiveNamed
<1>4. i \in DOMAIN Keywords /\ Keywords[i] \in Mentions(pays)
  BY <1>1 DEF LongestKeyword
<1>5. <<Keywords[i], pays>> \in Within /\ pays \in Names /\ <<pays, pays>> \in Within
  BY <1>4, NamesAssumption DEF Mentions
<1>6. Keywords[i] = pays
  <2>1. PICK j \in DOMAIN Keywords : Keywords[j] = pays
    BY <1>3, <1>4, CoveragesAssumption
  <2>2. pays \in Mentions(pays)
    BY <1>5 DEF Mentions
  <2>3. ~(Size[Keywords[i]] < Size[pays])
    BY <1>1, <1>4, <1>5, <2>1, <2>2, NamesAssumption DEF LongestKeyword, Mentions
  <2>4. Keywords[i] # pays => Size[Keywords[i]] < Size[pays]
    BY <1>5, NamesAssumption
  <2> QED
    BY <2>3, <2>4
<1>7. Keywords[i] \in Mentions(pays) /\ Keywords[i] \in Names
  BY <1>4, <1>5, NamesAssumption
<1>8. <<Keywords[i], r.coverage>> \in Within
  BY <1>2, <1>7, NamesAssumption DEF Candidates
<1>9. ASSUME v.verdict = "not_covered", r.coverage = v.coverage
      PROVE  FALSE
  <2>1. r.coverage \in Refusable /\ r.coverage # pays
    BY <1>9, EffectiveNamed
  <2>2. r \in d.rules /\ r.rate # None /\ (scope = None \/ r.pid[1] = scope)
    BY <1>2 DEF Candidates, Rules
  <2>3. PICK b \in PayoutBases : r \in RatesOf(d, b)
    BY <2>2 DEF RatesOfOneEdition
  <2>4. PICK e \in 1 .. t[b] : RatesOf(d, b) = {RateRow(b, x) : x \in Payouts(Editions[b][e])}
    BY <2>3 DEF RatesOfOneEdition
  <2>5. PICK x \in Payouts(Editions[b][e]) : r = RateRow(b, x)
    BY <2>3, <2>4
  <2>6. x.coverage = r.coverage /\ x.rate = r.rate
    BY <2>5 DEF RateRow
  <2>7. b \in Bases
    BY TablesAssumption
  <2>8. e \in DOMAIN Editions[b]
    BY <2>4, <2>7, TablesAssumption DEF Published
  <2>9. PICK s \in Payouts(Editions[b][e]) : s.rate # None /\ s.coverage = pays
    BY <1>3, <1>6, <1>8, <2>1, <2>2, <2>6, <2>8 DEF PartsRated
  <2> DEFINE q == RateRow(b, s)
  <2>10. q.pid = <<b, 0>> /\ q.coverage = pays /\ q.rate # None
    BY <2>9 DEF RateRow
  <2>11. q \in RatesOf(d, b)
    BY <2>4, <2>9
  <2> HIDE DEF q
  <2>12. q \in d.rules /\ q.pid = r.pid
    BY <2>3, <2>10, <2>11 DEF RatesOf
  <2>13. q \in rows
    BY <2>2, <2>12 DEF Rules
  <2> HIDE DEF rows, pays
  <2> QED
    BY <1>2, <1>6, <2>1, <2>10, <2>13 DEF Candidates
<1> QED
  BY <1>7, <1>8, <1>9

\* A newer edition leaves the rates and the ranges as they are.
LEMMA RatesOutliveEditions ==
    ASSUME NEW d, NEW t, NEW u, \A b \in Bases : 1..t[b] \subseteq 1..u[b], RatesSound(d, t)
    PROVE  RatesSound(d, u)
<1>1. PayoutBases \subseteq Bases
  BY TablesAssumption
<1> QED
  BY <1>1 DEF RatesSound, RatesOfOneEdition

\* A script that writes neither of them leaves them as they are.
LEMMA SameRates ==
    ASSUME NEW d, NEW e, NEW t, e.rules = d.rules, e.ranges = d.ranges, RatesSound(d, t)
    PROVE  RatesSound(e, t)
<1>1. \A b : RatesOf(e, b) = RatesOf(d, b)
  BY DEF RatesOf
<1> QED
  BY <1>1 DEF RatesSound, RatesOfOneEdition, RangesNamed

\* load_payout leaves the rates of one edition of each document.
LEMMA PayoutRates ==
    ASSUME NEW d, NEW t, Published(t), Columns(d), RatesSound(d, t)
    PROVE  RatesSound(PayoutsLoaded(d, t), t)
<1> DEFINE e == PayoutsLoaded(d, t)
           rows(b) == {RateRow(b, r) : r \in Payouts(Doc(b, t))}
<1>1. e.rules = UNION {rows(b) : b \in PayoutBases} /\ e.ranges = d.ranges
  BY DEF PayoutsLoaded, Columns
<1>2. \A b : \A r \in rows(b) : r.pid = <<b, 0>> /\ r.source = "rule"
  BY DEF RateRow
<1> HIDE DEF e, rows
<1>3. \A b, c : <<b, 0>> = <<c, 0>> => b = c
  OBVIOUS
<1>4. \A b \in PayoutBases : RatesOf(e, b) = rows(b)
  BY <1>1, <1>2, <1>3 DEF RatesOf
<1>5. \A r \in e.rules : \E b \in PayoutBases : r \in RatesOf(e, b)
  BY <1>1, <1>4
<1>6. \A b \in PayoutBases : t[b] \in 1..t[b] /\ rows(b) = {RateRow(b, r) : r \in Payouts(Editions[b][t[b]])}
  BY TablesAssumption, PublishedEditions DEF rows, Doc
<1>7. RatesOfOneEdition(e, t)
  BY <1>4, <1>5, <1>6 DEF RatesOfOneEdition
<1>8. RangesNamed(e)
  BY <1>1 DEF RatesSound, RangesNamed
<1> QED
  BY <1>7, <1>8 DEF RatesSound, e

\* A range that a line of a disease table gives has a number and a coverage.
LEMMA LabelledNamed ==
    ASSUME NEW t, Published(t), NEW b \in Bases, NEW r \in LabelledRanges(Doc(b, t))
    PROVE  RangeRow(b, r).id \in Nat /\ RangeRow(b, r).coverage \in RangeCoverages
<1>1. Rank[b] \in Nat
  BY TablesAssumption
<1>2. t[b] \in DOMAIN Editions[b] /\ Doc(b, t) = Editions[b][t[b]]
  BY DEF Published, Doc
<1>3. r.id \in Nat
  BY <1>2, EditionsAssumption DEF LabelledRanges
<1>4. r.coverage \in RangeCoverages
  BY <1>2 DEF RangeCoverages
<1>5. RangeRow(b, r).id = 100 * Rank[b] + r.id /\ RangeRow(b, r).coverage = r.coverage
  BY DEF RangeRow
<1> QED
  BY <1>1, <1>3, <1>4, <1>5

\* So has a range of the insurer that insures similar diseases separately.
LEMMA SpecificNamed ==
    ASSUME NEW table, NEW b \in Bases, NEW r \in SpecificRanges(table)
    PROVE  RangeRow(b, r).id \in Nat /\ RangeRow(b, r).coverage \in RangeCoverages
<1>1. Rank[b] \in Nat
  BY TablesAssumption
<1>2. r.id \in Nat
  BY RowIds
<1>3. r.coverage \in {"cancer_diagnosis"} \cup {s.coverage : s \in Similar}
  <2>1. CASE r.coverage = "cancer_diagnosis"
    BY <2>1
  <2>2. CASE \E s \in Similar : r.id = s.id /\ r.coverage = s.coverage
    BY <2>2
  <2> QED
    BY <2>1, <2>2, RowOfRanges
<1>4. r.coverage \in RangeCoverages
  BY <1>3 DEF RangeCoverages
<1>5. RangeRow(b, r).id = 100 * Rank[b] + r.id /\ RangeRow(b, r).coverage = r.coverage
  BY DEF RangeRow
<1> QED
  BY <1>1, <1>2, <1>4, <1>5

\* Both loads of ranges leave named ones.
LEMMA LoadedRanges ==
    ASSUME NEW d, NEW t, Published(t), Columns(d), RatesSound(d, t),
           NEW e \in {CoverageLoaded(d, t), KbCoverageLoaded(d, t)}
    PROVE  RatesSound(e, t)
<1>1. e.rules = d.rules
  BY DEF CoverageLoaded, KbCoverageLoaded, Columns
<1>2. \A b : RatesOf(e, b) = RatesOf(d, b)
  BY <1>1 DEF RatesOf
<1>3. RatesOfOneEdition(e, t)
  BY <1>1, <1>2 DEF RatesSound, RatesOfOneEdition
<1>4. PayoutBases \subseteq Bases /\ CancerBases \subseteq Bases
  BY TablesAssumption
<1>5. ASSUME NEW x \in e.ranges
      PROVE  x.id \in Nat /\ x.coverage \in RangeCoverages
  <2>1. CASE e = CoverageLoaded(d, t)
    <3>1. \E b \in PayoutBases : x \in {RangeRow(b, r) : r \in LabelledRanges(Doc(b, t))}
      BY <1>5, <2>1 DEF CoverageLoaded, Columns
    <3> QED
      BY <1>4, <3>1, LabelledNamed
  <2>2. CASE e = KbCoverageLoaded(d, t)
    <3>1. \/ x \in d.ranges
          \/ \E b \in CancerBases : x \in {RangeRow(b, r) : r \in SpecificRanges(Doc(b, t).table)}
      BY <1>5, <2>2 DEF KbCoverageLoaded, Columns, Planned, SpecificRows
    <3> QED
      BY <1>4, <3>1, SpecificNamed DEF RatesSound, RangesNamed
  <2> QED
    BY <2>1, <2>2
<1> QED
  BY <1>3, <1>5 DEF RatesSound, RangesNamed

\* load_waiting writes reductions, which are no rates.
LEMMA WaitingRates ==
    ASSUME NEW d, NEW t, Columns(d), RatesSound(d, t)
    PROVE  RatesSound(WaitingLoaded(d, t), t)
<1> DEFINE e == WaitingLoaded(d, t)
<1>1. e.rules = ReductionsLoaded(d, t) /\ e.ranges = d.ranges
  BY DEF WaitingLoaded, Columns
<1>2. \A r \in Reductions(d, t) : r.source = "kb_table" /\ r.rate = None
  BY DEF Reductions, ReductionRow
<1>3. \A r : r.source = "rule" => (r \in e.rules <=> r \in d.rules)
  BY <1>1, <1>2 DEF ReductionsLoaded
<1>4. \A r \in e.rules : r.rate # None => r \in d.rules
  BY <1>1, <1>2 DEF ReductionsLoaded
<1> HIDE DEF e
<1>5. \A b : RatesOf(e, b) = RatesOf(d, b)
  BY <1>3 DEF RatesOf
<1> QED
  BY <1>1, <1>4, <1>5 DEF RatesSound, RatesOfOneEdition, RangesNamed, e

\* Every script leaves rates of one edition and ranges with names.
LEMMA ScriptRates ==
    ASSUME TablesInv, RatesSound(db, text),
           \/ \E b \in Bases : Revise(b) \/ Ingest(b)
           \/ LoadPayout \/ LoadCoverage \/ LoadKbCoverage \/ LoadWaiting \/ LoadTerms
    PROVE  RatesSound(db, text)'
<1>1. Published(text) /\ Columns(db)
  BY DEF TablesInv, TablesSound
<1>2. \A b \in Bases : 1..text[b] \subseteq (1..text[b])'
  BY ScriptStep
<1>3. ASSUME NEW b \in Bases, Revise(b)
      PROVE  RatesSound(db, text)'
  <2>1. db' = db
    BY <1>3 DEF Revise, Run
  <2> QED
    BY <1>2, <2>1, RatesOutliveEditions
<1>4. ASSUME NEW b \in Bases, Ingest(b)
      PROVE  RatesSound(db, text)'
  <2>1. db' = Ingested(db, b, Doc(b, text)) /\ text' = text
    BY <1>4 DEF Ingest, Run
  <2> QED
    BY <1>1, <2>1, IngestedProducts, SameRates
<1>5. ASSUME LoadPayout
      PROVE  RatesSound(db, text)'
  BY <1>1, <1>5, PayoutRates DEF LoadPayout, Run
<1>6. ASSUME LoadCoverage \/ LoadKbCoverage
      PROVE  RatesSound(db, text)'
  BY <1>1, <1>6, LoadedRanges DEF LoadCoverage, LoadKbCoverage, Run
<1>7. ASSUME LoadWaiting
      PROVE  RatesSound(db, text)'
  BY <1>1, <1>7, WaitingRates DEF LoadWaiting, Run
<1>8. ASSUME LoadTerms
      PROVE  RatesSound(db, text)'
  <2>1. db' = TermsLoaded(db, text) /\ text' = text
    BY <1>8 DEF LoadTerms, Run
  <2>2. db'.rules = db.rules /\ db'.ranges = db.ranges
    BY <1>1, <2>1 DEF TermsLoaded, Columns
  <2> QED
    BY <2>1, <2>2, SameRates
<1> QED
  BY <1>3, <1>4, <1>5, <1>6, <1>7, <1>8

\* The steps of a request tell no other rate than that of the coverage that pays.
LEMMA RequestVerdicts ==
    ASSUME PartsRated, TablesInv, VerdictInv,
           \/ Arrive \/ NoFact \/ PayoutRules \/ PayoutExclusions \/ Terms
           \/ CoverageRanges \/ CoverageRate \/ CatalogNames \/ Waiting
           \/ ExclusionProduct \/ ExclusionArticles
    PROVE  VerdictInv'
<1>1. UNCHANGED <<text, db>>
  BY DEF Arrive, NoFact, PayoutRules, PayoutExclusions, Terms, CoverageRanges, CoverageRate,
         CatalogNames, Waiting, ExclusionProduct, ExclusionArticles, Give, Keep, Leave, scriptVars
<1>2. RatesSound(db, text)'
  BY <1>1 DEF VerdictInv
<1>3. ASSUME read' = None, reply' = None \/ UNCHANGED reply
      PROVE  VerdictInv'
  BY <1>2, <1>3 DEF VerdictInv, NoContradiction, Replied
<1>4. ASSUME NEW r, Keep(r), Current = "coverage" => VerdictSound(r.verdict)
      PROVE  VerdictInv'
  <2>1. read' = r /\ UNCHANGED <<branch, reply>>
    BY <1>4 DEF Keep
  <2>2. Current' = Current
    BY <2>1 DEF Current
  <2> QED
    BY <1>2, <1>4, <2>1, <2>2 DEF VerdictInv, NoContradiction, Replied
<1>5. ASSUME NEW kind, NEW pids, NEW told, Give(kind, pids, told),
             kind = "coverage" => NoContradiction'
      PROVE  VerdictInv'
  <2>1. /\ UNCHANGED <<branch, read>>
        /\ reply' = [kind |-> kind, pids |-> pids, told |-> told]
    BY <1>5 DEF Give
  <2>2. reply'.kind = kind /\ Current' = Current
    BY <2>1 DEF Current
  <2>3. NoContradiction'
    BY <1>5, <2>2 DEF NoContradiction, Replied
  <2> QED
    BY <1>2, <2>1, <2>2, <2>3 DEF VerdictInv
<1>6. CASE Arrive
  BY <1>3, <1>6 DEF Arrive
<1>7. CASE Leave
  BY <1>3, <1>7 DEF Leave
<1>8. CASE NoFact
  <2>1. Give("none", {}, {})
    BY <1>8 DEF NoFact
  <2> QED
    BY <1>5, <2>1
<1>9. CASE PayoutRules \/ PayoutExclusions
  <2>1. Current = "payout"
    BY <1>9 DEF PayoutRules, PayoutExclusions, Waits
  <2>2. CASE PayoutRules
    BY <1>4, <1>7, <2>1, <2>2 DEF PayoutRules
  <2>3. CASE PayoutExclusions
    <3>1. \E pids, told : Give("payout", pids, told)
      BY <2>3 DEF PayoutExclusions
    <3> QED
      BY <1>5, <3>1
  <2> QED
    BY <1>9, <2>2, <2>3
<1>10. CASE Terms \/ CatalogNames \/ Waiting
  <2>1. CASE Terms
    <3>1. Leave \/ \E pids, told : Give("terms", pids, told)
      BY <2>1 DEF Terms
    <3> QED
      BY <1>5, <1>7, <3>1
  <2>2. CASE CatalogNames
    <3>1. Leave \/ \E pids, told : Give("catalog", pids, told)
      BY <2>2 DEF CatalogNames
    <3> QED
      BY <1>5, <1>7, <3>1
  <2>3. CASE Waiting
    <3>1. Leave \/ \E pids, told : Give("waiting", pids, told)
      BY <2>3 DEF Waiting
    <3> QED
      BY <1>5, <1>7, <3>1
  <2> QED
    BY <1>10, <2>1, <2>2, <2>3
<1>11. CASE ExclusionProduct \/ ExclusionArticles
  <2>1. Current = "exclusion"
    BY <1>11 DEF ExclusionProduct, ExclusionArticles, Waits
  <2>2. CASE ExclusionProduct
    BY <1>4, <1>7, <2>1, <2>2 DEF ExclusionProduct
  <2>3. CASE ExclusionArticles
    <3>1. Leave \/ \E pids, told : Give("exclusion", pids, told)
      BY <2>3 DEF ExclusionArticles
    <3> QED
      BY <1>5, <1>7, <3>1
  <2> QED
    BY <1>11, <2>2, <2>3
<1>12. CASE CoverageRanges
  <2> DEFINE rs == Ranges(db, Scope(ask))
             verdict == Judge(CodeOf(ask), rs, CoverageOf(ask))
             r == [verdict |-> verdict, covering |-> Covering(rs, CodeOf(ask))]
  <2>1. Leave \/ Keep(r)
    BY <1>12 DEF CoverageRanges
  <2>2. \A x \in rs : x.id \in Nat /\ x.coverage \in RangeCoverages
    BY DEF VerdictInv, RatesSound, RangesNamed, Ranges
  <2>3. CoverageOf(ask) \in Refusable \cup {None}
    <3> DEFINE found == {i \in DOMAIN Hints : Hints[i][1] \in ask.words}
    <3>1. CASE found = {}
      BY <3>1 DEF CoverageOf, FirstOf
    <3>2. CASE found # {}
      <4>1. found \in SUBSET Nat
        BY NamesAssumption
      <4>2. \E i \in found : \A j \in found : i <= j
        BY <3>2, <4>1, LeastNumber
      <4>3. (CHOOSE i \in found : \A j \in found : i <= j) \in DOMAIN Hints
        BY <4>2
      <4> QED
        BY <3>2, <4>3 DEF CoverageOf, FirstOf, Refusable
    <3> QED
      BY <3>1, <3>2
  <2> HIDE DEF rs
  <2>4. VerdictSound(verdict)
    BY <2>2, <2>3, JudgeSound
  <2>5. r.verdict = verdict
    OBVIOUS
  <2> HIDE DEF r, verdict
  <2> QED
    BY <1>4, <1>7, <2>1, <2>4, <2>5
<1>13. CASE CoverageRate
  <2> DEFINE v == read.verdict
             pays == Effective(v)
             found == IF pays = None THEN {} ELSE Selected(Rules(db, Scope(ask)), Mentions(pays), {})
  <2>1. PICK r \in IF found = {} THEN {None} ELSE found :
              Give("coverage", IF r = None THEN {} ELSE {r.pid},
                   [verdict |-> v, rate |-> r, covering |-> read.covering])
    BY <1>13 DEF CoverageRate
  <2>2. VerdictSound(v)
    BY <1>13 DEF CoverageRate, Waits, VerdictInv
  <2>3. r # None => pays # None /\ r \in Selected(Rules(db, Scope(ask)), Mentions(pays), {})
    BY <2>1
  <2>4. Published(text) /\ RatesOfOneEdition(db, text)
    BY DEF TablesInv, VerdictInv, RatesSound
  <2>5. r # None => /\ v.verdict # "undecided"
                    /\ v.verdict = "not_covered" => r.coverage # v.coverage
                    /\ \E n \in Mentions(pays) : <<n, r.coverage>> \in Within
    BY <2>2, <2>3, <2>4, EffectiveNamed, RateOfEffective
  <2> DEFINE told == [verdict |-> v, rate |-> r, covering |-> read.covering]
             pids == IF r = None THEN {} ELSE {r.pid}
  <2>6. told.verdict = v /\ told.rate = r
    OBVIOUS
  <2> HIDE DEF told, pids
  <2>7. Give("coverage", pids, told)
    BY <2>1 DEF told, pids
  <2>8. reply' = [kind |-> "coverage", pids |-> pids, told |-> told]
    BY <2>7 DEF Give
  <2>9. NoContradiction'
    BY <2>5, <2>6, <2>8 DEF NoContradiction
  <2> QED
    BY <1>5, <2>7, <2>9
<1> QED
  BY <1>6, <1>8, <1>9, <1>10, <1>11, <1>12, <1>13

\* A coverage answer does not contradict itself: the rate in it is that of the
\* coverage that pays, or of one whose name contains it, and never that of the
\* coverage the answer refuses.
THEOREM RateAgreesWithVerdict ==
    ASSUME StartSound, PartsRated
    PROVE  Spec => []NoContradiction
<1>1. Init => VerdictInv
  <2> SUFFICES ASSUME Init
               PROVE  VerdictInv
    OBVIOUS
  <2>1. RatesSound(db, text)
    BY DEF Init, StartSound
  <2> QED
    BY <2>1 DEF Init, VerdictInv, NoContradiction, Replied
<1>2. TablesRequestInv /\ VerdictInv /\ [Next]_vars => VerdictInv'
  <2> SUFFICES ASSUME TablesInv, VerdictInv, [Next]_vars
               PROVE  VerdictInv'
    BY DEF TablesRequestInv
  <2>1. CASE \/ \E b \in Bases : Revise(b) \/ Ingest(b)
             \/ LoadPayout \/ LoadCoverage \/ LoadKbCoverage \/ LoadWaiting \/ LoadTerms
    <3>1. UNCHANGED <<branch, read, reply>>
      BY <2>1, ScriptStep DEF requestVars
    <3>2. Current' = Current
      BY <3>1 DEF Current
    <3>3. RatesSound(db, text)'
      BY <2>1, ScriptRates DEF VerdictInv
    <3> QED
      BY <3>1, <3>2, <3>3 DEF VerdictInv, NoContradiction, Replied
  <2>2. CASE \/ Arrive \/ NoFact \/ PayoutRules \/ PayoutExclusions \/ Terms
             \/ CoverageRanges \/ CoverageRate \/ CatalogNames \/ Waiting
             \/ ExclusionProduct \/ ExclusionArticles
    BY <2>2, RequestVerdicts
  <2>3. CASE UNCHANGED vars
    <3>1. UNCHANGED <<text, db, branch, read, reply>>
      BY <2>3 DEF vars
    <3>2. Current' = Current
      BY <3>1 DEF Current
    <3> QED
      BY <3>1, <3>2 DEF VerdictInv, NoContradiction, Replied
  <2> QED
    BY <2>1, <2>2, <2>3 DEF Next
<1>3. VerdictInv => NoContradiction
  BY DEF VerdictInv
<1> QED
  BY <1>1, <1>2, <1>3, TablesInvariant, PTL DEF Spec

-----------------------------------------------------------------------------
\* Waiting periods and reductions of the subcontract that is told.

\* A new edition withdraws nothing that an earlier one tells of a name.
LEMMA FactsOutliveEditions ==
    ASSUME NEW b, NEW t, NEW u, 1..t[b] \subseteq 1..u[b]
    PROVE  /\ OnlyAdded(b, u) => OnlyAdded(b, t)
           /\ \A name : FactsAbout(b, t, name) \subseteq FactsAbout(b, u, name)
<1>1. OnlyAdded(b, u) => OnlyAdded(b, t)
  BY DEF OnlyAdded
<1>2. ASSUME NEW name, NEW f \in FactsAbout(b, t, name)
      PROVE  f \in FactsAbout(b, u, name)
  <2>1. PICK g \in 1..t[b] :
            /\ f \in WaitingFacts(Editions[b][g])
            /\ \/ f.name = name
               \/ Akin(f.name, name) /\ \E e \in 1..g : ~Alone(b, e, f.name)
    BY <1>2 DEF FactsAbout
  <2>2. g \in 1..u[b]
    BY <2>1
  <2> QED
    BY <2>1, <2>2 DEF FactsAbout
<1> QED
  BY <1>1, <1>2

\* A fact is put down to a subcontract of its own name, or to one of a name akin
\* to it where no subcontract alone has its name.
LEMMA MatchTold ==
    ASSUME NEW name, NEW subs, NEW p \in Match(name, subs)
    PROVE  /\ p \in DOMAIN subs
           /\ \/ subs[p] = name
              \/ /\ Akin(name, subs[p])
                 /\ \A c \in DOMAIN subs : subs[c] = name =>
                       \E q \in DOMAIN subs : subs[q] = name /\ q # c
<1> DEFINE unique == {c \in DOMAIN subs : \A q \in DOMAIN subs : subs[q] = subs[c] => q = c}
           exact == {c \in unique : subs[c] = name}
           partly == {c \in unique : /\ Size[subs[c]] >= 4
                                     /\ \/ <<name, subs[c]>> \in Within
                                        \/ <<subs[c], name>> \in Within}
<1>1. \/ p \in exact
      \/ exact = {} /\ p \in partly
  BY DEF Match
<1>2. CASE p \in exact
  BY <1>2
<1>3. CASE exact = {} /\ p \in partly
  <2>1. Akin(name, subs[p])
    BY <1>3 DEF Akin
  <2>2. ASSUME NEW c \in DOMAIN subs, subs[c] = name
        PROVE  \E q \in DOMAIN subs : subs[q] = name /\ q # c
    BY <1>3, <2>2
  <2> QED
    BY <1>3, <2>1, <2>2
<1> QED
  BY <1>1, <1>2, <1>3

\* The facts put down to a subcontract are facts about its name.
LEMMA FactsForOwn ==
    ASSUME NEW d, NEW t, Published(t), FactsSound(d, t), NEW b \in Bases, OnlyAdded(b, t),
           NEW p \in Children(d, b), NEW f \in FactsFor(d, t, p)
    PROVE  f \in FactsAbout(b, t, d.product[p].name)
<1> DEFINE subs == [c \in Children(d, b) |-> d.product[c].name]
           name == d.product[p].name
<1>1. p[1] = b
  BY DEF Children
<1>2. f \in WaitingFacts(Doc(b, t)) /\ p \in Match(f.name, subs)
  BY <1>1 DEF FactsFor
<1>3. subs[p] = name /\ DOMAIN subs = Children(d, b)
  OBVIOUS
<1>4. t[b] \in 1..t[b] /\ f \in WaitingFacts(Editions[b][t[b]])
  BY <1>2, PublishedEditions DEF Doc
<1>5. CASE f.name = name
  BY <1>4, <1>5 DEF FactsAbout
<1>6. CASE f.name # name
  <2> HIDE DEF subs
  <2>1. /\ Akin(f.name, name)
        /\ \A c \in DOMAIN subs : subs[c] = f.name => \E q \in DOMAIN subs : subs[q] = f.name /\ q # c
    BY <1>2, <1>3, <1>6, MatchTold
  <2>2. PICK e \in 1..t[b] :
            /\ Children(d, b) = {<<b, i>> : i \in DOMAIN Numbered(Editions[b][e])}
            /\ \A i \in DOMAIN Numbered(Editions[b][e]) :
                  d.product[<<b, i>>].name = Numbered(Editions[b][e])[i].name
    BY DEF FactsSound, ChildrenOfOneEdition
  <2> DEFINE told == Numbered(Editions[b][e])
  <2>3. ASSUME NEW i \in DOMAIN told, told[i].name = f.name,
               \A j \in DOMAIN told : told[j].name = f.name => j = i
        PROVE  FALSE
    <3>1. <<b, i>> \in Children(d, b) /\ d.product[<<b, i>>].name = f.name
      BY <2>2, <2>3
    <3>2. <<b, i>> \in DOMAIN subs /\ subs[<<b, i>>] = f.name
      BY <1>3, <3>1 DEF subs
    <3>3. PICK q \in DOMAIN subs : subs[q] = f.name /\ q # <<b, i>>
      BY <2>1, <3>2
    <3>4. PICK j \in DOMAIN told : q = <<b, j>>
      BY <1>3, <2>2, <3>3
    <3>5. told[j].name = f.name
      BY <1>3, <2>2, <3>3, <3>4 DEF subs
    <3> QED
      BY <2>3, <3>3, <3>4, <3>5
  <2>4. ~Alone(b, e, f.name)
    BY <2>3 DEF Alone
  <2> QED
    BY <1>4, <2>1, <2>2, <2>4 DEF FactsAbout
<1> QED
  BY <1>5, <1>6

\* A newer edition leaves what is known of the subcontracts as it is.
LEMMA FactsSoundOutlive ==
    ASSUME NEW d, NEW t, NEW u, \A b \in Bases : 1..t[b] \subseteq 1..u[b], FactsSound(d, t)
    PROVE  FactsSound(d, u)
<1> SUFFICES ASSUME NEW b \in Bases, OnlyAdded(b, u)
             PROVE  /\ ChildrenOfOneEdition(d, u, b)
                    /\ \A p \in Children(d, b) : OwnFacts(d, u, p)
  BY DEF FactsSound
<1>1. /\ OnlyAdded(b, t) /\ 1..t[b] \subseteq 1..u[b]
      /\ \A name : FactsAbout(b, t, name) \subseteq FactsAbout(b, u, name)
  BY FactsOutliveEditions
<1>2. \A p \in Children(d, b) : p[1] = b
  BY DEF Children
<1> QED
  BY <1>1, <1>2 DEF FactsSound, ChildrenOfOneEdition, OwnFacts

\* A script that writes neither subcontracts nor reductions leaves it as well.
LEMMA SameFacts ==
    ASSUME NEW d, NEW e, NEW t, FactsSound(d, t),
           DOMAIN e.product = DOMAIN d.product,
           \A p \in DOMAIN d.product : /\ e.product[p].name = d.product[p].name
                                       /\ e.product[p].waiting = d.product[p].waiting,
           \A r \in e.rules : r \in d.rules \/ r.source # "kb_table"
    PROVE  FactsSound(e, t)
<1> SUFFICES ASSUME NEW b \in Bases, OnlyAdded(b, t)
             PROVE  /\ ChildrenOfOneEdition(e, t, b)
                    /\ \A p \in Children(e, b) : OwnFacts(e, t, p)
  BY DEF FactsSound
<1>1. Children(e, b) = Children(d, b)
  BY DEF Children
<1>2. \A p \in Children(d, b) : p \in DOMAIN d.product /\ p[1] = b
  BY DEF Children
<1>3. \A g \in 1..t[b] :
          Children(d, b) = {<<b, i>> : i \in DOMAIN Numbered(Editions[b][g])} =>
             \A i \in DOMAIN Numbered(Editions[b][g]) : <<b, i>> \in Children(d, b)
  OBVIOUS
<1> QED
  BY <1>1, <1>2, <1>3 DEF FactsSound, ChildrenOfOneEdition, OwnFacts

\* An ingest inserts the subcontracts of the edition it reads, of which nothing
\* is known yet but the reductions of those that were there.
LEMMA IngestFacts ==
    ASSUME NEW d, NEW t, Published(t), Columns(d), ProductsKnown(d, t), RulesKnown(d),
           FactsSound(d, t), NEW b \in Bases
    PROVE  FactsSound(Ingested(d, b, Doc(b, t)), t)
<1> DEFINE doc == Doc(b, t)
           e == Ingested(d, b, doc)
           now == Numbered(doc)
<1>1. /\ e.rules = d.rules
      /\ DOMAIN e.product = DOMAIN d.product \cup Pids(doc, b)
      /\ \A p \in Pids(doc, b) : e.product[p].waiting = None
  BY IngestedProducts
<1>2. e.product = ProductsIngested(d, b, doc)
  BY DEF Ingested, Columns
<1>3. /\ \A p \in Pids(doc, b) : e.product[p].name = NameIn(doc, p[2])
      /\ \A p \in DOMAIN d.product : p \notin Pids(doc, b) => e.product[p] = d.product[p]
  BY <1>1, <1>2 DEF ProductsIngested
<1>4. /\ t[b] \in Nat /\ t[b] \in 1..t[b] /\ doc = Editions[b][t[b]] /\ t[b] \in DOMAIN Editions[b]
  BY PublishedEditions DEF Doc, Published
<1>5. \A i \in DOMAIN now : i # 0
  BY <1>4, EditionsAssumption
<1> HIDE DEF e, doc
<1> SUFFICES ASSUME NEW c \in Bases, OnlyAdded(c, t)
             PROVE  /\ ChildrenOfOneEdition(e, t, c)
                    /\ \A p \in Children(e, c) : OwnFacts(e, t, p)
  BY DEF FactsSound, e, doc
<1>0. \A p \in Children(d, c) : p[1] = c
  BY DEF Children
<1>6. CASE c # b
  <2>1. \A p \in Pids(doc, b) : p[1] = b
    BY DEF Pids
  <2>2. Children(e, c) = Children(d, c)
    BY <1>1, <1>6, <2>1 DEF Children
  <2>3. \A p \in Children(d, c) : e.product[p] = d.product[p]
    BY <1>3, <1>6, <2>1 DEF Children
  <2>4. \A g \in 1..t[c] :
            Children(d, c) = {<<c, i>> : i \in DOMAIN Numbered(Editions[c][g])} =>
               \A i \in DOMAIN Numbered(Editions[c][g]) : <<c, i>> \in Children(d, c)
    OBVIOUS
  <2> QED
    BY <1>0, <1>1, <2>2, <2>3, <2>4 DEF FactsSound, ChildrenOfOneEdition, OwnFacts
<1>7. CASE c = b
  <2>1. ASSUME NEW p \in Children(d, b)
        PROVE  \E i \in DOMAIN now : p = <<b, i>> /\ d.product[p].name = now[i].name
    <3>1. PICK g \in 1 .. t[b] :
             /\ Children(d, b) = {<<b, i>> : i \in DOMAIN Numbered(Editions[b][g])}
             /\ \A i \in DOMAIN Numbered(Editions[b][g]) :
                   d.product[<<b, i>>].name = Numbered(Editions[b][g])[i].name
      BY <1>7, <2>1 DEF FactsSound, ChildrenOfOneEdition
    <3>2. PICK i \in DOMAIN Numbered(Editions[b][g]) : p = <<b, i>>
      BY <3>1
    <3>3. g <= t[b]
      BY <1>4
    <3>4. i \in DOMAIN now /\ now[i].name = Numbered(Editions[b][g])[i].name
      BY <1>4, <1>7, <3>3 DEF OnlyAdded
    <3> QED
      BY <3>1, <3>2, <3>4
  <2>2. Pids(doc, b) = {<<b, 0>>} \cup {<<b, i>> : i \in DOMAIN now}
    BY DEF Pids
  <2>3. Children(e, b) = {<<b, i>> : i \in DOMAIN now}
    <3>1. \A p : p \in Children(e, b) <=> p \in Children(d, b) \/ (p \in Pids(doc, b) /\ p[1] = b /\ p[2] # 0)
      BY <1>1 DEF Children
    <3>2. \A p : (p \in Pids(doc, b) /\ p[1] = b /\ p[2] # 0) <=> p \in {<<b, i>> : i \in DOMAIN now}
      BY <1>5, <2>2
    <3> QED
      BY <2>1, <3>1, <3>2
  <2>4. \A i \in DOMAIN now : <<b, i>> \in Pids(doc, b) /\ e.product[<<b, i>>].name = now[i].name
    BY <1>3, <1>5, <2>2 DEF NameIn
  <2>5. \A p \in Children(e, b) : p \in Pids(doc, b) /\ e.product[p].waiting = None
    BY <1>1, <2>3, <2>4
  <2>6. ASSUME NEW p \in Children(e, b), NEW r \in e.rules,
               r.pid = p, r.source = "kb_table", r.reduction # None
        PROVE  \E f \in FactsAbout(b, t, e.product[p].name) : f.reduction = r.reduction
    <3>1. r \in d.rules /\ p \in DOMAIN d.product
      BY <1>1, <2>6 DEF RulesKnown
    <3>2. p \in Children(d, b)
      BY <2>6, <3>1 DEF Children
    <3>3. d.product[p].name = e.product[p].name
      BY <2>1, <2>4, <3>2
    <3> QED
      BY <1>0, <1>7, <2>6, <3>1, <3>2, <3>3 DEF FactsSound, OwnFacts
  <2> QED
    <3>1. ChildrenOfOneEdition(e, t, b)
      BY <1>4, <2>3, <2>4 DEF ChildrenOfOneEdition
    <3>2. \A p \in Children(e, b) : p[1] = b
      BY DEF Children
    <3>3. \A p \in Children(e, b) : OwnFacts(e, t, p)
      BY <2>5, <2>6, <3>2 DEF OwnFacts
    <3> QED
      BY <1>7, <3>1, <3>3
<1> QED
  BY <1>6, <1>7

\* load_waiting puts down to a subcontract what is said of it.
LEMMA WaitingFactsSound ==
    ASSUME NEW d, NEW t, Published(t), Columns(d), ProductsKnown(d, t), FactsSound(d, t)
    PROVE  FactsSound(WaitingLoaded(d, t), t)
<1> DEFINE e == WaitingLoaded(d, t)
           timed(p) == IF p[1] \in KbBases /\ p[2] # 0
                       THEN {f \in FactsFor(d, t, p) : f.waiting # None} ELSE {}
<1>1. e.product = WaitsLoaded(d, t) /\ e.rules = ReductionsLoaded(d, t)
  BY DEF WaitingLoaded, Columns
<1>2. DOMAIN e.product = DOMAIN d.product
  BY <1>1 DEF WaitsLoaded
<1>3. ASSUME NEW p \in DOMAIN d.product
      PROVE  /\ e.product[p].name = d.product[p].name
             /\ \/ e.product[p].waiting = d.product[p].waiting
                \/ \E f \in timed(p) : e.product[p].waiting = f.waiting
  BY <1>1, <1>3, WaitsLoadedProducts
<1>4. \A p : timed(p) \subseteq FactsFor(d, t, p)
  OBVIOUS
<1> HIDE DEF e, timed
<1> SUFFICES ASSUME NEW b \in Bases, OnlyAdded(b, t)
             PROVE  /\ ChildrenOfOneEdition(e, t, b)
                    /\ \A p \in Children(e, b) : OwnFacts(e, t, p)
  BY DEF FactsSound, e
<1>5. Children(e, b) = Children(d, b) /\ \A p \in Children(d, b) : p \in DOMAIN d.product
  BY <1>2 DEF Children
<1>6. ChildrenOfOneEdition(e, t, b)
  <2>1. CASE Children(d, b) = {}
    BY <1>5, <2>1 DEF ChildrenOfOneEdition
  <2>2. CASE Children(d, b) # {}
    <3>1. PICK g \in 1 .. t[b] :
             /\ Children(d, b) = {<<b, i>> : i \in DOMAIN Numbered(Editions[b][g])}
             /\ \A i \in DOMAIN Numbered(Editions[b][g]) :
                   d.product[<<b, i>>].name = Numbered(Editions[b][g])[i].name
      BY <2>2 DEF FactsSound, ChildrenOfOneEdition
    <3>2. \A i \in DOMAIN Numbered(Editions[b][g]) :
              e.product[<<b, i>>].name = Numbered(Editions[b][g])[i].name
      BY <1>3, <1>5, <3>1
    <3> QED
      BY <1>5, <3>1, <3>2 DEF ChildrenOfOneEdition
  <2> QED
    BY <2>1, <2>2
<1>7. ASSUME NEW p \in Children(e, b)
      PROVE  OwnFacts(e, t, p)
  <2> DEFINE own == FactsAbout(b, t, e.product[p].name)
  <2>1. /\ p \in Children(d, b) /\ p \in DOMAIN d.product /\ p[1] = b
        /\ own = FactsAbout(b, t, d.product[p].name)
    BY <1>3, <1>5, <1>7 DEF Children
  <2>2. \A f \in FactsFor(d, t, p) : f \in own
    BY <2>1, FactsForOwn
  <2>3. /\ d.product[p].waiting # None => \E f \in own : f.waiting = d.product[p].waiting
        /\ \A r \in d.rules :
              r.pid = p /\ r.source = "kb_table" /\ r.reduction # None =>
                 \E f \in own : f.reduction = r.reduction
    BY <2>1 DEF FactsSound, OwnFacts
  <2> HIDE DEF own
  <2>4. e.product[p].waiting # None => \E f \in own : f.waiting = e.product[p].waiting
    BY <1>3, <1>4, <2>1, <2>2, <2>3
  <2>5. ASSUME NEW r \in e.rules, r.pid = p, r.source = "kb_table", r.reduction # None
        PROVE  \E f \in own : f.reduction = r.reduction
    <3>1. CASE r \in d.rules
      BY <2>3, <2>5, <3>1
    <3>2. CASE r \in Reductions(d, t)
      BY <2>2, <2>5, <3>2, ReductionsOfSubcontracts
    <3> QED
      BY <1>1, <2>5, <3>1, <3>2 DEF ReductionsLoaded
  <2> QED
    BY <2>1, <2>4, <2>5 DEF own, OwnFacts
<1> QED
  BY <1>6, <1>7

\* Every script leaves what is said of the subcontracts.
LEMMA ScriptFacts ==
    ASSUME TablesInv, FactsSound(db, text),
           \/ \E b \in Bases : Revise(b) \/ Ingest(b)
           \/ LoadPayout \/ LoadCoverage \/ LoadKbCoverage \/ LoadWaiting \/ LoadTerms
    PROVE  FactsSound(db, text)'
<1>1. Published(text) /\ Columns(db) /\ ProductsKnown(db, text) /\ RulesKnown(db)
  BY DEF TablesInv, TablesSound
<1>2. ASSUME NEW b \in Bases, Revise(b)
      PROVE  FactsSound(db, text)'
  <2>1. db' = db
    BY <1>2 DEF Revise, Run
  <2>2. \A c \in Bases : 1..text[c] \subseteq (1..text[c])'
    BY <1>2, ScriptStep
  <2> QED
    BY <2>1, <2>2, FactsSoundOutlive
<1>3. ASSUME NEW b \in Bases, Ingest(b)
      PROVE  FactsSound(db, text)'
  <2>1. db' = Ingested(db, b, Doc(b, text)) /\ text' = text
    BY <1>3 DEF Ingest, Run
  <2> QED
    BY <1>1, <2>1, IngestFacts
<1>4. ASSUME LoadWaiting
      PROVE  FactsSound(db, text)'
  BY <1>1, <1>4, WaitingFactsSound DEF LoadWaiting, Run
<1>5. ASSUME LoadPayout
      PROVE  FactsSound(db, text)'
  <2>1. db' = PayoutsLoaded(db, text) /\ text' = text
    BY <1>5 DEF LoadPayout, Run
  <2>2. /\ db'.product = db.product
        /\ db'.rules = UNION {{RateRow(b, r) : r \in Payouts(Doc(b, text))} : b \in PayoutBases}
    BY <1>1, <2>1 DEF PayoutsLoaded, Columns
  <2>3. \A r \in db'.rules : r.source = "rule"
    BY <2>2 DEF RateRow
  <2> QED
    BY <2>1, <2>2, <2>3, SameFacts
<1>6. ASSUME LoadCoverage \/ LoadKbCoverage
      PROVE  FactsSound(db, text)'
  <2>1. db' \in {CoverageLoaded(db, text), KbCoverageLoaded(db, text)} /\ text' = text
    BY <1>6 DEF LoadCoverage, LoadKbCoverage, Run
  <2>2. db'.product = db.product /\ db'.rules = db.rules
    BY <1>1, <2>1 DEF CoverageLoaded, KbCoverageLoaded, Columns
  <2> QED
    BY <2>1, <2>2, SameFacts
<1>7. ASSUME LoadTerms
      PROVE  FactsSound(db, text)'
  <2> DEFINE told == [p \in DOMAIN db.product |->
                        IF p[2] # 0 THEN db.product[p]
                        ELSE [db.product[p] EXCEPT !.cooling = Withdrawal(Doc(p[1], text).days),
                                                   !.refers = @ \/ Withdrawal(Doc(p[1], text).days) = None]]
  <2>1. db' = TermsLoaded(db, text) /\ text' = text
    BY <1>7 DEF LoadTerms, Run
  <2>2. db'.product = told /\ db'.rules = db.rules
    BY <1>1, <2>1, Zenon DEF TermsLoaded, Columns
  <2>3. \A p \in DOMAIN db.product :
            told[p].name = db.product[p].name /\ told[p].waiting = db.product[p].waiting
    BY <1>1, Zenon DEF Columns
  <2>4. DOMAIN told = DOMAIN db.product
    OBVIOUS
  <2> HIDE DEF told
  <2> QED
    BY <2>1, <2>2, <2>3, <2>4, SameFacts
<1> QED
  BY <1>2, <1>3, <1>4, <1>5, <1>6, <1>7

\* A row that is read says what some edition says of its subcontract.
LEMMA WaitingRowOwn ==
    ASSUME NEW d, NEW t, FactsSound(d, t), NEW b \in Bases, OnlyAdded(b, t),
           NEW w \in WaitingRows(d, b)
    PROVE  LET own == FactsAbout(b, t, w.name)
           IN  /\ w.waiting # None => \E f \in own : f.waiting = w.waiting
               /\ w.reduction # None => \E f \in own : f.reduction = w.reduction
<1> DEFINE told(p) == LET rs == {r.reduction : r \in {s \in d.rules : s.pid = p /\ s.source = "kb_table"}}
                      IN  IF rs = {} THEN {None} ELSE rs
           row(p, x) == [pid |-> p, name |-> d.product[p].name, waiting |-> d.product[p].waiting,
                         reduction |-> x]
<1>1. PICK p \in Children(d, b) : \E x \in told(p) : w = row(p, x)
  BY DEF WaitingRows
<1>2. PICK x \in told(p) : w = row(p, x)
  BY <1>1
<1>3. w.name = d.product[p].name /\ w.waiting = d.product[p].waiting /\ w.reduction = x
  BY <1>2
<1>4. x # None => \E r \in d.rules : r.pid = p /\ r.source = "kb_table" /\ r.reduction = x
  BY <1>2
<1>5. OwnFacts(d, t, p) /\ p[1] = b
  BY <1>1 DEF FactsSound, Children
<1> QED
  BY <1>3, <1>4, <1>5 DEF OwnFacts

\* The steps of a request tell of a subcontract only what is about it.
LEMMA RequestFacts ==
    ASSUME TablesInv, WaitingInv,
           \/ Arrive \/ NoFact \/ PayoutRules \/ PayoutExclusions \/ Terms
           \/ CoverageRanges \/ CoverageRate \/ CatalogNames \/ Waiting
           \/ ExclusionProduct \/ ExclusionArticles
    PROVE  WaitingInv'
<1>1. UNCHANGED <<text, db>>
  BY DEF Arrive, NoFact, PayoutRules, PayoutExclusions, Terms, CoverageRanges, CoverageRate,
         CatalogNames, Waiting, ExclusionProduct, ExclusionArticles, Give, Keep, Leave, scriptVars
<1>2. FactsSound(db, text)'
  BY <1>1 DEF WaitingInv
<1>3. ASSUME reply' = None \/ UNCHANGED reply
      PROVE  WaitingInv'
  BY <1>1, <1>2, <1>3 DEF WaitingInv, OwnWaiting, Replied
<1>4. ASSUME NEW kind, NEW pids, NEW told, kind # "waiting", Give(kind, pids, told)
      PROVE  WaitingInv'
  <2>1. reply' = [kind |-> kind, pids |-> pids, told |-> told]
    BY <1>4 DEF Give
  <2>2. reply'.kind = kind
    BY <2>1
  <2> QED
    BY <1>2, <1>4, <2>2 DEF WaitingInv, OwnWaiting, Replied
<1>5. CASE Arrive \/ (\E r : Keep(r)) \/ Leave
  BY <1>3, <1>5 DEF Arrive, Keep, Leave
<1>6. CASE NoFact
  <2>1. Give("none", {}, {})
    BY <1>6 DEF NoFact
  <2> QED
    BY <1>4, <2>1
<1>7. CASE PayoutRules \/ CoverageRanges \/ ExclusionProduct
  BY <1>5, <1>7 DEF PayoutRules, CoverageRanges, ExclusionProduct
<1>8. CASE PayoutExclusions
  <2>1. \E pids, told : Give("payout", pids, told)
    BY <1>8 DEF PayoutExclusions
  <2> QED
    BY <1>4, <2>1
<1>9. CASE Terms
  <2>1. Leave \/ \E pids, told : Give("terms", pids, told)
    BY <1>9 DEF Terms
  <2> QED
    BY <1>4, <1>5, <2>1
<1>10. CASE CoverageRate
  <2>1. \E pids, told : Give("coverage", pids, told)
    BY <1>10 DEF CoverageRate
  <2> QED
    BY <1>4, <2>1
<1>11. CASE CatalogNames
  <2>1. Leave \/ \E pids, told : Give("catalog", pids, told)
    BY <1>11 DEF CatalogNames
  <2> QED
    BY <1>4, <1>5, <2>1
<1>12. CASE ExclusionArticles
  <2>1. Leave \/ \E pids, told : Give("exclusion", pids, told)
    BY <1>12 DEF ExclusionArticles
  <2> QED
    BY <1>4, <1>5, <2>1
<1>13. CASE Waiting
  <2> DEFINE b == Scope(ask)
             found == IF b = None THEN {} ELSE Picked(WaitingRows(db, b), ask.words)
  <2>1. CASE found = {}
    BY <1>5, <1>13, <2>1 DEF Waiting
  <2>2. CASE found # {}
    <3>1. PICK w \in found : Give("waiting", {w.pid}, w)
      BY <1>13, <2>2 DEF Waiting
    <3>2. w \in WaitingRows(db, b)
      BY <2>2 DEF Picked
    <3>3. w.pid \in Children(db, b)
      BY <3>2 DEF WaitingRows
    <3>4. b \in Bases /\ w.pid[1] = b
      BY <3>3 DEF Children, TablesInv, TablesSound, ProductsKnown
    <3>5. reply' = [kind |-> "waiting", pids |-> {w.pid}, told |-> w]
      BY <3>1 DEF Give
    <3> HIDE DEF b, found
    <3>6. OwnWaiting'
      BY <1>1, <3>2, <3>4, <3>5, WaitingRowOwn DEF OwnWaiting, WaitingInv
    <3> QED
      BY <1>2, <3>4, <3>5, <3>6 DEF WaitingInv
  <2> QED
    BY <2>1, <2>2
<1> QED
  BY <1>5, <1>6, <1>7, <1>8, <1>9, <1>10, <1>11, <1>12, <1>13

\* A script leaves what was told of a subcontract true of its document.
LEMMA ScriptWaiting ==
    ASSUME TablesInv, WaitingInv,
           \/ \E b \in Bases : Revise(b) \/ Ingest(b)
           \/ LoadPayout \/ LoadCoverage \/ LoadKbCoverage \/ LoadWaiting \/ LoadTerms
    PROVE  WaitingInv'
<1>1. FactsSound(db, text)'
  BY ScriptFacts DEF WaitingInv
<1>2. UNCHANGED reply /\ \A b \in Bases : 1..text[b] \subseteq (1..text[b])'
  BY ScriptStep DEF requestVars
<1>3. ASSUME Replied("waiting"), OnlyAdded(reply.told.pid[1], text')
      PROVE  OwnWaiting'
  <2> DEFINE b == reply.told.pid[1]
  <2>1. b \in Bases
    BY <1>3 DEF WaitingInv
  <2>2. /\ OnlyAdded(b, text)
        /\ FactsAbout(b, text, reply.told.name) \subseteq FactsAbout(b, text', reply.told.name)
    BY <1>2, <1>3, <2>1, FactsOutliveEditions
  <2> QED
    BY <1>2, <1>3, <2>2 DEF WaitingInv, OwnWaiting, Replied
<1>4. OwnWaiting'
  BY <1>2, <1>3 DEF OwnWaiting, Replied
<1> QED
  BY <1>1, <1>2, <1>4 DEF WaitingInv, Replied

\* As long as editions only add subcontracts, the waiting period and the
\* reduction told of one are what an edition says of it, whichever scripts ran.
THEOREM ToldOfItsOwn ==
    ASSUME StartSound
    PROVE  Spec => []OwnWaiting
<1>1. Init => WaitingInv
  <2> SUFFICES ASSUME Init
               PROVE  WaitingInv
    OBVIOUS
  <2>1. FactsSound(db, text)
    BY DEF Init, StartSound
  <2> QED
    BY <2>1 DEF Init, WaitingInv, OwnWaiting, Replied
<1>2. TablesRequestInv /\ WaitingInv /\ [Next]_vars => WaitingInv'
  <2> SUFFICES ASSUME TablesInv, WaitingInv, [Next]_vars
               PROVE  WaitingInv'
    BY DEF TablesRequestInv
  <2>1. CASE \/ \E b \in Bases : Revise(b) \/ Ingest(b)
             \/ LoadPayout \/ LoadCoverage \/ LoadKbCoverage \/ LoadWaiting \/ LoadTerms
    BY <2>1, ScriptWaiting
  <2>2. CASE \/ Arrive \/ NoFact \/ PayoutRules \/ PayoutExclusions \/ Terms
             \/ CoverageRanges \/ CoverageRate \/ CatalogNames \/ Waiting
             \/ ExclusionProduct \/ ExclusionArticles
    BY <2>2, RequestFacts
  <2>3. CASE UNCHANGED vars
    BY <2>3 DEF vars, WaitingInv, OwnWaiting, Replied
  <2> QED
    BY <2>1, <2>2, <2>3 DEF Next
<1>3. WaitingInv => OwnWaiting
  BY DEF WaitingInv
<1> QED
  BY <1>1, <1>2, <1>3, TablesInvariant, PTL DEF Spec
=============================================================================
