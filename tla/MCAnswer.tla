------------------------------ MODULE MCAnswer ------------------------------
(* Two documents that share a heading, a question that none, one or several *)
(* gates recognise, and drafts that cite what is there, next to it, or not. *)
EXTENDS Answer

Art(n, p) == [kind |-> "article", art |-> n, par |-> p]
Addendum(n) == [kind |-> "appendix", name |-> "addendum", no |-> n]
Won(n) == [kind |-> "number", amount |-> n, unit |-> "manwon"]
Times(n) == [kind |-> "number", amount |-> n, unit |-> "times"]

Chunk(doc, path, part, total, size, text, heading) ==
    [doc |-> doc, path |-> path, part |-> part, total |-> total, size |-> size,
     text |-> text, heading |-> heading]

\* Article 4 of document 1 in two parts, its article 7, article 4 of document 2.
MCCorpus ==
    {Chunk(1, 1, 1, 2, 2, {Won(10)}, {Art(4, 0)}),
     Chunk(1, 1, 2, 2, 1, {Art(5, 1)}, {Art(4, 0)}),
     Chunk(1, 2, 1, 1, 2, {Times(3)}, {Art(7, 0)}),
     Chunk(2, 1, 2, 2, 1, {Addendum(2)}, {Art(4, 0)})}

Says(text, claims) == [text |-> text, claims |-> claims, says |-> "answer"]

MCDrafts ==
    {Says({Art(4, 2), Won(10)}, {{Art(4, 2), Won(10)}}),
     Says({Art(5, 0)}, {{Art(5, 0)}}),
     Says({Art(8, 0)}, {{}}),
     Says({Addendum(9)}, {{Addendum(9)}}),
     Says({Won(12)}, {{Won(12)}}),
     Says({Times(4)}, {{Times(4)}}),
     [text |-> {}, claims |-> {{}}, says |-> "refusal"]}

MCToggles ==
    {[SQL |-> TRUE, SEMANTIC |-> TRUE, CRITIC |-> FALSE],
     [SQL |-> TRUE, SEMANTIC |-> FALSE, CRITIC |-> TRUE],
     [SQL |-> FALSE, SEMANTIC |-> TRUE, CRITIC |-> TRUE]}

MCGates == {{}, {"coverage", "exclusion"}}

\* As many chunks as pass the filter, up to the number asked for, are found,
\* whatever the words of the question and the orders of the engines.
Leaf(id, service, doc, pages, words) ==
    [id |-> id, service |-> service, doc |-> doc, pages |-> pages, words |-> words]
Leaves == {Leaf(1, 1, 1, <<1, 2>>, {"a"}), Leaf(2, 1, 2, <<2, 2>>, {}), Leaf(3, 2, 2, <<>>, {"a"})}
Orders == {s \in [1..3 -> Leaves] : {s[i] : i \in 1..3} = Leaves}
Filters ==
    [service : {0, 1}, document : {0, 2}, from : {-1, 2}, upto : {-1}, include : {{}, {"a"}},
     exclude : {{}, {"b"}}]
ASSUME FoundAsAsked ==
    \A f \in Filters, dense, bm25 \in Orders, words \in {{}, {"reference"}, {"comparison"}} :
        \A points \in Fused(dense, bm25, f, words, 1) :
            \A s \in Reranked(points, [c \in Leaves |-> c.id % 2], 1) :
                LET passing == {c \in Leaves : Allows(f, c)}
                IN  /\ Len(s) = Min({1, Cardinality(passing)})
                    /\ \A i \in DOMAIN s : s[i] \in passing
ASSUME WholeRerankerInput ==
    \A words \in SUBSET Words : /\ Classify(words).dense >= Multiplier
                               /\ Classify(words).bm25 >= Multiplier

-----------------------------------------------------------------------------
\* The report on the traces that such requests leave.
Summary == INSTANCE TraceSummary

Grade(risk, claims, verifiable, supported) ==
    [risk |-> risk, claims |-> claims, verifiable |-> verifiable, supported |-> supported]
Dispatch(failure, action, before, after) ==
    [failure |-> failure, action |-> action, before |-> before, after |-> after,
     improved |-> action = "regenerate" /\ after = "pass"]
Traces ==
    {[Summary!TableTrace("detail") EXCEPT !.pii = {"RRN", "PHONE"}],
     Summary!RetrievedTrace("detail", <<>>),
     Summary!RetrievedTrace("comparison", <<2000, 1000>>),
     Summary!RefusedTrace("detail", {}, 2, <<>>),
     Summary!RefusedTrace("detail", {1500}, 2, <<2900, 2900>>),
     Summary!AnsweredTrace("detail", {9000}, 0, <<9000>>, "answer", Grade("pass", 2, 0, 0), {}),
     Summary!AnsweredTrace("comparison", {1500}, 1, <<3000, 2000>>, "answer", Grade("pass", 3, 2, 1),
         {Dispatch("unit_error", "regenerate", "soft_fail", "pass")}),
     Summary!AnsweredTrace("comparison", {6000}, 0, <<6000, 5000>>, "refusal",
         Grade("hard_fail", 1, 1, 0), {Dispatch("retrieval_gap", "escalate", "hard_fail", "hard_fail")})}
Reports == UNION {[1 .. n -> Traces] : n \in 0 .. 3}

\* Every request is counted once in each section, an answer is told from a
\* refusal, and "answers of low confidence" are exactly the refusals with hits.
ASSUME SummaryCounts ==
    \A rs \in Reports :
        LET low(i) == \E s \in rs[i].scores : s # <<>> /\ s[1] < Summary!Threshold
            r == Summary!Rerank(rs)
            a == Summary!Answerability(rs)
        IN  /\ Summary!Total(Summary!Volume(rs).endpoints) = Len(rs)
            /\ Summary!Total(Summary!RouteSection(rs).strategies) = Len(rs)
            /\ Summary!Total(r.bins) = r.count
            /\ a.traced = a.answers /\ a.sql + a.refusals <= a.answers
            /\ r.low = Cardinality({i \in Summary!Answers(rs) : rs[i].answer = {"refusal"} /\ low(i)})
            /\ \A m \in r.median : \E i \in DOMAIN rs : \E s \in rs[i].scores : s # <<>> /\ s[1] = m

\* The verification, the critic and the rewriting are reported of the requests
\* that had them: no share exceeds its whole.
ASSUME SummaryShares ==
    \A rs \in Reports :
        LET v == Summary!Verification(rs)
            p == Summary!Provenance(rs)
            c == Summary!Critic(rs)
            g == Summary!Crag(rs)
        IN  /\ v.count <= Summary!Total(v.risks)
            /\ \A x \in v.middle : \E y \in v.least, z \in v.p95 : y <= x /\ x <= z
            /\ \A x \in v.p95 : x <= 1000
            /\ p.coverage[1] <= p.coverage[2]
            /\ Summary!Total(c.actions) = c.invoked /\ c.invoked <= c.verified
            /\ c.improved <= Summary!Total(c.transitions) /\ c.passed = <<>>
            /\ g.improved <= g.triggered

\* Every request but a table's answer is timed; a label is counted once a request.
ASSUME SummaryLabels ==
    \A rs \in Reports :
        LET l == Summary!Latency(rs)
            f == Summary!Flagged([i \in DOMAIN rs |-> rs[i].pii])
            sql == Summary!Answerability(rs).sql
        IN  /\ sql < Len(rs) => l["total"] = Len(rs) - sql
            /\ f.requests = sql /\ \A k \in DOMAIN f.labels : f.labels[k] = sql

\* Feedback is joined with the traces that are there, and a signal's risks are
\* those of its traces.
ASSUME FeedbackJoins ==
    \A rs \in UNION {[1 .. n -> Traces] : n \in 0 .. 2} :
        \A fb \in [1 .. 2 -> [trace : 1 .. 3, signal : {"up", "down"}]] :
            LET traces == Summary!ById(rs, [i \in DOMAIN rs |-> i])
                f == Summary!FeedbackSection(fb, traces)
            IN  /\ f.matched = Cardinality({i \in DOMAIN fb : fb[i].trace <= Len(rs)})
                /\ \A s \in DOMAIN f.risks : Summary!Total(f.risks[s]) <= f.signals[s]
=============================================================================
