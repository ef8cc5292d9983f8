---------------------------- MODULE TraceSummary ----------------------------
(***************************************************************************)
(* scripts/trace_summary.py: the report on the traces that /answer and     *)
(* /retrieve leave, and what router.py writes into a trace for each way a  *)
(* request can end.  Whether to trust the gate before the LLM, the tables  *)
(* or the critic is decided by these numbers.                              *)
(*                                                                         *)
(* A score is a whole number of ten-thousandths, to which the traces round *)
(* it.  A share is a pair of counts, its division left to the reader, and  *)
(* a part of a trace that may be absent is a set of at most one element.   *)
(***************************************************************************)
EXTENDS Integers, Sequences, FiniteSets
LOCAL INSTANCE FiniteSetsExt

Threshold == 3000

\* TraceRecord with its defaults; the guards' results are sets of labels.
Blank(endpoint, type) ==
    [endpoint |-> endpoint, strategy |-> "hybrid", type |-> type, answer |-> {}, scores |-> {},
     retries |-> 0, before |-> {}, after |-> {}, verification |-> {}, critic |-> {},
     pii |-> {}, injections |-> {}, output |-> {}, spans |-> {}, error |-> {}]

\* A table's answer; its trace has no timing.
TableTrace(type) == [Blank("answer", type) EXCEPT !.strategy = "sql", !.answer = {"answer"}]

Best(scores) == IF scores = <<>> THEN {} ELSE {scores[1]}

SearchedTrace(endpoint, type, scores) ==
    [Blank(endpoint, type) EXCEPT !.scores = {scores}, !.spans = {"search_rerank", "total"}]

RetrievedTrace(type, scores) ==
    [SearchedTrace("retrieve", type, scores) EXCEPT
        !.spans = IF scores = <<>> THEN @ ELSE @ \cup {"sibling_expand"}]

\* The first search may have had other hits than the last.
RefusedTrace(type, before, retries, scores) ==
    [SearchedTrace("answer", type, scores) EXCEPT !.answer = {"refusal"},
        !.before = before, !.retries = retries, !.after = Best(scores)]

\* verification: the risk and the numbers of claims, verifiable and supported
\* ones; critic: none where it is switched off or has nothing to do.
AnsweredTrace(type, before, retries, scores, says, verification, critic) ==
    [RefusedTrace(type, before, retries, scores) EXCEPT !.answer = {says},
        !.verification = {verification}, !.critic = critic, !.output = {{}},
        !.spans = @ \cup {"sibling_expand", "context_truncate", "llm_generate", "verify"}]

-----------------------------------------------------------------------------
\* What is counted or ranked is a function of the requests.  How often each of
\* its values occurs.
Tally(f) == [v \in {f[i] : i \in DOMAIN f} |-> Cardinality({i \in DOMAIN f : f[i] = v})]

Total(f) == MapThenSumSet(LAMBDA i : f[i], DOMAIN f)

\* The k-th value in order, counted from 0.
Ranked(f, k) ==
    CHOOSE v \in {f[i] : i \in DOMAIN f} :
        /\ Cardinality({i \in DOMAIN f : f[i] < v}) <= k
        /\ k < Cardinality({i \in DOMAIN f : f[i] <= v})

\* percentiles of fewer than a hundred values; none of none.
Percentile(f, p) ==
    LET n == Cardinality(DOMAIN f)
    IN  IF n = 0 THEN {} ELSE {Ranked(f, Min({n - 1, (n * p) \div 100}))}

\* histogram: ten bins.  Divided by 0.1 the floating-point numbers 0.3, 0.6 and
\* 0.7 fall short of the bin they open.
Bin(score) ==
    LET bin == score \div 1000
    IN  IF score \in {3000, 6000, 7000} THEN bin - 1
        ELSE IF bin < 0 THEN 0 ELSE IF bin > 9 THEN 9 ELSE bin

Histogram(f) == [b \in 0..9 |-> Cardinality({i \in DOMAIN f : Bin(f[i]) = b})]

\* The requests of one endpoint among the traces rs.
Answers(rs) == {i \in DOMAIN rs : rs[i].endpoint = "answer"}

Volume(rs) ==
    [total |-> Len(rs), endpoints |-> Tally([i \in DOMAIN rs |-> rs[i].endpoint]),
     errors |-> Cardinality({i \in DOMAIN rs : rs[i].error # {}})]

\* _aggregate_route
RouteSection(rs) ==
    [strategies |-> Tally([i \in DOMAIN rs |-> rs[i].strategy]),
     types |-> Tally([i \in DOMAIN rs |-> rs[i].type])]

Answerability(rs) ==
    LET traced == {i \in Answers(rs) : rs[i].answer # {}}
        refusals == {i \in traced : rs[i].answer = {"refusal"}}
        sql == {i \in Answers(rs) : rs[i].strategy = "sql"}
    IN  [answers |-> Cardinality(Answers(rs)), traced |-> Cardinality(traced),
         refusals |-> Cardinality(refusals), sql |-> Cardinality(sql)]

\* _aggregate_rerank: the best scores, their lead over the second, and the
\* answers of low confidence.
Rerank(rs) ==
    LET some == {i \in DOMAIN rs : \E s \in rs[i].scores : s # <<>>}
        two == {i \in some : \E s \in rs[i].scores : Len(s) >= 2}
        of(i) == CHOOSE s \in rs[i].scores : TRUE
        top == [i \in some |-> of(i)[1]]
        gap == [i \in two |-> of(i)[1] - of(i)[2]]
    IN  [median |-> Percentile(top, 50), bins |-> Histogram(top), count |-> Cardinality(some),
         gap |-> Percentile(gap, 50), gaps |-> Cardinality(two),
         low |-> Cardinality({i \in some : top[i] < Threshold /\ rs[i].endpoint = "answer"})]

\* _aggregate_crag: a score that is missing counts as 0.
Crag(rs) ==
    LET triggered == {i \in Answers(rs) : rs[i].retries > 0}
        both == {i \in triggered : rs[i].before # {} /\ rs[i].after # {}}
        score(s) == IF s = {} THEN 0 ELSE CHOOSE x \in s : TRUE
        delta == [i \in both |-> score(rs[i].after) - score(rs[i].before)]
    IN  [triggered |-> Cardinality(triggered),
         improved |-> Cardinality({i \in both : delta[i] > 0}),
         delta |-> <<Total(delta), Cardinality(both)>>,
         below |-> Cardinality({i \in Answers(rs) : score(rs[i].after) < Threshold})]

Verified(rs) == {i \in DOMAIN rs : rs[i].verification # {}}
Of(rs, i) == CHOOSE v \in rs[i].verification : TRUE

\* _aggregate_verification: groundedness, in thousandths, of the answers that
\* have one.
Verification(rs) ==
    LET grounded == {i \in Verified(rs) : Of(rs, i).verifiable > 0}
        share == [i \in grounded |-> (1000 * Of(rs, i).supported) \div Of(rs, i).verifiable]
    IN  [risks |-> Tally([i \in Verified(rs) |-> Of(rs, i).risk]), count |-> Cardinality(grounded),
         middle |-> Percentile(share, 50), p95 |-> Percentile(share, 95),
         least |-> Percentile(share, 0)]

Provenance(rs) ==
    LET counted == {i \in Verified(rs) : Of(rs, i).claims > 0}
    IN  [claims |-> <<Total([i \in counted |-> Of(rs, i).claims]), Cardinality(counted)>>,
         coverage |-> <<Total([i \in counted |-> Of(rs, i).supported]),
                        Total([i \in counted |-> Of(rs, i).verifiable])>>]

\* _aggregate_latency: how many requests a stretch was timed in.
Latency(rs) ==
    LET spans == UNION {rs[i].spans : i \in DOMAIN rs}
    IN  [s \in spans \cap {"sibling_expand", "context_truncate", "llm_generate", "verify", "total"} |->
            Cardinality({i \in DOMAIN rs : s \in rs[i].spans})]

Critic(rs) ==
    LET invoked == {i \in DOMAIN rs : rs[i].critic # {}}
        critic(i) == CHOOSE c \in rs[i].critic : TRUE
        took(a) == {i \in invoked : critic(i).action = a}
    IN  [verified |-> Cardinality(Verified(rs)), invoked |-> Cardinality(invoked),
         failures |-> Tally([i \in invoked |-> critic(i).failure]),
         actions |-> Tally([i \in invoked |-> critic(i).action]),
         improved |-> Cardinality({i \in took("regenerate") : critic(i).improved}),
         transitions |-> Tally([i \in took("regenerate") |-> <<critic(i).before, critic(i).after>>]),
         passed |-> Tally([i \in took("pass") |-> critic(i).before])]

\* _aggregate_input_guard: the requests with a
\* label, and how often each label was given.
Flagged(labels) ==
    LET flagged == {i \in DOMAIN labels : labels[i] # {}}
    IN  [requests |-> Cardinality(flagged),
         labels |-> [l \in UNION {labels[i] : i \in flagged} |->
                        Cardinality({i \in flagged : l \in labels[i]})]]

-----------------------------------------------------------------------------
\* Feedback joined with the traces by their id; a trace of an id that occurs
\* again replaces the one before.
ById(rs, id) == [t \in {id[i] : i \in DOMAIN rs} |-> rs[Max({i \in DOMAIN rs : id[i] = t})]]

\* _aggregate_feedback: which signals, how many of them have a trace, and for
\* each signal the sum and number of best scores and the risks in those traces.
FeedbackSection(fb, traces) ==
    LET matched == {i \in DOMAIN fb : fb[i].trace \in DOMAIN traces}
        scored == {i \in matched : \E s \in traces[fb[i].trace].scores : s # <<>>}
        judged == {i \in matched : traces[fb[i].trace].verification # {}}
        top(i) == (CHOOSE s \in traces[fb[i].trace].scores : TRUE)[1]
        risk(i) == (CHOOSE v \in traces[fb[i].trace].verification : TRUE).risk
        of(S, s) == {i \in S : fb[i].signal = s}
    IN  [total |-> Len(fb), matched |-> Cardinality(matched),
         signals |-> Tally([i \in DOMAIN fb |-> fb[i].signal]),
         scores |-> [s \in {fb[i].signal : i \in scored} |->
                        <<Total([i \in of(scored, s) |-> top(i)]), Cardinality(of(scored, s))>>],
         risks |-> [s \in {fb[i].signal : i \in judged} |-> Tally([i \in of(judged, s) |-> risk(i)])]]

=============================================================================
