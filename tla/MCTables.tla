------------------------------ MODULE MCTables ------------------------------
(* An unbranded product with payment and disease tables in two editions, and *)
(* a branded one with subcontracts in three, the last of which renumbers     *)
(* and has no disease table.                                                 *)
EXTENDS Tables

MCSize ==
    [n \in {"cancer", "cancer benefit", "thyroid_cancer", "thyroid cancer benefit",
            "cancer_diagnosis", "other_skin_cancer", "intensive care", "intensive care stay",
            "in situ cancer benefit", "goldenlife", "dementia", "severe dementia", "nursing", "nursing I", "stomach"} |->
        CASE n = "cancer" -> 1 [] n = "stomach" -> 2 [] n = "nursing" -> 4
          [] n = "cancer benefit" -> 5 [] n = "thyroid_cancer" -> 4
          [] n = "thyroid cancer benefit" -> 8 [] n = "in situ cancer benefit" -> 8
          [] n = "cancer_diagnosis" -> 4
          [] n = "other_skin_cancer" -> 5 [] n = "intensive care" -> 4
          [] n = "intensive care stay" -> 8 [] n = "goldenlife" -> 5
          [] n = "dementia" -> 5 [] n = "severe dementia" -> 7 [] n = "nursing I" -> 5]
MCNames == DOMAIN MCSize
MCWithin ==
    {<<n, n>> : n \in MCNames}
    \cup {<<"cancer", n>> : n \in {"cancer benefit", "thyroid_cancer", "thyroid cancer benefit",
                                   "in situ cancer benefit", "cancer_diagnosis", "other_skin_cancer"}}
    \cup {<<"cancer benefit", "thyroid cancer benefit">>, <<"cancer benefit", "in situ cancer benefit">>,
          <<"thyroid_cancer", "thyroid cancer benefit">>,
          <<"intensive care", "intensive care stay">>,
          <<"dementia", "severe dementia">>, <<"nursing", "nursing I">>}
MCTokens == [n \in MCNames |-> {m \in MCNames : <<m, n>> \in MCWithin}]
MCStem == [n \in MCNames |-> IF n = "nursing I" THEN "nursing" ELSE n]
MCKeywords == <<"cancer benefit", "thyroid cancer benefit", "in situ cancer benefit", "thyroid_cancer",
                "intensive care">>
MCHints == <<<<"in situ cancer benefit", "in situ cancer benefit">>,
             <<"thyroid_cancer", "thyroid_cancer">>, <<"cancer_diagnosis", "cancer_diagnosis">>,
             <<"cancer", "cancer benefit">>>>
MCDiseases == <<<<"thyroid_cancer", C(73)>>, <<"stomach", C(16)>>, <<"cancer", C(50)>>>>
MCBrands == <<<<"goldenlife", "kb">>>>
MCTermsWords == <<"intensive care", "cancer benefit">>

Line(kind) == [kind |-> kind, name |-> None, cause |-> None, periods |-> <<>>, rates |-> <<>>,
               rate |-> None]
Row(name, rates) == [Line("row") EXCEPT !.name = name, !.rates = rates]
Period == <<"up to 90 days", "from one year">>
Payments(rate) ==
    <<[Line("three columns") EXCEPT !.name = "intensive care stay", !.rate = 1],
      Line("text"),
      [Line("cause") EXCEPT !.cause = "illness"],
      [Line("header") EXCEPT !.periods = Period],
      Row("cancer benefit", <<rate, 100>>),
      Row("thyroid cancer benefit", <<10, None>>), Row("in situ cancer benefit", <<10, None>>)>>
Coded(label, lo, hi) == [label |-> label, lo |-> lo, hi |-> hi]
Direct(rate, articles, days) ==
    [name |-> "cancer benefit", refers |-> FALSE, sections |-> <<>>, articles |-> articles,
     conditions |-> <<>>, payments |-> Payments(rate), table |-> {}, days |-> days,
     diseases |-> <<Coded("cancer benefit", C(0), C(50)), Coded(None, C(60), C(60)),
                    Coded("in situ cancer benefit", D(0), D(9))>>]

Says(name, waiting, reduction) == [name |-> name, waiting |-> waiting, reduction |-> reduction]
Section(name, articles) == [name |-> name, stub |-> FALSE, articles |-> articles]
Stub(name) == [name |-> name, stub |-> TRUE, articles |-> {}]
Goldenlife(sections, conditions) ==
    [name |-> "nursing", refers |-> FALSE, sections |-> sections, articles |-> {5},
     conditions |-> conditions, payments |-> <<>>, diseases |-> <<>>, days |-> <<30, 15>>,
     table |-> {[lo |-> C(0), hi |-> C(97)], [lo |-> D(45), hi |-> D(45)],
                [lo |-> [cat |-> 374, dec |-> 1], hi |-> [cat |-> 374, dec |-> 3]]}]

\* A new edition has a subcontract with a name that was told of another.
Old == <<Section("dementia", {3}), Stub("cancer_diagnosis"), Section("severe dementia", {3}),
         Section("nursing I", {})>>
MCEditions ==
    [direct |-> <<Direct(50, {7}, <<>>), Direct(25, {7, 9}, <<15>>)>>,
     kb |-> <<Goldenlife(Old, <<Says("dementia", 365, None), Says("nursing", 90, 40),
                                Says("dementia", None, 50)>>),
              Goldenlife(Append(Old, Section("nursing", {4})),
                         <<Says("dementia", None, 30), Says("severe dementia", 90, None),
                           Says("nursing", 60, 50)>>),
              [Goldenlife(<<Section("severe dementia", {3}), Section("nursing I", {4})>>,
                          <<Says("severe dementia", 90, 20)>>) EXCEPT !.table = {}]>>]

Question(words, via, gates) ==
    [words |-> words, via |-> via, gates |-> gates, says |-> {}, code |-> None,
     product |-> None, sims |-> {}]
In(words) == UNION {{m \in MCNames : <<m, n>> \in MCWithin} : n \in words}
MCQueries ==
    {Question(In({n}), "answer", {"payout"}) :
        n \in {"cancer benefit", "thyroid cancer benefit", "thyroid_cancer", "intensive care"}}
    \cup {Question(In({"goldenlife", "intensive care"}), "payout", {}),
          Question(In({"goldenlife", "dementia"}), "answer", {"payout", "waiting"}),
          Question(In({"goldenlife", "severe dementia"}), "waiting", {}),
          Question(In({"goldenlife", "nursing"}), "waiting", {}),
          Question(In({"goldenlife", "nursing I"}), "waiting", {}),
          Question(In({"goldenlife", "dementia"}), "answer", {"catalog", "coverage"}),
          Question(In({"goldenlife", "thyroid_cancer"}), "coverage", {}),
          Question(In({"goldenlife", "cancer_diagnosis"}), "answer", {"coverage"}),
          Question(In({"goldenlife", "stomach", "cancer"}), "coverage", {}),
          Question(In({"thyroid_cancer"}), "coverage", {}),
          Question(In({"cancer benefit", "thyroid_cancer"}), "answer", {"payout", "coverage"}),
          Question(In({"intensive care"}), "terms", {}),
          Question(In({"goldenlife"}), "answer", {"terms", "exclusion"}),
          Question({}, "exclusion", {})}
    \cup {[Question(In({"cancer benefit"}), "answer", {"payout"})
              EXCEPT !.says = {"illness", "after a year"}],
          [Question(In({"intensive care"}), "exclusion", {}) EXCEPT !.product = "direct"],
          [Question({}, "catalog", {}) EXCEPT !.product = "kb", !.words = In({"nursing I"})],
          [Question({"goldenlife"}, "coverage", {}) EXCEPT !.code = [cat |-> 344, dec |-> 2]],
          [Question({}, "coverage", {}) EXCEPT !.code = D(45)],
          [Question(In({"cancer benefit"}), "answer", {"coverage"}) EXCEPT !.code = D(5)],
          [Question(In({"in situ cancer benefit"}), "coverage", {}) EXCEPT !.code = C(16)],
          [Question({"goldenlife"}, "answer", {})
              EXCEPT !.sims = {<<"exclusion", 70>>, <<"terms", 66>>, <<"exclusion", 68>>}],
          [Question({"goldenlife"}, "answer", {})
              EXCEPT !.sims = {<<"exclusion", 70>>, <<"terms", 69>>}]}

\* Nothing loaded, and everything loaded in order.
MCStart ==
    LET t == [b \in DOMAIN MCEditions |-> 1]
        ingested == Ingested(Ingested(Empty, "direct", Doc("direct", t)), "kb", Doc("kb", t))
        loaded == TermsLoaded(KbCoverageLoaded(CoverageLoaded(
                      WaitingLoaded(PayoutsLoaded(ingested, t), t), t), t), t)
        order == <<<<"ingest", "direct">>, <<"ingest", "kb">>, <<"load_payout">>, <<"load_waiting">>,
                   <<"load_coverage">>, <<"load_kb_coverage">>, <<"load_terms">>>>
    IN  {[db |-> Empty, since |-> <<>>],
         [db |-> loaded,
          since |-> [o \in {order[i] : i \in DOMAIN order} |->
                        {order[j] : j \in {k \in DOMAIN order : \E i \in 1..(k - 1) : order[i] = o}}]]}
MCRank == [direct |-> 1, kb |-> 2]

\* What RateAgreesWithVerdict supposes of the documents.
ASSUME PartsAreRated == PartsRated
=============================================================================
