----------------------------- MODULE Retrieval -----------------------------
(***************************************************************************)
(* What the search for a question asks of Qdrant (rag/classifier.py,       *)
(* rag/search.py): the share of the two engines, which the words of the    *)
(* question decide, and the filter of the request.  The engines and the    *)
(* reranker are external: each puts the chunks in an order of its own.     *)
(***************************************************************************)
EXTENDS Integers, Sequences, FiniteSetsExt

CONSTANT Multiplier    \* SEARCH_PREFETCH_MULTIPLIER

ASSUME RetrievalAssumption == Multiplier \in Nat \ {0}

\* The kinds of words classify_query looks for.
Words == {"reference", "process", "maybe process", "meaning", "comparison", "interpretation"}

\* "How" and "join" ask for a procedure, unless they ask for a meaning.
IsProcedure(words) ==
    "process" \in words \/ ("maybe process" \in words /\ "meaning" \notin words)

\* What a question is about, in the order classify_query decides it; the last is
\* what remains.
Kinds(words) ==
    IF "reference" \in words THEN <<"procedure", "comparison", "interpretation", "lookup">>
    ELSE <<"comparison", "procedure", "interpretation", "fact">>

\* classify_query: and how many candidates per hit the dense and the keyword
\* search give for it.
Classify(words) ==
    LET kinds == Kinds(words)
        found == {i \in 1..3 : IF kinds[i] = "procedure" THEN IsProcedure(words)
                               ELSE kinds[i] \in words}
        type == kinds[IF found = {} THEN 4 ELSE Min(found)]
    IN  CASE type = "lookup" -> [type |-> type, dense |-> 3, bm25 |-> 8]
          [] "reference" \notin words /\ type # "fact" -> [type |-> type, dense |-> 8, bm25 |-> 3]
          [] OTHER -> [type |-> type, dense |-> 6, bm25 |-> 6]

-----------------------------------------------------------------------------
\* build_filter: f.service and f.document are 0, f.from and f.upto -1 where the
\* request does not say.  A chunk without pages has no first and no last page.
Allows(f, c) ==
    /\ f.service # 0 => c.service = f.service
    /\ f.document # 0 => c.doc = f.document
    /\ f.from # -1 => c.pages # <<>> /\ c.pages[1] >= f.from
    /\ f.upto # -1 => c.pages # <<>> /\ c.pages[2] <= f.upto
    /\ f.include \subseteq c.words
    /\ f.exclude \cap c.words = {}

\* The first n chunks that pass the filter, in an engine's order.
Prefetched(order, f, n) ==
    {order[i] : i \in {j \in DOMAIN order :
        /\ Allows(f, order[j])
        /\ Cardinality({k \in 1..j : Allows(f, order[k])}) <= n}}

\* search_rrf_only: what the fusion of the two lists may leave.
Fused(dense, bm25, f, words, topK) ==
    LET route == Classify(words)
        pool == Prefetched(dense, f, topK * route.dense)
                  \cup Prefetched(bm25, f, topK * route.bm25)
    IN  kSubset(Min({Cardinality(pool), topK * Multiplier}), pool)

\* search_and_rerank: the hits, best first; scores are what the reranker gives.
Reranked(points, scores, topK) ==
    {s \in [1..Min({Cardinality(points), topK}) -> points] :
        /\ \A i, j \in DOMAIN s : i < j => s[i] # s[j] /\ scores[s[i]] >= scores[s[j]]
        /\ \A c \in points : (\E i \in DOMAIN s : s[i] = c)
                              \/ \A i \in DOMAIN s : scores[s[i]] >= scores[c]}

=============================================================================
