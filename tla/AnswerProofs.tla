---------------------------- MODULE AnswerProofs ----------------------------
(***************************************************************************)
(* Proofs about POST /answer, for any corpus, drafts, settings, budgets    *)
(* and number of retries: what reaches the LLM, what the LLM is told, what *)
(* the client is told and what the trace records.                          *)
(***************************************************************************)
EXTENDS Answer, FiniteSetTheorems, TLAPS

-----------------------------------------------------------------------------
\* About the grader: C is a context, E the evidence it is a part of.

\* A reference the context makes is not missing from the evidence.
LEMMA FoundIsNotMissing ==
    ASSUME NEW T, NEW E, NEW C \in SUBSET E
    PROVE  Refs(C) \cap MissingRefs(T, E) = {}
<1>1. Articles(C) \subseteq Articles(E) /\ Appendices(C) \subseteq Appendices(E)
  BY DEF Articles, Appendices
<1>2. \A r \in Articles(C) : r.kind = "article"
  BY DEF Articles
<1>3. \A r \in Appendices(C) : r.kind = "appendix"
  BY DEF Appendices
<1>4. \A r \in Articles(T) : r.kind = "article"
  BY DEF Articles
<1>5. \A r \in Appendices(T) : r.kind = "appendix"
  BY DEF Appendices
<1> QED
  BY <1>1, <1>2, <1>3, <1>4, <1>5 DEF Refs, MissingRefs

\* Nor is a number of the context a mismatch.
LEMMA FoundIsNoMismatch ==
    ASSUME NEW T, NEW E, NEW C \in SUBSET E
    PROVE  Numerics(C) \cap Mismatches(T, E) = {}
  BY DEF Numerics, Mismatches

\* The hint of a regeneration (grader.py: build_hint) allows something, and
\* forbids nothing of what it allows.
LEMMA HintConsistent ==
    ASSUME NEW T, NEW E, NEW C \in SUBSET E,
           Failure(T, E, C) \in {"generation_error", "unit_error"}
    PROVE  LET f == Failure(T, E, C)
           IN  Allowed(f, E, C) # {} /\ Allowed(f, E, C) \cap Forbidden(f, T, E) = {}
<1>1. CASE Failure(T, E, C) = "generation_error"
  <2>1. Refs(C) # {}
    BY <1>1 DEF Failure
  <2> QED
    BY <1>1, <2>1, FoundIsNotMissing DEF Allowed, Forbidden
<1>2. CASE Failure(T, E, C) = "unit_error"
  <2>1. Numerics(C) # {}
    BY <1>2 DEF Failure
  <2> QED
    BY <1>2, <2>1, FoundIsNoMismatch DEF Allowed, Forbidden
<1> QED
  BY <1>1, <1>2

\* An answer that cites only what the hint allows lacks no reference, and one
\* that keeps to the allowed numbers has no mismatch: the second verification
\* of router.py finds nothing the hint did not warn of.
THEOREM HintSuffices ==
    ASSUME NEW A, NEW E, NEW C \in SUBSET E
    PROVE  /\ Refs(A) \subseteq Allowed("generation_error", E, C) => MissingRefs(A, E) = {}
           /\ Numerics(A) \subseteq Allowed("unit_error", E, C) => Mismatches(A, E) = {}
<1>1. ASSUME Refs(A) \subseteq Allowed("generation_error", E, C)
      PROVE  MissingRefs(A, E) = {}
  <2>1. MissingRefs(A, E) \subseteq Refs(A)
    BY DEF MissingRefs, Refs
  <2>2. Refs(A) \subseteq Refs(C)
    BY <1>1 DEF Allowed
  <2> QED
    BY <2>1, <2>2, FoundIsNotMissing
<1>2. ASSUME Numerics(A) \subseteq Allowed("unit_error", E, C)
      PROVE  Mismatches(A, E) = {}
  <2>1. Mismatches(A, E) \subseteq Numerics(A)
    BY DEF Mismatches
  <2>2. Numerics(A) \subseteq Numerics(C)
    BY <1>2 DEF Allowed
  <2> QED
    BY <2>1, <2>2, FoundIsNoMismatch
<1> QED
  BY <1>1, <1>2

\* A retrieval gap has no neighbour of what is missing in the context.
LEMMA GapHasNoNeighbour ==
    ASSUME NEW T, NEW E, NEW C, Failure(T, E, C) = "retrieval_gap"
    PROVE  \A m \in MissingRefs(T, E) : \A c \in Refs(C) : ~Adjacent(m, c)
  BY DEF Failure

-----------------------------------------------------------------------------
\* The inductive invariant, by the stage of the handler.

Gap == \A m \in MissingRefs(draft.text, Evidence(ranked, context)) :
           \A c \in Refs(context) : ~Adjacent(m, c)

\* Nothing is answered or traced before the end, and nothing drafted before the
\* context is built.
Untold ==
    /\ stage # "done" => reply = None /\ written = {}
    /\ stage \in {"route", "retrieve", "tables", "search", "found", "expanded"} =>
           draft = None /\ hint = None /\ ~escalated /\ rec.after = "none" /\ rec.answer = "none"
    /\ stage = "verified" => hint = None /\ ~escalated

\* The LLM is reached only past the gate.
PastGate == stage \in {"expanded", "verified", "reply"} => Reliable

\* The verdict in hand is about the draft in hand, and recorded.
Current ==
    /\ rec \in [answer : {"none", "answer", "refusal"}, risk : Risks \cup {"none"}, after : Risks \cup {"none"}]
    /\ stage \in {"verified", "reply"} =>
           /\ draft \in Drafts
           /\ verdict = Verified(draft, ranked, context) /\ rec.risk = verdict
           /\ rec.after \in {verdict, "none"}
    /\ escalated => hint = None /\ Gap /\ verdict # "pass"

IInv == Untold /\ PastGate /\ Current
             /\ LowConfidenceRefused /\ ToldAboutReturned /\ TraceTellsReply /\ HintHolds

\* A verdict is one of the four risk levels.
LEMMA RiskIsRisk ==
    ASSUME NEW T, NEW E
    PROVE  Risk(T, E) \in Risks
  BY DEF Risk, Risks

\* Nothing is drafted, told or traced at the start.
LEMMA InitInv == Init => IInv
  BY DEF Init, IInv, Untold, PastGate, Current, None, EmptyRec, Risks,
         LowConfidenceRefused, ToldAboutReturned, TraceTellsReply, HintHolds

\* The steps before anything is drafted.
LEMMA EarlySteps ==
    ASSUME IInv, Semantic \/ Miss \/ Search \/ Rewrite \/ Expand
    PROVE  IInv'
<1>1. /\ stage \in {"route", "tables", "search", "found"}
      /\ stage' \in {"tables", "search", "found", "expanded"}
      /\ UNCHANGED <<criticVars, context, rec, written, reply>>
      /\ stage' = "expanded" => Reliable /\ UNCHANGED <<ranked, score>>
  BY DEF Semantic, Miss, Search, Rewrite, Expand, Searched, searchVars, contextVars
<1>2. Untold'
  BY <1>1 DEF IInv, Untold, criticVars
<1>3. PastGate'
  BY <1>1 DEF PastGate, Reliable, Enough
<1>4. Current'
  BY <1>1 DEF IInv, Untold, Current, criticVars
<1>5. draft' = None /\ hint' = None /\ reply' = None
  BY <1>1 DEF IInv, Untold, criticVars
<1>6. /\ LowConfidenceRefused' /\ ToldAboutReturned'
      /\ TraceTellsReply' /\ HintHolds'
  BY <1>5 DEF LowConfidenceRefused, ToldAboutReturned, TraceTellsReply, HintHolds, None
<1> QED
  BY <1>2, <1>3, <1>4, <1>6 DEF IInv

\* The first draft: its verdict is recorded with it.
LEMMA GenerateStep ==
    ASSUME IInv, Generate
    PROVE  IInv'
<1> PICK t \in Truncations(sections, budget), d \in Drafts :
        /\ context' = t.text /\ draft' = d
        /\ verdict' = Verified(d, ranked, t.text)
        /\ rec' = [rec EXCEPT !.risk = verdict']
  BY DEF Generate
<1>1. /\ stage = "expanded" /\ stage' = "verified"
      /\ UNCHANGED <<ranked, score, hint, escalated, written, reply>>
  BY DEF Generate, searchVars
<1>2. Untold'
  BY <1>1 DEF IInv, Untold
<1>3. PastGate'
  BY <1>1 DEF IInv, PastGate, Reliable, Enough
<1>4. verdict' \in Risks
  BY RiskIsRisk DEF Verified
<1>5. Current'
  BY <1>1, <1>4 DEF IInv, Untold, Current, Verified, Evidence
<1>6. hint' = None /\ reply' = None
  BY <1>1 DEF IInv, Untold
<1>7. LowConfidenceRefused'
  BY <1>1, <1>6 DEF IInv, PastGate, Reliable, Enough, LowConfidenceRefused, None
<1>8. ToldAboutReturned' /\ TraceTellsReply' /\ HintHolds'
  BY <1>6 DEF ToldAboutReturned, TraceTellsReply, HintHolds, None
<1> QED
  BY <1>2, <1>3, <1>5, <1>7, <1>8 DEF IInv

\* The second draft: the hint is consistent, the verdict that of the new draft.
LEMMA RegenerateStep ==
    ASSUME IInv, Regenerate
    PROVE  IInv'
<1> PICK d \in Drafts : draft' = d /\ verdict' = Verified(d, ranked, context)
  BY DEF Regenerate
<1> DEFINE E == Evidence(ranked, context)
<1>1. /\ stage = "verified" /\ stage' = "reply"
      /\ rec' = [rec EXCEPT !.risk = verdict', !.after = verdict']
      /\ UNCHANGED <<ranked, score, context, escalated, written, reply>>
  BY DEF Regenerate, searchVars, contextVars
<1>2. Untold'
  BY <1>1 DEF IInv, Untold
<1>3. PastGate'
  BY <1>1 DEF IInv, PastGate, Reliable, Enough
<1>4. verdict' \in Risks
  BY RiskIsRisk DEF Verified
<1>5. ~escalated' /\ reply' = None
  BY <1>1 DEF IInv, Untold
<1>6. Current'
  BY <1>1, <1>4, <1>5 DEF IInv, Current, Verified, Evidence
<1>7. HintHolds'
  <2>1. hint' = [allowed |-> Allowed(FailureType, E, context),
                 forbidden |-> Forbidden(FailureType, draft.text, E)]
    BY DEF Regenerate
  <2>2. context \in SUBSET E
    BY DEF Evidence
  <2>3. Failure(draft.text, E, context) \in {"generation_error", "unit_error"}
    BY DEF Regenerate, Regenerates, FailureType
  <2>4. /\ Allowed(FailureType, E, context) # {}
        /\ Allowed(FailureType, E, context) \cap Forbidden(FailureType, draft.text, E) = {}
    BY <2>2, <2>3, HintConsistent DEF FailureType
  <2> QED
    BY <2>1, <2>4 DEF HintHolds
<1>8. LowConfidenceRefused'
  BY <1>1, <1>5 DEF IInv, PastGate, Reliable, Enough, LowConfidenceRefused, None
<1>9. ToldAboutReturned' /\ TraceTellsReply'
  BY <1>5 DEF ToldAboutReturned, TraceTellsReply, None
<1> QED
  BY <1>2, <1>3, <1>6, <1>7, <1>8, <1>9 DEF IInv

\* The draft stays; it is escalated only over a gap in the retrieval.
LEMMA JudgeStep ==
    ASSUME IInv, Judge
    PROVE  IInv'
<1>1. /\ stage = "verified" /\ stage' = "reply"
      /\ escalated' = (CriticInvoked /\ FailureType = "retrieval_gap")
      /\ rec' = [rec EXCEPT !.after = IF CriticInvoked THEN verdict ELSE "none"]
      /\ UNCHANGED <<ranked, score, context, draft, verdict, hint, written, reply>>
  BY DEF Judge, searchVars, contextVars
<1>2. Untold'
  BY <1>1 DEF IInv, Untold
<1>3. PastGate'
  BY <1>1 DEF IInv, PastGate, Reliable, Enough
<1>4. escalated' => Gap' /\ verdict' # "pass"
  BY <1>1, GapHasNoNeighbour DEF CriticInvoked, FailureType, Gap, Evidence
<1>5. verdict \in Risks
  BY <1>1, RiskIsRisk DEF IInv, Current, Verified
<1>6. hint' = None /\ reply' = None
  BY <1>1 DEF IInv, Untold
<1>7. Current'
  BY <1>1, <1>4, <1>5, <1>6 DEF IInv, Current, Verified, Evidence
<1>8. LowConfidenceRefused'
  BY <1>1, <1>6 DEF IInv, LowConfidenceRefused, None
<1>9. ToldAboutReturned' /\ TraceTellsReply' /\ HintHolds'
  BY <1>6 DEF ToldAboutReturned, TraceTellsReply, HintHolds, None
<1> QED
  BY <1>2, <1>3, <1>7, <1>8, <1>9 DEF IInv

\* The steps that end the request.
LEMMA HitStep ==
    ASSUME IInv, Hit
    PROVE  IInv'
<1>1. /\ stage = "tables" /\ stage' = "done"
      /\ rec' = [rec EXCEPT !.answer = "answer"] /\ reply' = [kind |-> "sql"]
      /\ written' = written \cup {rec'}
      /\ UNCHANGED <<ranked, score, context, criticVars>>
  BY DEF Hit, Finish, searchVars, contextVars
<1>2. draft' = None /\ hint' = None /\ ~escalated' /\ written = {}
  BY <1>1 DEF IInv, Untold, criticVars
<1>3. Untold' /\ PastGate'
  BY <1>1 DEF Untold, PastGate
<1>4. Current'
  BY <1>1, <1>2 DEF IInv, Current
<1>5. TraceTellsReply'
  BY <1>1, <1>2 DEF IInv, Current, TraceTellsReply
<1>6. LowConfidenceRefused' /\ ToldAboutReturned' /\ HintHolds'
  BY <1>1, <1>2 DEF LowConfidenceRefused, ToldAboutReturned, HintHolds
<1> QED
  BY <1>3, <1>4, <1>5, <1>6 DEF IInv

\* A search alone is traced without an answer.
LEMMA RetrieveStep ==
    ASSUME IInv, Retrieve
    PROVE  IInv'
<1>1. /\ stage = "retrieve" /\ stage' = "done"
      /\ rec' = rec /\ reply' = [kind |-> "sources"]
      /\ written' = written \cup {rec'}
      /\ UNCHANGED criticVars
  BY DEF Retrieve, Finish
<1>2. draft' = None /\ hint' = None /\ ~escalated' /\ written = {}
  BY <1>1 DEF IInv, Untold, criticVars
<1>3. Untold' /\ PastGate'
  BY <1>1 DEF Untold, PastGate
<1>4. Current'
  BY <1>1, <1>2 DEF IInv, Current
<1>5. TraceTellsReply'
  <2>1. rec.answer = "none"
    BY <1>1 DEF IInv, Untold
  <2> QED
    BY <1>1, <1>2, <2>1 DEF TraceTellsReply
<1>6. LowConfidenceRefused' /\ ToldAboutReturned' /\ HintHolds'
  BY <1>1, <1>2 DEF LowConfidenceRefused, ToldAboutReturned, HintHolds
<1> QED
  BY <1>3, <1>4, <1>5, <1>6 DEF IInv

\* A refusal is traced as one, and follows from a poor result.
LEMMA RefuseStep ==
    ASSUME IInv, Refuse
    PROVE  IInv'
<1>1. /\ stage = "found" /\ stage' = "done" /\ ~Reliable
      /\ rec' = [rec EXCEPT !.answer = "refusal"] /\ reply' = [kind |-> "refused"]
      /\ written' = written \cup {rec'}
      /\ UNCHANGED <<ranked, score, context, criticVars>>
  BY DEF Refuse, Searched, Finish, searchVars, contextVars
<1>2. draft' = None /\ hint' = None /\ ~escalated' /\ written = {}
  BY <1>1 DEF IInv, Untold, criticVars
<1>3. Untold' /\ PastGate'
  BY <1>1 DEF Untold, PastGate
<1>4. Current'
  BY <1>1, <1>2 DEF IInv, Current
<1>5. TraceTellsReply'
  BY <1>1, <1>2 DEF IInv, Current, TraceTellsReply
<1>6. LowConfidenceRefused'
  BY <1>1, <1>2 DEF LowConfidenceRefused, Reliable, Enough
<1>7. ToldAboutReturned' /\ HintHolds'
  BY <1>1, <1>2 DEF ToldAboutReturned, HintHolds
<1> QED
  BY <1>3, <1>4, <1>5, <1>6, <1>7 DEF IInv

\* What the client and the trace get is about the draft in hand.
LEMMA ReplyStep ==
    ASSUME IInv, Reply
    PROVE  IInv'
<1>1. /\ stage = "reply" /\ stage' = "done"
      /\ rec' = [rec EXCEPT !.answer = draft.says]
      /\ reply' = [kind |-> "llm", draft |-> draft,
                   risk |-> IF Told THEN verdict ELSE "none", escalated |-> escalated,
                   citations |-> Supported(draft.text, Evidence(ranked, context),
                                           {Said({c}) : c \in Hits(ranked)}, draft.claims)]
      /\ written' = written \cup {rec'}
      /\ UNCHANGED <<ranked, score, context, draft, verdict, hint, escalated>>
  BY DEF Reply, Finish, searchVars, contextVars, criticVars
<1>2. /\ draft \in Drafts /\ draft.says \in {"answer", "refusal"} /\ written = {}
      /\ verdict = Risk(draft.text, Evidence(ranked, context)) /\ verdict \in Risks
      /\ rec.risk = verdict /\ rec.after \in {verdict, "none"}
  BY <1>1, AnswerAssumption, RiskIsRisk DEF IInv, Untold, Current, Verified
<1>3. Untold' /\ PastGate'
  BY <1>1 DEF Untold, PastGate
<1>4. escalated => hint = None /\ Gap /\ verdict # "pass"
  BY DEF IInv, Current
<1>5. Evidence(ranked, context)' = Evidence(ranked, context)
  BY <1>1 DEF Evidence
<1>6. Gap' <=> Gap
  BY <1>1, <1>5 DEF Gap
<1>7. Current'
  BY <1>1, <1>2, <1>4, <1>6 DEF IInv, Current
<1>8. ToldAboutReturned'
  <2>1. reply'.risk = IF verdict = "pass" THEN "none" ELSE verdict
    BY <1>1, <1>4 DEF Told
  <2>2. reply'.escalated => hint' = None /\ Gap
    BY <1>1, <1>4
  <2> QED
    BY <1>1, <1>2, <1>5, <2>1, <2>2 DEF ToldAboutReturned, Gap
<1>9. TraceTellsReply'
  BY <1>1, <1>2, <1>5 DEF IInv, Current, TraceTellsReply
<1>10. LowConfidenceRefused' /\ HintHolds'
  BY <1>1 DEF IInv, LowConfidenceRefused, HintHolds
<1> QED
  BY <1>3, <1>7, <1>8, <1>9, <1>10 DEF IInv

\* A request that fails tells the client nothing.
LEMMA FailSteps ==
    ASSUME IInv, KeyError \/ Raise
    PROVE  IInv'
<1>1. /\ stage' = "done" /\ reply' = [kind |-> "error"]
      /\ \/ rec' = rec
         \/ draft \in Drafts /\ rec' = [rec EXCEPT !.answer = draft.says]
      /\ UNCHANGED <<ranked, score, context, criticVars>>
  BY DEF KeyError, Raise, IInv, Current, searchVars, contextVars
<1>2. Untold' /\ PastGate'
  BY <1>1 DEF Untold, PastGate
<1>3. Current'
  BY <1>1, AnswerAssumption DEF IInv, Current, Gap, Evidence, criticVars
<1>4. LowConfidenceRefused' /\ HintHolds'
  BY <1>1 DEF IInv, LowConfidenceRefused, HintHolds, criticVars
<1>5. ToldAboutReturned' /\ TraceTellsReply'
  BY <1>1 DEF ToldAboutReturned, TraceTellsReply
<1> QED
  BY <1>2, <1>3, <1>4, <1>5 DEF IInv

\* Every step keeps the invariant.
LEMMA NextInv == IInv /\ [Next]_vars => IInv'
<1> SUFFICES ASSUME IInv, [Next]_vars PROVE IInv'
  OBVIOUS
<1>1. CASE Next
  BY <1>1, EarlySteps, GenerateStep, RegenerateStep, JudgeStep, HitStep, RetrieveStep, RefuseStep,
     ReplyStep, FailSteps DEF Next
<1>2. CASE UNCHANGED vars
  BY <1>2 DEF vars, searchVars, contextVars, criticVars, IInv, Untold, PastGate, Reliable,
     Enough, Current, Gap, Verified, Evidence, LowConfidenceRefused, ToldAboutReturned,
     TraceTellsReply, HintHolds
<1> QED
  BY <1>1, <1>2

\* Hence the invariant holds throughout.
LEMMA Inductive == Spec => []IInv
  BY InitInv, NextInv, PTL DEF Spec

\* The LLM is reached only with a search result above the threshold, and no such
\* result is refused (router.py: the gate before the generation).
THEOREM PoorResultsRefused == Spec => []LowConfidenceRefused
<1>1. IInv => LowConfidenceRefused
  BY DEF IInv
<1> QED
  BY Inductive, <1>1, PTL

\* The client is told the verdict about the answer it gets (router.py: the
\* verification after the critic's dispatch).
THEOREM VerdictIsCurrent == Spec => []ToldAboutReturned
<1>1. IInv => ToldAboutReturned
  BY DEF IInv
<1> QED
  BY Inductive, <1>1, PTL

\* Every response leaves one trace that says what the response says.
THEOREM TraceIsTrue == Spec => []TraceTellsReply
<1>1. IInv => TraceTellsReply
  BY DEF IInv
<1> QED
  BY Inductive, <1>1, PTL

\* The hint of a regeneration does not contradict itself.
THEOREM HintIsConsistent == Spec => []HintHolds
<1>1. IInv => HintHolds
  BY DEF IInv
<1> QED
  BY Inductive, <1>1, PTL

-----------------------------------------------------------------------------
\* Filter, search and context together.

\* A section of the context holds chunks under its own heading, and of the
\* document the hits are from, if they are from one (expand_siblings).
LEMMA SectionsOfHits ==
    ASSUME NEW ranked_, \A i \in DOMAIN ranked_ : ranked_[i] \in Corpus,
           NEW s \in Expansions(ranked_), NEW p \in DOMAIN s, NEW c \in s[p],
           NEW d, \A h \in Hits(ranked_) : h.doc = d
    PROVE  c.path = p /\ c.doc = d
<1> DEFINE docs == {g.doc : g \in Several(ranked_)}
<1>1. s[p] \in SectionOf(ranked_, p)
  BY DEF Expansions
<1>2. \A h \in FirstHits(ranked_) : h \in Hits(ranked_)
  BY DEF FirstHits, Hits
<1>3. CASE p = 0
  BY <1>1, <1>3 DEF SectionOf
<1>4. CASE p # 0
  <2>1. PICK h \in FirstHits(ranked_) :
            h.path = p /\ s[p] \in IF h.total = 1 THEN {{h}} ELSE OnePerPart(Window(ranked_, h))
    BY <1>1, <1>4 DEF SectionOf
  <2>2. CASE h.total = 1
    BY <2>1, <2>2, <1>2
  <2>3. CASE h.total # 1
    <3>1. c \in Window(ranked_, h)
      BY <2>1, <2>3 DEF OnePerPart
    <3>2. c.path = h.path /\ (Cardinality(docs) = 1 => c.doc \in docs)
      BY <3>1 DEF Window, Siblings
    <3>3. h \in Several(ranked_)
      <4>1. h \in Corpus
        BY <1>2 DEF Hits
      <4>2. h.total > 1
        BY <4>1, <2>3, ContextAssumption
      <4> QED
        BY <4>2 DEF Several
    <3>4. docs = {d}
      BY <3>3, <1>2 DEF Several
    <3>5. Cardinality(docs) = 1
      BY <3>4, FS_Singleton
    <3> QED
      BY <2>1, <3>2, <3>4, <3>5
  <2> QED
    BY <2>2, <2>3
<1> QED
  BY <1>3, <1>4

\* What the search leaves passes the filter of the request (build_filter).
LEMMA HitsPassFilter ==
    ASSUME NEW dense, NEW bm25, NEW f, NEW words, NEW topK \in Nat, NEW scores,
           NEW points \in Fused(dense, bm25, f, words, topK),
           NEW s \in Reranked(points, scores, topK), NEW i \in DOMAIN s
    PROVE  Allows(f, s[i])
<1> DEFINE route == Classify(words)
           pool == Prefetched(dense, f, topK * route.dense)
                     \cup Prefetched(bm25, f, topK * route.bm25)
<1>1. \A c \in pool : Allows(f, c)
  BY DEF Prefetched
<1>2. points \in SUBSET pool
  BY DEF Fused, kSubset
<1>3. s[i] \in points
  BY DEF Reranked
<1> QED
  BY <1>1, <1>2, <1>3

\* A question about one document is answered from that document: no chunk of
\* another one comes into the context, also not through a heading that both
\* have (search.py: build_filter; sibling.py: _fetch_siblings_batch).
THEOREM FilterConfinesContext ==
    ASSUME NEW dense, NEW bm25, NEW f, f.document # 0, NEW words, NEW topK \in Nat, NEW scores,
           NEW points \in Fused(dense, bm25, f, words, topK), points \subseteq Corpus,
           NEW hits \in Reranked(points, scores, topK), NEW s \in Expansions(hits),
           NEW p \in DOMAIN s, NEW c \in s[p]
    PROVE  c.doc = f.document /\ c.path = p
<1>1. \A i \in DOMAIN hits : hits[i] \in Corpus
  BY DEF Reranked
<1>2. \A h \in Hits(hits) : h.doc = f.document
  <2>1. \A i \in DOMAIN hits : Allows(f, hits[i])
    BY HitsPassFilter
  <2> QED
    BY <2>1 DEF Allows, Hits
<1> QED
  BY <1>1, <1>2, SectionsOfHits

=============================================================================
