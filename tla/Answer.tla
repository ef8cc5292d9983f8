------------------------------- MODULE Answer -------------------------------
(***************************************************************************)
(* POST /answer (router.py: answer), one request, or POST /retrieve, which *)
(* ends with the search.  For an answer the tables are asked               *)
(* first, as far as the regular expressions (the gates) or else the        *)
(* semantic router see a reason to.  Then the corpus is searched, the      *)
(* question rewritten while the result is poor, and the request refused or *)
(* handed to the LLM with a context that fits its budget.  The answer is   *)
(* verified, and, where the critic is on, written again with a hint or     *)
(* marked for escalation.                                                  *)
(*                                                                         *)
(* What a gate recognises, what a table holds, what the search ranks first *)
(* and what the LLM writes is open.  A score is one of three levels: below *)
(* CRAG_ABORT_THRESHOLD, below CRAG_SCORE_THRESHOLD, enough.               *)
(***************************************************************************)
EXTENDS Grading, Context, Retrieval

CONSTANTS
    Toggles,           \* settings: records of SQL, SEMANTIC and CRITIC
    Gates,             \* the sets of gates a question may trip
    Drafts,            \* what the LLM may write
    Budgets,           \* token budgets of the context
    TopK,              \* hits asked for
    CRAG_MAX_RETRIES

\* The tables, in the order they are asked.
Order == <<"payout", "terms", "coverage", "catalog", "waiting", "exclusion">>
Routes == {Order[i] : i \in DOMAIN Order}

Levels == {"abort", "low", "enough"}
Risks == {"pass", "warn", "soft_fail", "hard_fail"}

\* A draft is the references of its text, those of each claim, and what it says.
ASSUME AnswerAssumption ==
    /\ Toggles \subseteq [SQL : BOOLEAN, SEMANTIC : BOOLEAN, CRITIC : BOOLEAN]
    /\ Gates \subseteq SUBSET Routes
    /\ \A d \in Drafts : d.says \in {"answer", "refusal"} /\ d.text \subseteq Reference
    /\ Budgets \subseteq Int /\ TopK \in Nat /\ CRAG_MAX_RETRIES \in Nat

None == [kind |-> "none"]

VARIABLES
    toggles,    \* the settings of the process
    gates,      \* the gates the question trips
    sem,        \* the route of the semantic router, or "none"
    stage,      \* where the handler is
    branch,     \* the table to ask next
    ranked,     \* the hits, best first
    score,      \* the level of the best hit's score
    giveUp,     \* _abort: the first search found nothing worth rewriting for
    tries,      \* retry_count
    sections,   \* the expanded context: heading path |-> chunks
    budget,
    kept,       \* the sections left in the context
    context,    \* what the context the LLM is given says
    draft,      \* answer_text
    verdict,    \* verification: its risk level
    hint,       \* what the LLM was told to use and not to use
    escalated,  \* escalation_required
    rec,        \* the trace record: its answer, verification and critic
    written,    \* the traces given to write_trace
    reply       \* what the client gets

routeVars == <<gates, sem, branch>>
searchVars == <<ranked, score, giveUp, tries>>
contextVars == <<sections, budget, kept, context>>
criticVars == <<draft, verdict, hint, escalated>>
vars == <<toggles, routeVars, stage, searchVars, contextVars, criticVars, rec, written, reply>>

EmptyRec == [answer |-> "none", risk |-> "none", after |-> "none"]

Init ==
    /\ toggles \in Toggles /\ gates \in Gates
    /\ sem = "none" /\ branch = 1 /\ stage \in {"route", "retrieve"}
    /\ ranked = <<>> /\ score = "abort" /\ giveUp = FALSE /\ tries = 0
    /\ sections = <<>> /\ kept = {} /\ context = {} /\ budget \in Budgets
    /\ draft = None /\ verdict = "none" /\ hint = None /\ escalated = FALSE
    /\ rec = EmptyRec /\ written = {} /\ reply = None

-----------------------------------------------------------------------------
\* The deterministic routes.

\* The semantic router is asked where no gate is tripped; if it fails or
\* abstains, nothing changes.
Semantic ==
    /\ stage = "route"
    /\ stage' = "tables"
    /\ IF toggles.SQL /\ toggles.SEMANTIC /\ gates = {}
       THEN sem' \in Routes \cup {"none"}
       ELSE sem' = "none"
    /\ UNCHANGED <<toggles, gates, branch, searchVars, contextVars, criticVars, rec, written, reply>>

Asked(route) == toggles.SQL /\ (route \in gates \/ sem = route)

\* A branch whose table has no answer leaves the question to the next one.
Miss ==
    /\ stage = "tables"
    /\ IF branch \in DOMAIN Order
       THEN branch' = branch + 1 /\ stage' = stage
       ELSE branch' = branch /\ stage' = "search"
    /\ UNCHANGED <<toggles, gates, sem, searchVars, contextVars, criticVars, rec, written, reply>>

Finish(trace, response) ==
    /\ rec' = trace
    /\ written' = written \cup {trace}
    /\ reply' = response
    /\ stage' = "done"

\* Mutant: the trace of a deterministic answer has no answer.
HitUnrecorded ==
    /\ stage = "tables" /\ branch \in DOMAIN Order /\ Asked(Order[branch])
    /\ Finish(rec, [kind |-> "sql"])
    /\ UNCHANGED <<toggles, routeVars, searchVars, contextVars, criticVars>>

Hit ==
    /\ stage = "tables" /\ branch \in DOMAIN Order /\ Asked(Order[branch])
    /\ Finish([rec EXCEPT !.answer = "answer"], [kind |-> "sql"])
    /\ UNCHANGED <<toggles, routeVars, searchVars, contextVars, criticVars>>

-----------------------------------------------------------------------------
\* Search, and the rewriting of the question (CRAG).

\* search_and_rerank.
Rankings ==
    {[hits |-> <<>>, score |-> "abort"]}
    \cup {[hits |-> s, score |-> l] :
            s \in {t \in UNION {[1 .. n -> Corpus] : n \in 1 .. TopK} :
                     \A i, j \in DOMAIN t : t[i] = t[j] => i = j}, l \in Levels}

\* POST /retrieve: whatever the score, the hits with their whole sections.
Retrieve ==
    /\ stage = "retrieve"
    /\ \E r \in Rankings : /\ ranked' = r.hits /\ score' = r.score
                           /\ sections' \in Expansions(r.hits)
    /\ context' = Said(UNION {sections'[p] : p \in DOMAIN sections'})
    /\ Finish(rec, [kind |-> "sources"])
    /\ UNCHANGED <<toggles, routeVars, giveUp, tries, budget, kept, criticVars>>

Search ==
    /\ stage = "search"
    /\ \E r \in Rankings : /\ ranked' = r.hits /\ score' = r.score
                           /\ giveUp' = (r.score = "abort")
    /\ stage' = "found"
    /\ UNCHANGED <<toggles, routeVars, tries, contextVars, criticVars, rec, written, reply>>

\* evaluate_retrieval
Enough == ranked # <<>> /\ score = "enough"

\* giveUp is not looked at again after the first search.
WorthRewriting == ~giveUp /\ ~Enough /\ tries < CRAG_MAX_RETRIES

\* Mutant: the attempts are not counted.
RewriteUncounted ==
    /\ stage = "found" /\ WorthRewriting
    /\ \E r \in Rankings : ranked' = r.hits /\ score' = r.score
    /\ UNCHANGED <<toggles, routeVars, stage, giveUp, tries, contextVars, criticVars, rec, written, reply>>

\* The LLM rewrites the question, or the question stays; then the search again.
Rewrite ==
    /\ stage = "found" /\ WorthRewriting
    /\ tries' = tries + 1
    /\ \E r \in Rankings : ranked' = r.hits /\ score' = r.score
    /\ UNCHANGED <<toggles, routeVars, stage, giveUp, contextVars, criticVars, rec, written, reply>>

Searched == stage = "found" /\ ~WorthRewriting

\* Mutant: only an empty result is refused.
ReliableIfAny == ranked # <<>>

\* The gate before the LLM: something was found, and not of low confidence.
Reliable == ranked # <<>> /\ ~(ranked # <<>> /\ ~Enough)

Refuse ==
    /\ Searched /\ ~Reliable
    /\ Finish([rec EXCEPT !.answer = "refusal"], [kind |-> "refused"])
    /\ UNCHANGED <<toggles, routeVars, searchVars, contextVars, criticVars>>

-----------------------------------------------------------------------------
\* The context and the answer.

Expand ==
    /\ Searched /\ Reliable
    /\ sections' \in Expansions(ranked)
    /\ stage' = "expanded"
    /\ UNCHANGED <<toggles, routeVars, searchVars, budget, kept, context, criticVars, rec, written, reply>>

\* Mutant: the siblings in the context are no evidence.
EvidenceOfChunks(hits, text) == Said(Hits(hits))

\* verify_answer: the retrieved chunks with their headings, and the context.
Evidence(hits, text) == Said(Hits(hits)) \cup text

Verified(d, hits, text) == Risk(d.text, Evidence(hits, text))

Generate ==
    /\ stage = "expanded"
    /\ \E t \in Truncations(sections, budget), d \in Drafts :
          /\ kept' = t.kept /\ context' = t.text
          /\ draft' = d
          /\ verdict' = Verified(d, ranked, t.text)
          /\ rec' = [rec EXCEPT !.risk = verdict']
    /\ stage' = "verified"
    /\ UNCHANGED <<toggles, routeVars, searchVars, sections, budget, hint, escalated, written, reply>>

CriticInvoked == toggles.CRITIC /\ verdict \in {"hard_fail", "soft_fail"}

FailureType == Failure(draft.text, Evidence(ranked, context), context)

Regenerates == CriticInvoked /\ FailureType \in {"generation_error", "unit_error"}

\* Mutant: the new answer is not verified.
RegenerateUnverified ==
    /\ stage = "verified" /\ Regenerates
    /\ hint' = [allowed |-> Allowed(FailureType, Evidence(ranked, context), context),
                forbidden |-> Forbidden(FailureType, draft.text, Evidence(ranked, context))]
    /\ draft' \in Drafts
    /\ rec' = [rec EXCEPT !.after = verdict]
    /\ stage' = "reply"
    /\ UNCHANGED <<toggles, routeVars, searchVars, contextVars, verdict, escalated, written, reply>>

Regenerate ==
    /\ stage = "verified" /\ Regenerates
    /\ hint' = [allowed |-> Allowed(FailureType, Evidence(ranked, context), context),
                forbidden |-> Forbidden(FailureType, draft.text, Evidence(ranked, context))]
    /\ \E d \in Drafts : draft' = d /\ verdict' = Verified(d, ranked, context)
    /\ rec' = [rec EXCEPT !.risk = verdict', !.after = verdict']
    /\ stage' = "reply"
    /\ UNCHANGED <<toggles, routeVars, searchVars, contextVars, escalated, written, reply>>

\* A gap in the retrieval is escalated, anything else let through.
Judge ==
    /\ stage = "verified" /\ ~Regenerates
    /\ escalated' = (CriticInvoked /\ FailureType = "retrieval_gap")
    /\ rec' = [rec EXCEPT !.after = IF CriticInvoked THEN verdict ELSE "none"]
    /\ stage' = "reply"
    /\ UNCHANGED <<toggles, routeVars, searchVars, contextVars, draft, verdict, hint, written, reply>>

\* Warnings and the escalation are told with the groundedness.
Told == verdict # "pass" \/ escalated

Reply ==
    /\ stage = "reply"
    /\ Told => Measurable(draft.claims)
    /\ Finish([rec EXCEPT !.answer = draft.says],
              [kind |-> "llm", draft |-> draft, risk |-> IF Told THEN verdict ELSE "none",
               escalated |-> escalated,
               citations |-> Supported(draft.text, Evidence(ranked, context),
                                       {Said({c}) : c \in Hits(ranked)}, draft.claims)])
    /\ UNCHANGED <<toggles, routeVars, searchVars, contextVars, criticVars>>

\* Without groundedness the lookup of its key raises.
KeyError ==
    /\ stage = "reply" /\ Told /\ ~Measurable(draft.claims)
    /\ reply' = [kind |-> "error"] /\ stage' = "done"
    /\ rec' = [rec EXCEPT !.answer = draft.says]
    /\ UNCHANGED <<toggles, routeVars, searchVars, contextVars, criticVars, written>>

\* The database, Qdrant, a model or the LLM fails.  The trace is scheduled, but
\* FastAPI runs background tasks only after a response of the handler.
Raise ==
    /\ stage \in {"retrieve", "tables", "search", "found", "expanded", "verified"}
    /\ stage = "tables" => branch \in DOMAIN Order /\ Asked(Order[branch])
    /\ stage = "found" => WorthRewriting \/ Reliable
    /\ stage = "verified" => Regenerates
    /\ reply' = [kind |-> "error"] /\ stage' = "done"
    /\ UNCHANGED <<toggles, routeVars, searchVars, contextVars, criticVars, rec, written>>

Next ==
    \/ Retrieve
    \/ Semantic \/ Miss \/ Hit
    \/ Search \/ Rewrite \/ Refuse
    \/ Expand \/ Generate \/ Regenerate \/ Judge
    \/ Reply \/ KeyError \/ Raise

Spec == Init /\ [][Next]_vars

\* The handler is one thread that runs on; what it calls answers or raises.
FairSpec == Spec /\ WF_vars(Next)

-----------------------------------------------------------------------------
\* The LLM answers only from a search whose best hit reaches the threshold
\* (router.py 599-614: what is not in the corpus is refused before the LLM), and
\* a search that did reach it is not refused.
LowConfidenceRefused ==
    /\ draft # None => ranked # <<>> /\ score = "enough"
    /\ reply.kind = "refused" => ranked = <<>> \/ score # "enough"

\* The verdict a client is told, and its absence, is about the answer the client
\* gets, not about the draft before it; an escalated answer is never a second
\* attempt, and lacks a reference with no neighbour in the context (router.py
\* 687-692: regenerating over a gap in the retrieval only repackages it).
ToldAboutReturned ==
    reply.kind = "llm" =>
        LET r == Risk(reply.draft.text, Evidence(ranked, context))
        IN  /\ reply.risk = IF r = "pass" THEN "none" ELSE r
            /\ reply.escalated => /\ hint = None
                                  /\ \A m \in MissingRefs(reply.draft.text, Evidence(ranked, context)) :
                                         \A c \in Refs(context) : ~Adjacent(m, c)

\* Whatever a client gets leaves one trace that tells refusals from answers
\* (router.py 371-373: 159 of 262 traces once did not) and both from a mere
\* search, and whose verification is that of the answer the client got.
TraceTellsReply ==
    reply.kind \in {"sql", "refused", "llm", "sources"} =>
        /\ written = {rec}
        /\ rec.answer = CASE reply.kind = "sql" -> "answer"
                          [] reply.kind = "sources" -> "none"
                          [] reply.kind = "refused" -> "refusal"
                          [] OTHER -> reply.draft.says
        /\ reply.kind = "llm" => LET r == Risk(reply.draft.text, Evidence(ranked, context))
                                 IN  rec.risk = r /\ rec.after \in {r, "none"}

\* The LLM is never told to use what it is told not to use, and is offered
\* something to use (grader.py build_hint; its lists come from the context, what
\* is forbidden from the verification, which looks at the chunks as well).
HintHolds ==
    hint # None => hint.allowed # {} /\ hint.allowed \cap hint.forbidden = {}

\* Every question is answered, refused or fails: the rewriting ends.
Answered == <>(stage = "done")

=============================================================================
