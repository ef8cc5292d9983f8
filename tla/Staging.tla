------------------------------ MODULE Staging -------------------------------
(***************************************************************************)
(* scripts/stage.py and scripts/gate.py: the articles of a document are    *)
(* parsed once and kept beside its cleaned text, from where the other      *)
(* scripts take them, and checks on them tell whether the document may go  *)
(* on to chunking and indexing.                                            *)
(*                                                                         *)
(* Kept is what the directory processed/ holds of a document: nothing, or  *)
(* the text and the articles as they were when it was staged.              *)
(***************************************************************************)
EXTENDS Clauses

CONSTANTS
    JoMin, JoMax,    \* as many articles as a policy has, JO_MIN and JO_MAX
    LongArticle      \* the lines that fit in a chunk, CHUNK_MAX_CHARS

ASSUME StagingAssumption == JoMin \in Nat /\ JoMax \in Nat /\ LongArticle \in Nat

Stage(doc) == {[text |-> doc, clauses |-> ParseDocument(doc)]}

\* doc_md and doc_clauses: whatever is kept, however old, comes before the document.
DocMd(kept, doc) == IF kept = {} THEN doc ELSE (CHOOSE k \in kept : TRUE).text
DocClauses(kept, doc) ==
    IF kept = {} THEN ParseDocument(doc) ELSE (CHOOSE k \in kept : TRUE).clauses

\* The articles are 1 to n, each once.
Contiguous(clauses) == \A k \in DOMAIN clauses : clauses[k].jo = k

\* _structure: the numbers that are missing, and those that are there twice.
Gaps(clauses) ==
    LET jos == {clauses[k].jo : k \in DOMAIN clauses}
    IN  IF jos = {} THEN {} ELSE (Min(jos)..Max(jos)) \ jos
Doubled(clauses) ==
    {clauses[k].jo : k \in {m \in DOMAIN clauses : \E n \in DOMAIN clauses :
                               n # m /\ clauses[n].jo = clauses[m].jo}}

\* gate: the verdict of every check; a document of several policies is not held
\* to the numbers of one.
Gate(kept, doc, legible) ==
    LET md == DocMd(kept, doc)
        clauses == DocClauses(kept, doc)
        one == Len(Runs(md)) < 2
        annexes == {Annexes(md)[k].no : k \in DOMAIN Annexes(md)}
        called == {r[2] : r \in {q \in UNION {RefsIn(l) : l \in Range(md)} : q[1] = "annex"}}
        must(ok) == IF ok THEN "PASS" ELSE "FAIL"
        should(ok) == IF ok THEN "PASS" ELSE "WARN"
    IN  [legible |-> must(legible), one |-> should(one),
         contiguous |-> must(~one \/ Contiguous(clauses)),
         count |-> must(~one \/ (JoMin <= Len(clauses) /\ Len(clauses) <= JoMax)),
         short |-> should(\A k \in DOMAIN clauses : clauses[k].to - clauses[k].from < LongArticle),
         annexes |-> should(called \subseteq annexes)]

\* A document that fails a check is not to be chunked and indexed.
Blocked(gate) == "FAIL" \in Range(gate)

=============================================================================
