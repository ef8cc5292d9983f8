------------------------------ MODULE Context -------------------------------
(***************************************************************************)
(* rag/sibling.py and rag/tokens.py: the chunks the search has found are   *)
(* widened to the sections they stand in, the sections are put in the      *)
(* order of their headings, and as many of them as the LLM's token budget  *)
(* has room for are kept.                                                  *)
(*                                                                         *)
(* Heading paths are numbered in the order they sort in; 0 is the empty    *)
(* path.  What Qdrant holds does not change while one request is served,   *)
(* and the limit of 500 siblings is not reached.                           *)
(***************************************************************************)
EXTENDS Integers, FiniteSetsExt

CONSTANTS
    Corpus,           \* the chunks in Qdrant
    SIBLING_WINDOW    \* 2 in the code

\* A chunk: part counts from 1 to total, size is its length in tokens, text the
\* references of its content and heading those of its heading path.
ASSUME ContextAssumption ==
    /\ SIBLING_WINDOW \in Nat
    /\ \A c \in Corpus : /\ {c.doc, c.path} \subseteq Nat
                        /\ {c.part, c.total, c.size} \subseteq Nat \ {0} /\ c.part <= c.total

Hits(ranked) == {ranked[i] : i \in DOMAIN ranked}

\* expand_siblings looks at the best hit of a heading path only.
FirstHits(ranked) ==
    {ranked[i] : i \in {j \in DOMAIN ranked :
        ranked[j].path # 0 /\ \A k \in 1 .. j - 1 : ranked[k].path # ranked[j].path}}

Several(ranked) == {h \in FirstHits(ranked) : h.total > 1}

\* _fetch_siblings_batch: restricted to a document only if the hits agree on it.
Siblings(ranked, h) ==
    LET docs == {g.doc : g \in Several(ranked)}
    IN  {c \in Corpus : c.path = h.path /\ (Cardinality(docs) = 1 => c.doc \in docs)}

\* _select_window: the parts at most SIBLING_WINDOW away.
Window(ranked, h) ==
    {c \in Siblings(ranked, h) : h.part - SIBLING_WINDOW <= c.part
                                 /\ c.part <= h.part + SIBLING_WINDOW /\ c.part <= h.total}

\* One chunk for every part number; which one, if documents share the heading
\* path, is up to the order of the scroll.
OnePerPart(S) ==
    {P \in SUBSET S : /\ \A c, d \in P : c.part = d.part => c = d
                      /\ \A c \in S : \E d \in P : d.part = c.part}

\* The content of the section of heading path p.
SectionOf(ranked, p) ==
    IF p = 0 THEN {{h \in Hits(ranked) : h.path = 0}}
    ELSE UNION {IF h.total = 1 THEN {{h}} ELSE OnePerPart(Window(ranked, h)) :
                  h \in {g \in FirstHits(ranked) : g.path = p}}

\* expand_siblings: what the context may be, section by section.
Expansions(ranked) ==
    LET paths == {h.path : h \in Hits(ranked)}
    IN  {s \in [paths -> SUBSET Corpus] : \A p \in paths : s[p] \in SectionOf(ranked, p)}

-----------------------------------------------------------------------------
Tokens(chunks) == MapThenSumSet(LAMBDA c : c.size, chunks)

\* What a section of the context says: its heading and its chunks.
Said(chunks) == UNION {c.text \cup c.heading : c \in chunks}

\* truncate_context: section after section, those that still fit.
Kept(sections, budget) ==
    LET last == Max(DOMAIN sections)
        room[p \in -1 .. last] ==
            IF p = -1 THEN budget
            ELSE IF p \in DOMAIN sections /\ Tokens(sections[p]) <= room[p - 1]
                 THEN room[p - 1] - Tokens(sections[p])
                 ELSE room[p - 1]
    IN  {p \in DOMAIN sections : Tokens(sections[p]) <= room[p - 1]}

\* Where not even one section fits, the first tokens of the first one remain.
Truncations(sections, budget) ==
    LET kept == Kept(sections, budget)
        whole == Said(UNION {sections[p] : p \in kept})
    IN  IF kept # {} THEN {[kept |-> kept, text |-> whole]}
        ELSE {[kept |-> {}, text |-> t] : t \in SUBSET Said(sections[Min(DOMAIN sections)])}

=============================================================================
