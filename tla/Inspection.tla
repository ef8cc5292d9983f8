----------------------------- MODULE Inspection -----------------------------
(***************************************************************************)
(* inspector/: what the viewer tells about a stored document.  Which lines *)
(* of a page have reached the index (coverage.py), which chunks say the    *)
(* same (dup.py), and the cache the latter are kept in (routes.py).        *)
(*                                                                         *)
(* A text is a sequence of characters from which norm has removed what     *)
(* does not count.  A chunk is its id and its text.                        *)
(***************************************************************************)
EXTENDS Integers, FiniteSets, Sequences
LOCAL INSTANCE FiniteSetsExt
LOCAL INSTANCE SequencesExt

CONSTANTS
    MinSeg, MinGap, MinLine,    \* coverage.py: in characters, at least 1
    ShingleW, ShingleStep,      \* dup.py: in characters, at least 1
    BoilerplateDf,              \* chunks that may share a shingle
    MinContainment,             \* in per cent
    DupCacheMax

Occurs(n, hay) == \E k \in 0 .. Len(hay) - Len(n) : SubSeq(hay, k + 1, k + Len(n)) = n

\* The most characters from the i-th on that occur together.
LongestMatch(n, i, hay) == Max({m \in 0 .. Len(n) - i + 1 : Occurs(SubSeq(n, i, i + m - 1), hay)})

\* cover: pieces of MIN_SEG characters or more, the longest first, and the
\* lengths of the holes between them.
Cover(n, hay) ==
    LET long(i) == LongestMatch(n, i, hay) >= MinSeg
        from[i \in 1 .. Len(n) + 1] ==
            IF i > Len(n) THEN [pieces |-> 0, gaps |-> <<>>]
            ELSE IF long(i)
                 THEN LET rest == from[i + LongestMatch(n, i, hay)]
                      IN  [rest EXCEPT !.pieces = @ + 1]
                 ELSE LET j == Min({k \in i + 1 .. Len(n) + 1 : k > Len(n) \/ long(k)})
                      IN  [from[j] EXCEPT !.gaps = <<j - i>> \o @]
    IN  from[1]

ClassifyLine(n, hay) ==
    LET c == Cover(n, hay)
    IN  IF Len(n) < MinLine THEN "skip"
        ELSE IF Occurs(n, hay) THEN "kept"
        ELSE IF \E k \in DOMAIN c.gaps : c.gaps[k] >= MinGap THEN "missing"
        ELSE IF c.pieces > 1 THEN "split" ELSE "kept"

\* page_report: the texts run together, as norm drops the space between them;
\* reached is a pair of counts.
PageReport(lines, texts) ==
    LET hay == FlattenSeq(texts)
        count(s) == Cardinality({k \in DOMAIN lines : ClassifyLine(lines[k], hay) = s})
    IN  [kept |-> count("kept"), split |-> count("split"), missing |-> count("missing"),
         judged |-> Len(lines) - count("skip"),
         reached |-> <<count("kept") + count("split"), Len(lines) - count("skip")>>]

-----------------------------------------------------------------------------
\* Windows at fixed places of the text; a short text is one as it is.
Shingles(t) ==
    IF t = <<>> THEN {}
    ELSE IF Len(t) < ShingleW THEN {t}
    ELSE {SubSeq(t, i + 1, i + ShingleW) : i \in {k \in 0 .. Len(t) - ShingleW : k % ShingleStep = 0}}

\* What two chunks share, but for phrases found all over the document.
Shared(chunks, i, j) ==
    {g \in Shingles(chunks[i].text) \cap Shingles(chunks[j].text) :
        Cardinality({k \in DOMAIN chunks : g \in Shingles(chunks[k].text)}) <= BoilerplateDf}

\* Containment as shared and possible shingles.
Containment(chunks, i, j) ==
    <<Cardinality(Shared(chunks, i, j)),
      Min({Cardinality(Shingles(chunks[k].text)) : k \in {i, j}})>>

Alike(chunks, i, j) ==
    LET c == Containment(chunks, i, j)
    IN  i # j /\ c[1] > 0 /\ 100 * c[1] >= MinContainment * c[2]

\* The chunks connected by pairs that are alike (_Union).
Groups(chunks) ==
    LET alike == [i \in DOMAIN chunks |-> {j \in DOMAIN chunks : Alike(chunks, i, j)}]
        reached[n \in Nat] ==
            IF n = 0 THEN [i \in DOMAIN chunks |-> {i}]
            ELSE LET before == reached[n - 1]
                 IN  [i \in DOMAIN chunks |-> before[i] \cup UNION {alike[j] : j \in before[i]}]
        groups == reached[Len(chunks)]
    IN  {groups[i] : i \in {k \in DOMAIN chunks : alike[k] # {}}}

\* The largest group is number 1; of groups of a size the first to have a chunk.
GroupNo(groups, G) ==
    Cardinality({H \in groups :
        \/ Cardinality(H) > Cardinality(G)
        \/ Cardinality(H) = Cardinality(G) /\ Min(H) <= Min(G)})

\* duplicate_groups: the number of each grouped chunk's group, by its id.  (The
\* containment shown with a group is the least of its pairs that are alike.)
DuplicateGroups(chunks) ==
    LET groups == Groups(chunks)
    IN  [id \in {chunks[i].id : i \in UNION groups} |->
            GroupNo(groups, CHOOSE G \in groups : \E i \in G : chunks[i].id = id)]

\* _dup_for_doc: the cache is a sequence of entries, the oldest first, under the
\* document and the number of its chunks.
Entries(cache, doc, chunks) ==
    {k \in DOMAIN cache : cache[k].doc = doc /\ cache[k].count = Len(chunks)}

DupForDoc(cache, doc, chunks) ==
    LET room == IF Len(cache) >= DupCacheMax THEN Tail(cache) ELSE cache
        entry == [doc |-> doc, count |-> Len(chunks), groups |-> DuplicateGroups(chunks)]
        found == Entries(cache, doc, chunks)
    IN  IF found # {} THEN [cache |-> cache, groups |-> cache[CHOOSE k \in found : TRUE].groups]
        ELSE [cache |-> Append(room, entry), groups |-> entry.groups]

=============================================================================
