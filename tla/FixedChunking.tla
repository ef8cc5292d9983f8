--------------------------- MODULE FixedChunking ---------------------------
(***************************************************************************)
(* utils/chunker_fixed.py, what CHUNKER_TYPE=fixed puts in the place of    *)
(* the adaptive chunker: windows over the whole text, whatever its         *)
(* headings.  A line is a word: a window can end behind a line, behind the *)
(* full stop at its end, or behind the # marks of a heading.               *)
(***************************************************************************)
EXTENDS Chunking, Windows

\* remove_toc: the contents go, up to the next heading that is not below them.
\* That heading is not looked at itself: a second table of contents stays.
WithoutContents(lines) ==
    LET contents[i \in 0..Len(lines)] ==    \* the heading of the contents that i is in, or 0
            IF i = 0 THEN 0
            ELSE LET h == contents[i - 1] IN
                 CASE lines[i].kind # "heading" -> h
                   [] h # 0 /\ lines[i].kind = "heading" ->
                         IF lines[i].level <= lines[h].level THEN 0 ELSE h
                   [] OTHER -> IF lines[i].toc THEN i ELSE 0
    IN  Take(lines, {i \in DOMAIN lines : contents[i] = 0})

\* Positions behind which a window may end.
Breaks(lines) ==
    UNION {LET o == Offset(lines, i)
           IN  {o + lines[i].len}
                 \cup (IF lines[i].stop THEN {o + lines[i].len - 1} ELSE {})
                 \cup (IF lines[i].kind = "heading" THEN {o + lines[i].level} ELSE {})
           : i \in DOMAIN lines}

\* _find_page_at_position, _find_heading_at_position: the last one before it.
LastBefore(lines, kind, position) ==
    LET before == {i \in DOMAIN lines : lines[i].kind = kind /\ Offset(lines, i) <= position}
    IN  IF before = {} THEN 0 ELSE Max(before)

PageBefore(lines, position) ==
    LET i == LastBefore(lines, "page", position) IN IF i = 0 THEN 0 ELSE lines[i].page

\* _build_heading_index: the titles down to the heading at h.
TitlesTo(lines, h) ==
    LET open == {k \in 1..h : /\ lines[k].kind = "heading"
                              /\ \A m \in (k + 1)..h :
                                    lines[m].kind = "heading" => lines[k].level < lines[m].level}
        order == InOrder(open)
    IN  [k \in DOMAIN order |-> lines[order[k]].title]

\* The lines that are in a window as a whole.
WholeLines(lines, w) ==
    InOrder({i \in DOMAIN lines : /\ ~IsBlank(lines[i])
                                  /\ w[1] <= Offset(lines, i)
                                  /\ Offset(lines, i) + lines[i].len <= w[2]})

\* chunk_markdown of the fixed chunker.  Heading and pages are those at the same
\* share of the uncleaned text: an estimate.
FixedChunks(raw) ==
    LET normal == WithoutContents(Normalized(raw))
        text == Cleaned(normal)
        windows == IF text = <<>> THEN <<>> ELSE SlidingWindow(Breaks(text), Length(text))
        at(position) == (position * Length(normal)) \div Length(text)
    IN  [k \in DOMAIN windows |->
            LET begin == at(windows[k][1])
            IN  Chunk(TitlesTo(normal, LastBefore(normal, "heading", begin)), "text",
                      Places(text, WholeLines(text, windows[k])), 0,
                      <<PageBefore(raw, begin), PageBefore(raw, at(windows[k][2]))>>)]

=============================================================================
