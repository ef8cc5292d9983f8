------------------------------ MODULE Chunking ------------------------------
(***************************************************************************)
(* utils/chunker_adaptive.py and the cleaning of utils/preprocess.py: how  *)
(* the markdown of a document is cut into chunks along its headings.       *)
(*                                                                         *)
(* A document is a sequence of lines.  A line is what the patterns find in *)
(* it: its kind, its length, and                                           *)
(*    heading    its level and title; toc: it is "contents"; tail: it ends *)
(*               as a sentence does and names no article                   *)
(*    article    an article title that is not marked as a heading, and the *)
(*               length of what follows it on its line                     *)
(*    text       stop: it ends in a full stop; caption: it is short and no *)
(*               sentence.  A line holds at most one sentence              *)
(*    row        a line of a table: its columns; rule: it is |---|         *)
(*    page       a page marker                                             *)
(*    image      an image tag alone on its line: the image                 *)
(*    noise      page numbers, lone symbols                                *)
(*    leader     a dotted line of a table of contents                      *)
(*    blank                                                                *)
(* at is the line's place in the document.  Two lines with text never have *)
(* the same.  0 stands for None where a page or a line is meant.           *)
(***************************************************************************)
EXTENDS Integers, SequencesExt

CONSTANTS
    TextMax,     \* TEXT_MAX_CHARS
    TableMax,    \* TABLE_MAX_CHARS
    ChunkMin     \* CHUNK_MIN_CHARS

ASSUME ChunkingAssumption == {TextMax, TableMax, ChunkMin} \subseteq Nat \ {0}

\* What get_image_info measures, and a line.
Image ==
    [exists : BOOLEAN, size : Nat, width : Nat, height : Nat, deviation : Nat]
Line ==
    [kind : {"heading", "article", "text", "row", "page", "image", "noise", "leader", "blank"},
     len : Nat, at : Nat, level : Nat, title : STRING, toc : BOOLEAN, tail : BOOLEAN,
     stop : BOOLEAN, caption : BOOLEAN, columns : Nat, rule : BOOLEAN, page : Nat,
     image : Image \cup {<<>>}]

Interval(a, b) == [k \in 1..(b - a + 1) |-> a + k - 1]

\* Places in their order, and the elements of a sequence at the places in I.
InOrder(I) ==
    IF I = {} THEN <<>>
    ELSE FlattenSeq([i \in 1..Max(I) |-> IF i \in I THEN <<i>> ELSE <<>>])

Take(s, I) == LET order == InOrder(I) IN [k \in DOMAIN order |-> s[order[k]]]

\* Where line i starts when lines are joined by line breaks, and their length.
Offset(lines, i) ==
    LET behind[k \in 0..(i - 1)] == IF k = 0 THEN 0 ELSE behind[k - 1] + lines[k].len + 1
    IN  behind[i - 1]

Length(lines) == IF lines = <<>> THEN 0 ELSE Offset(lines, Len(lines) + 1) - 1

IsBlank(l) == l.kind = "blank"

\* The places from a to b that are not blank.
Ink(lines, a, b) == {i \in a..b : ~IsBlank(lines[i])}

Blank(l) == [l EXCEPT !.kind = "blank", !.len = 0]

-----------------------------------------------------------------------------
(* Before the cutting *)

\* normalize_whitespace: of several blank lines one is left.
Normalized(lines) ==
    Take(lines, {i \in DOMAIN lines : IsBlank(lines[i]) => i = 1 \/ ~IsBlank(lines[i - 1])})

\* _repair_markdown_headings: an article title becomes a heading of level 5, a
\* heading that is the end of a sentence becomes text.
Repaired(l) ==
    CASE l.kind = "leader" -> <<>>
      [] l.kind = "image" -> <<Blank(l)>>
      [] l.kind = "heading" /\ l.tail -> <<[l EXCEPT !.kind = "text"]>>
      [] l.kind = "article" ->
            <<[l EXCEPT !.kind = "heading", !.level = 5]>>
                \o (IF l.len = 0 THEN <<>> ELSE <<[l EXCEPT !.kind = "text"]>>)
      [] OTHER -> <<l>>

Repair(lines) == FlattenSeq([k \in DOMAIN lines |-> Repaired(lines[k])])

\* Mutant: a heading of the same level is taken for a child.
EnclosesEqual(section, l) == section.level <= l.level

\* A section stays open under a heading of a deeper level.
Encloses(section, l) == section.level < l.level

\* _heading_chain: the titles down to a heading, without "contents".
Chain(parent, l) == IF l.toc THEN parent.path ELSE Append(parent.path, l.title)

Root == [level |-> 0, path |-> <<>>, toc |-> FALSE, page |-> 0, lines |-> <<>>]

\* _build_tree, one line: the sections in their order, the open ones, the page.
Build(tree, l) ==
    LET top == Last(tree.open)
        open == SelectSeq(tree.open, LAMBDA k : k = 1 \/ Encloses(tree.all[k], l))
        section == [level |-> l.level, path |-> Chain(tree.all[Last(open)], l), toc |-> l.toc,
                    page |-> tree.page, lines |-> <<>>]
    IN  IF l.kind = "heading"
        THEN [tree EXCEPT !.all = Append(@, section), !.open = Append(open, Len(tree.all) + 1)]
        ELSE [tree EXCEPT !.all[top].lines = Append(@, l),
                          !.page = IF l.kind = "page" THEN l.page ELSE @]

Sections(lines) ==
    LET upto[n \in 0..Len(lines)] ==
            IF n = 0 THEN [all |-> <<Root>>, open |-> <<1>>, page |-> 0]
            ELSE Build(upto[n - 1], lines[n])
    IN  upto[Len(lines)].all

\* is_junk_table_block: a block of table lines with a single column.
IsJunk(lines, i) ==
    \A j \in DOMAIN lines :
        (\A k \in DOMAIN lines : (i <= k /\ k <= j) \/ (j <= k /\ k <= i) => lines[k].kind = "row")
            => lines[j].rule \/ lines[j].columns = 1

\* clean_text: without broken tables, page markers, images and noise, and trimmed.
Cleaned(lines) ==
    LET kept == {i \in DOMAIN lines :
                    /\ lines[i].kind \notin {"page", "noise", "image"}
                    /\ lines[i].kind = "row" => ~IsJunk(lines, i)}
        ink == {i \in kept : ~IsBlank(lines[i])}
    IN  Take(lines, {i \in kept : \E a, b \in ink : a <= i /\ i <= b})

-----------------------------------------------------------------------------
(* Text and tables *)

\* _table_caption of the table that starts at a: the last line above it.
Caption(body, a) ==
    LET above == Ink(body, 1, a - 1)
    IN  IF above = {} \/ body[Max(above)].kind = "row" \/ ~body[Max(above)].caption THEN 0
        ELSE Max(above)

\* The maximal stretches of table lines and of other lines.
Stretches(body) ==
    {s \in (DOMAIN body) \X (DOMAIN body) :
        /\ \A i \in s[1]..s[2] : (body[i].kind = "row") = (body[s[1]].kind = "row")
        /\ s[1] <= s[2]
        /\ s[1] > 1 => (body[s[1] - 1].kind = "row") # (body[s[1]].kind = "row")
        /\ s[2] < Len(body) => (body[s[2] + 1].kind = "row") # (body[s[1]].kind = "row")}

\* A text that is only the caption of the table below it is not a chunk.
OnlyCaption(body, a, b) == b < Len(body) /\ Ink(body, a, b) = {Caption(body, b + 1)}

\* _split_segments.
Segments(body) ==
    LET table(s) == [table |-> TRUE, from |-> s[1], to |-> s[2], caption |-> Caption(body, s[1])]
        text(s) == [table |-> FALSE, from |-> Min(Ink(body, s[1], s[2])),
                    to |-> Max(Ink(body, s[1], s[2])), caption |-> 0]
        tables == {s \in Stretches(body) : body[s[1]].kind = "row"}
        texts == {s \in Stretches(body) \ tables :
                    Ink(body, s[1], s[2]) # {} /\ ~OnlyCaption(body, s[1], s[2])}
        order == InOrder({s[1] : s \in tables \cup texts})
        stretch(a) == CHOOSE s \in tables \cup texts : s[1] = a
    IN  [k \in DOMAIN order |-> LET s == stretch(order[k])
                                IN  IF s \in tables THEN table(s) ELSE text(s)]

\* A part: its lines, its length, and whether it stands like that in the body.
Piece(body, a, b) ==
    [lines |-> Interval(a, b), len |-> Length(SubSeq(body, a, b)), whole |-> TRUE]

Glue(p, q, sep) ==
    [lines |-> p.lines \o q.lines, len |-> p.len + sep + q.len,
     whole |-> p.whole /\ q.whole /\ sep = 2 /\ q.lines[1] = Last(p.lines) + 2]

\* Parts are put together as long as they fit.
PutPart(out, p, sep) ==
    IF out # <<>> /\ Last(out).len + sep + p.len <= TextMax
    THEN Append(Front(out), Glue(Last(out), p, sep))
    ELSE Append(out, p)

Packed(parts, sep) ==
    LET upto[n \in 0..Len(parts)] ==
            IF n = 0 THEN <<>> ELSE PutPart(upto[n - 1], parts[n], sep)
    IN  upto[Len(parts)]

\* _split_sentences.
Sentences(body, p) ==
    LET a == p.lines[1]
        b == Last(p.lines)
        starts == {i \in a..b : i = a \/ body[i - 1].stop}
        end(i) == Min({j \in i..b : j = b \/ body[j].stop})
        order == InOrder(starts)
    IN  Packed([k \in DOMAIN order |-> Piece(body, order[k], end(order[k]))], 1)

\* The stretches between blank lines.
Paragraphs(body, a, b) ==
    LET starts == {i \in Ink(body, a, b) : i = a \/ IsBlank(body[i - 1])}
        end(i) == Min({j \in i..b : j = b \/ IsBlank(body[j + 1])})
        order == InOrder(starts)
    IN  [k \in DOMAIN order |-> Piece(body, order[k], end(order[k]))]

\* _split_paragraphs: one that is too long is cut at its sentences, and nothing
\* is put to those.
Closed(out) == out.done \o out.open

PutParagraph(body, out, p) ==
    IF p.len > TextMax
    THEN [done |-> Closed(out) \o Sentences(body, p), open |-> <<>>]
    ELSE IF out.open # <<>> /\ out.open[1].len + 2 + p.len <= TextMax
    THEN [done |-> out.done, open |-> <<Glue(out.open[1], p, 2)>>]
    ELSE [done |-> Closed(out), open |-> <<p>>]

SplitParagraphs(body, a, b) ==
    LET paragraphs == Paragraphs(body, a, b)
        upto[n \in 0..Len(paragraphs)] ==
            IF n = 0 THEN [done |-> <<>>, open |-> <<>>]
            ELSE PutParagraph(body, upto[n - 1], paragraphs[n])
    IN  Closed(upto[Len(paragraphs)])

\* A short rest goes to the part before it, also where that becomes too long.
RestMerged(parts) ==
    IF Len(parts) > 1 /\ Last(parts).len < ChunkMin
    THEN Append(Front(Front(parts)), Glue(Last(Front(parts)), Last(parts), 2))
    ELSE parts

TextParts(body, a, b) ==
    IF Length(SubSeq(body, a, b)) <= TextMax THEN <<Piece(body, a, b)>>
    ELSE RestMerged(Packed(SplitParagraphs(body, a, b), 2))

\* The header of a table: its first line, and the rule below it.
HeaderEnd(body, a, b) == IF a < b /\ body[a + 1].rule THEN a + 1 ELSE a

\* A new piece of a table: the header, and row r.
RowsFrom(body, a, h, r) ==
    [lines |-> Append(Interval(a, h), r),
     len |-> Length(SubSeq(body, a, h)) + 1 + body[r].len, whole |-> r = h + 1]

\* _split_table: by lines, with the header on every piece.
PutTableRow(body, a, h, out, r) ==
    IF out # <<>> /\ Last(out).len + 1 + body[r].len + 1 <= TableMax
    THEN Append(Front(out), [Last(out) EXCEPT !.lines = Append(@, r),
                                              !.len = @ + 1 + body[r].len])
    ELSE Append(out, RowsFrom(body, a, h, r))

TableParts(body, a, b) ==
    LET h == HeaderEnd(body, a, b)
        upto[n \in 0..(b - h)] ==
            IF n = 0 THEN <<>> ELSE PutTableRow(body, a, h, upto[n - 1], h + n)
    IN  IF b <= a + 1 \/ h = b \/ Length(SubSeq(body, a, b)) <= TableMax
        THEN <<Piece(body, a, b)>>
        ELSE upto[b - h]

-----------------------------------------------------------------------------
(* Chunks *)

Markers(lines) == {i \in DOMAIN lines : lines[i].kind = "page"}

\* extract_page_range, _resolve_page_range: first and last page.
PageRange(lines) ==
    LET pages == {lines[i].page : i \in Markers(lines)}
    IN  IF pages = {} THEN <<0, 0>> ELSE <<Min(pages), Max(pages)>>

SectionRange(s) ==
    IF Markers(s.lines) = {} THEN <<s.page, s.page>>
    ELSE <<IF s.page = 0 THEN PageRange(s.lines)[1] ELSE Min({s.page, PageRange(s.lines)[1]}),
           PageRange(s.lines)[2]>>

\* _assign_page_ranges: the page of a part is estimated from where in the body
\* it stands.  A part that does not stand there as it is has the section's.
PartRange(s, body, p) ==
    LET total == Offset(s.lines, Len(s.lines) + 1)
        begin == Offset(body, p.lines[1])
        page(x) == LET passed == {i \in Markers(s.lines) :
                                    Offset(s.lines, i) <= (x * total) \div Length(body)}
                   IN  IF passed = {} THEN s.page ELSE s.lines[Max(passed)].page
        ends == {page(begin), page(begin + p.len)}
    IN  IF Markers(s.lines) = {} \/ ~p.whole THEN SectionRange(s)
        ELSE IF 0 \in ends THEN <<Max(ends), Max(ends)>>
        ELSE <<Min(ends), Max(ends)>>

\* A chunk, as to_json gives it.
Chunk(path, kind, lines, caption, pages) ==
    [path |-> path, kind |-> kind, lines |-> lines, caption |-> caption, len |-> 0,
     start |-> pages[1], end |-> pages[2]]

\* The places in the document of the lines at the given places of the body.
Places(body, lines) ==
    LET text == SelectSeq(lines, LAMBDA i : ~IsBlank(body[i]))
    IN  [k \in DOMAIN text |-> body[text[k]].at]

\* Mutant: only the first piece of a table has the caption.
CaptionOnFirst(body, segment, k) ==
    IF segment.caption = 0 \/ k > 1 THEN 0 ELSE body[segment.caption].at

\* Every piece of a table has the table's caption.
CaptionOn(body, segment, k) == IF segment.caption = 0 THEN 0 ELSE body[segment.caption].at

SegmentChunks(s, body, segment) ==
    LET parts == IF segment.table THEN TableParts(body, segment.from, segment.to)
                 ELSE TextParts(body, segment.from, segment.to)
    IN  [k \in DOMAIN parts |->
            [Chunk(s.path, IF segment.table THEN "table" ELSE "text",
                 Places(body, parts[k].lines), CaptionOn(body, segment, k),
                 PartRange(s, body, parts[k]))
                EXCEPT !.len = parts[k].len]]

\* _chunk_node.
SectionChunks(s) ==
    LET body == Cleaned(s.lines)
        segments == Segments(body)
    IN  FlattenSeq([k \in DOMAIN segments |-> SegmentChunks(s, body, segments[k])])

\* A chunk that is not cut, of whatever length.
Uncut(lines, pages) ==
    [Chunk(<<>>, "text", Places(lines, Interval(1, Len(lines))), 0, pages)
        EXCEPT !.len = Length(lines)]

\* _chunk_tree: what stands above the first heading, then the sections; what
\* stands in "contents" itself is dropped.
TreeChunks(sections) ==
    LET above == Cleaned(sections[1].lines)
        chunks(s) == IF s.level = 0 \/ s.toc THEN <<>> ELSE SectionChunks(s)
    IN  (IF above = <<>> THEN <<>> ELSE <<Uncut(above, PageRange(sections[1].lines))>>)
            \o FlattenSeq([k \in DOMAIN sections |-> chunks(sections[k])])

\* Without blank lines at either end.
Trimmed(lines) ==
    LET ink == Ink(lines, 1, Len(lines))
    IN  Take(lines, {i \in DOMAIN lines : \E a, b \in ink : a <= i /\ i <= b})

\* The text of a document without headings: where the cleaning leaves nothing,
\* what there was before it.
WholeText(lines) == IF Cleaned(lines) = <<>> THEN Trimmed(lines) ELSE Cleaned(lines)

\* chunk_markdown: a document without headings is one chunk.
ChunkMarkdown(lines) ==
    LET text == Repair(Normalized(lines))
        sections == Sections(text)
    IN  IF Len(sections) = 1 THEN <<Uncut(WholeText(text), <<0, 0>>)>>
        ELSE TreeChunks(sections)

=============================================================================
