----------------------------- MODULE Documents -----------------------------
(***************************************************************************)
(* One document on its way through task/ocr.py and task/chunk.py: its      *)
(* markdown, and its rows in tb_document_chunks.  The chain runs the OCR   *)
(* once and then cuts the document; it can be cut again any number of      *)
(* times, by a re-indexing (scripts/reindex.py), also with the other       *)
(* chunker, or by a task that is delivered again.  A cut replaces all rows *)
(* but those of the OCR, which only Paddle could make.                     *)
(* db/schema_reset.sql, once part of db/schema.sql, drops the tables of    *)
(* the documents; scripts/recover_from_artifacts.py puts their rows        *)
(* together again from the points in Qdrant and the files.                 *)
(* The order in which these steps of two tasks can mix, and their          *)
(* failures, are the subject of Ingest.                                    *)
(***************************************************************************)
EXTENDS Ocr, FixedChunking

CONSTANTS
    Pieces,      \* stretches of lines a document is made of
    MaxPieces,   \* bound: stretches in a document
    MaxImages,   \* bound: images in a document
    Found,       \* what Paddle may find in an image
    Chunkers,    \* what CHUNKER_TYPE may be
    MaxCuts,     \* bound: runs of chunk_document
    MaxEmbedded  \* bound: stretches in a document that is embedded, and can be lost

ASSUME DocumentsAssumption ==
    /\ {MaxPieces, MaxImages, MaxCuts, MaxEmbedded} \subseteq Nat
    /\ Pieces \subseteq Seq(Line) /\ Found \subseteq Seq(Result)

VARIABLES
    pieces,      \* stretches written so far
    md,          \* raw_markdown
    ocred,       \* the OCR has run
    rows,        \* tb_document_chunks, in the order of their insertion
    made,        \* history: the rows of the OCR
    cuts,        \* runs of chunk_document so far
    chunker,     \* the chunker of the last cut
    file,        \* the markdown file of the conversion
    points,      \* what Qdrant has of the rows, which say what cut them
    db           \* "there", "dropped", "unmatched" or "recovered"

outside == <<file, points, db>>
vars == <<pieces, md, ocred, rows, made, cuts, chunker, outside>>

NoPoints == [rows |-> <<>>, chunker |-> "none"]

Init ==
    /\ pieces = 0 /\ md = <<>> /\ ocred = FALSE
    /\ rows = <<>> /\ made = {} /\ cuts = 0 /\ chunker = "none"
    /\ file = <<>> /\ points = NoPoints /\ db = "there"

\* The conversion: a document is any sequence of stretches.
Convert(p) ==
    /\ ~ocred
    /\ pieces < MaxPieces
    /\ pieces' = pieces + 1
    /\ md' = md \o [i \in DOMAIN p |-> [p[i] EXCEPT !.at = Len(md) + i]]
    /\ file' = md'
    /\ Cardinality(Images(md')) <= MaxImages
    /\ UNCHANGED <<ocred, rows, made, cuts, chunker, points, db>>

\* Where an image stood, an empty line is left.
Stripped(lines) == 
    [i \in DOMAIN lines |-> IF lines[i].kind = "image" THEN Blank(lines[i]) ELSE lines[i]]

\* ocr_images.
OcrImages(answers) ==
    /\ ~ocred
    /\ md # <<>>
    /\ ocred' = TRUE
    /\ rows' = rows \o OcrRows(md, answers)
    /\ made' = {OcrRows(md, answers)[k].ocr : k \in DOMAIN OcrRows(md, answers)}
    /\ md' = Stripped(md)
    /\ UNCHANGED <<pieces, cuts, chunker, outside>>

-----------------------------------------------------------------------------
\* Mutant: by the type alone, as it once was: tables of the markdown stay too.
IsOcrByKind(r) == r.kind \in {"image", "table"}

\* Mutant: images alone.
IsOcrImage(r) == r.kind = "image"

IsOcr(r) == r.kind \in {"image", "table"} /\ r.ocr # <<>>

\* _preserve_existing_ocr: in the order of seq; the rows of a fresh OCR all
\* have seq 0, and come in any order.
Preserved ==
    LET ocr == {k \in DOMAIN rows : IsOcr(rows[k])}
        orders == {f \in Bijection(1..Cardinality(ocr), ocr) :
                     \A j, k \in DOMAIN f : j < k => rows[f[j]].seq <= rows[f[k]].seq}
    IN  {[k \in DOMAIN f |-> rows[f[k]]] : f \in orders}

\* Mutant: before the chunks with its heading.
PlaceFirst(out, o) ==
    LET same == {k \in DOMAIN out : out[k].path = o.path}
    IN  IF same = {} THEN Len(out) + 1 ELSE Min(same)

\* Where a row of the OCR goes: behind the last chunk with its heading, at the
\* end if there is none; without a heading before the first later page.
Place(out, o) ==
    LET same == {k \in DOMAIN out : out[k].path = o.path}
        later == {k \in DOMAIN out : out[k].start > o.start}
    IN  CASE o.path # <<>> /\ same # {} -> Max(same) + 1
          [] o.path = <<>> /\ later # {} -> Min(later)
          [] OTHER -> Len(out) + 1

WithOcr(out, o) == InsertAt(out, Place(out, o), o)

\* _merge_ocr_chunks: one after the other.
Merged(chunks, kept) ==
    LET upto[n \in 0..Len(kept)] == IF n = 0 THEN chunks ELSE WithOcr(upto[n - 1], kept[n])
    IN  upto[Len(kept)]

\* _reassign_part_indices: the chunks under one heading are numbered.
Reassigned(out) ==
    [k \in DOMAIN out |->
        LET group == IF out[k].path = <<>> THEN {k}
                     ELSE {j \in DOMAIN out : out[j].path = out[k].path}
        IN  [out[k] EXCEPT !.part = Cardinality({j \in group : j <= k}),
                           !.total = Cardinality(group)]]

Cut(c, lines) == IF c = "fixed" THEN FixedChunks(lines) ELSE ChunkMarkdown(lines)

\* _build_text_chunks.
TextRows(chunks) == [k \in DOMAIN chunks |-> Row(chunks[k], <<>>)]

\* chunk_document.  A re-indexing goes through the rows of tb_document_extract.
ChunkDocument(c) ==
    /\ ocred
    /\ cuts < MaxCuts
    /\ db \in {"there", "recovered"}
    /\ \E kept \in Preserved :
          \E out \in {Reassigned(Merged(TextRows(Cut(c, md)), kept))} :
              rows' = [k \in DOMAIN out |-> [out[k] EXCEPT !.seq = k]]
    /\ cuts' = cuts + 1
    /\ chunker' = c
    /\ UNCHANGED <<pieces, md, ocred, made, outside>>

\* The payload of a point has pages only where both are known.
Point(r) == IF r.start = 0 \/ r.end = 0 THEN [r EXCEPT !.start = 0, !.end = 0] ELSE r

Points == [rows |-> [k \in DOMAIN rows |-> Point(rows[k])], chunker |-> chunker]

\* embed_document, as far as the rows go; what can happen in it is in Ingest.
EmbedDocument ==
    /\ cuts > 0 /\ pieces <= MaxEmbedded
    /\ rows # <<>> /\ points # Points
    /\ points' = Points
    /\ UNCHANGED <<pieces, md, ocred, rows, made, cuts, chunker, file, db>>

\* db/schema_reset.sql; once.
DropTables ==
    /\ db = "there"
    /\ points # NoPoints
    /\ rows' = <<>> /\ md' = <<>>
    /\ db' = "dropped"
    /\ UNCHANGED <<pieces, ocred, made, cuts, chunker, file, points>>

\* recover_from_artifacts.py: a row for each point; the markdown, with its image
\* tags, if match_documents finds the file of the document.
Recover(matched) ==
    /\ db = "dropped"
    /\ rows' = points.rows /\ chunker' = points.chunker
    /\ IF matched THEN md' = file /\ db' = "recovered"
       ELSE md' = md /\ db' = "unmatched"
    /\ UNCHANGED <<pieces, ocred, made, cuts, file, points>>

Next ==
    \/ \E p \in Pieces : Convert(p)
    \/ \E answers \in [Figures(md) -> Found] : OcrImages(answers)
    \/ \E c \in Chunkers : ChunkDocument(c)
    \/ EmbedDocument \/ DropTables
    \/ \E matched \in BOOLEAN : Recover(matched)

Spec == Init /\ [][Next]_vars

-----------------------------------------------------------------------------
(* What a reader sees in the markdown, said without the chunker.  Heading,  *)
(* text and row below are about places in the markdown file.                *)

IsHeading(j) == file[j].kind = "article" \/ (file[j].kind = "heading" /\ ~file[j].tail)

LevelAt(j) == IF file[j].kind = "article" THEN 5 ELSE file[j].level

HasText(j) ==
    \/ file[j].kind = "text"
    \/ file[j].kind = "heading" /\ file[j].tail
    \/ file[j].kind = "article" /\ file[j].len > 0

Between(i, k, j) == (i <= k /\ k <= j) \/ (j <= k /\ k <= i)

\* Lines of a table with columns; a block of one column is a broken table.
HasRow(j) ==
    /\ file[j].kind = "row"
    /\ \E i \in DOMAIN file :
          /\ file[i].columns > 1 /\ ~file[i].rule
          /\ \A k \in DOMAIN file : Between(i, k, j) => file[k].kind = "row"

\* The headings that place j stands under.
Above(j) ==
    {h \in 1..j : /\ IsHeading(h)
                  /\ \A k \in (h + 1)..j : IsHeading(k) => LevelAt(h) < LevelAt(k)}

PathOf(j) ==
    LET order == InOrder({h \in Above(j) : ~file[h].toc})
    IN  [k \in DOMAIN order |-> file[order[k]].title]

InContents(j) == Above(j) # {} /\ file[Max(Above(j))].toc

\* The first line of the table of the row at j, which goes on over a page break.
Top(j) ==
    Min({i \in 1..j : HasRow(i) /\ \A k \in i..j : file[k].kind \in {"row", "page", "noise"}})

\* The line above the table that starts at i, if it is a caption.
CaptionAbove(i) ==
    LET above == {k \in 1..(i - 1) : IsHeading(k) \/ HasText(k) \/ HasRow(k)}
    IN  IF above = {} \/ file[Max(above)].kind # "text" \/ ~file[Max(above)].caption THEN 0
        ELSE Max(above)

\* Contents, for the fixed chunker, go on to the next heading of their level.
UnderContents(j) ==
    \E h \in 1..j : /\ file[h].kind = "heading" /\ file[h].toc
                   /\ \A k \in (h + 1)..j :
                        file[k].kind = "heading" => file[h].level < file[k].level

\* The document has nothing but broken tables, page numbers and the like.
OnlyJunk == \A j \in DOMAIN file : ~IsHeading(j) /\ ~HasText(j) /\ ~HasRow(j)

\* The document was cut and its rows are there.
HasRows == cuts > 0 /\ db # "dropped"

Native == {k \in DOMAIN rows : rows[k].ocr = <<>>}

\* How often the line at j occurs in the chunks.
Times(j) == Cardinality({place \in Native \X (1..Len(file)) :
                            /\ place[2] \in DOMAIN rows[place[1]].lines
                            /\ rows[place[1]].lines[place[2]] = j})

-----------------------------------------------------------------------------
\* However often a document is cut, and also if its rows were lost and recovered
\* in between, each of its lines is in exactly one chunk: a heading line of a
\* table in each of its pieces, a caption that is alone with the tables below it.
\* Broken tables, page numbers and what stands in the contents are in none,
\* except that a document of nothing else, without a heading, is kept as it is.
\* (Filtered by type, re-cut documents once gained their tables again and again.)
\* The fixed chunker may tear a line, but none that is as short as its overlap.
LinesOnce ==
    HasRows => \A j \in DOMAIN file :
        IF chunker = "fixed"
        THEN (HasText(j) \/ HasRow(j)) /\ ~UnderContents(j) /\ file[j].len <= OverlapSize
                => Times(j) > 0
        ELSE
        IF OnlyJunk
        THEN Times(j) = IF file[j].kind \in {"row", "page", "noise"} THEN 1 ELSE 0
        ELSE
        IF InContents(j) \/ ~(HasText(j) \/ HasRow(j)) THEN Times(j) = 0
        ELSE \/ Times(j) = 1
             \/ Times(j) > 1 /\ HasRow(j) /\ (j = Top(j) \/ file[j].rule)
             \/ Times(j) = 0 /\ \E k \in Native : rows[k].caption = j

\* Each piece of a table starts with the table's first line and says under
\* which condition its values hold: the caption above the table, and no other.
TablesTellCondition ==
    \A k \in Native : rows[k].kind = "table" =>
        LET top == Top(Last(rows[k].lines))
        IN  rows[k].lines[1] = top /\ rows[k].caption = CaptionAbove(top)

\* The heading path of a chunk is the headings its lines stand under, without
\* those of the contents.  (The fixed chunker estimates it.)
PathEncloses ==
    HasRows /\ chunker = "adaptive" => \A k \in Native : \A n \in DOMAIN rows[k].lines : rows[k].path = PathOf(rows[k].lines[n])

\* The rows under one heading are numbered from 1 in their order, text before
\* what was read in images: so expand_siblings puts the section together.
SiblingsNumbered ==
    HasRows => \A k \in DOMAIN rows : rows[k].path # <<>> =>
        LET group == {j \in DOMAIN rows : rows[j].path = rows[k].path}
        IN  /\ rows[k].part = Cardinality({j \in group : rows[j].seq <= rows[k].seq})
            /\ rows[k].total = Cardinality(group)
            /\ rows[k].ocr = <<>> =>
                  \A j \in group : rows[j].seq < rows[k].seq => rows[j].ocr = <<>>

\* What the OCR read is there once, however often the document is cut, and
\* whichever rows the recovery found.
OcrOnce ==
    db # "dropped" =>
    /\ made = {rows[k].ocr : k \in DOMAIN rows \ Native}
    /\ \A j, k \in DOMAIN rows \ Native : rows[j].ocr = rows[k].ocr => j = k

=============================================================================
