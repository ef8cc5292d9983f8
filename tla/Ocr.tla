-------------------------------- MODULE Ocr --------------------------------
(***************************************************************************)
(* From an image in a document to rows of text: the Paddle server          *)
(* (paddle/server.py), its client (utils/ocr.py) and what task/ocr.py      *)
(* makes of the answers.                                                   *)
(*                                                                         *)
(* An image is what get_image_info measures.  What PP-StructureV3 finds in *)
(* one is a sequence of at most one result: it has none where the engine   *)
(* gives up, the server or its client raises, or the server is away.  A    *)
(* result has the blocks of the layout, the recognised lines, the tables,  *)
(* and whether anything passed the score cuts.  A text is a name; Noise    *)
(* are those that is_meaningful_ocr_result rejects, Stubs those of less    *)
(* than ten characters.                                                    *)
(***************************************************************************)
EXTENDS Chunking

CONSTANTS
    MinFile, MinSide, FigureSide, MaxRatio, MaxSide, MinDeviation,   \* OCR_*
    Noise, Stubs

\* is_valid_image.
IsFigure(image) ==
    LET short == Min({image.width, image.height})
        long == Max({image.width, image.height})
    IN  /\ image.exists
        /\ image.size >= MinFile
        /\ short >= MinSide /\ short >= FigureSide
        /\ long < MaxRatio * short
        /\ long <= MaxSide
        /\ image.deviation = 0 \/ image.deviation >= MinDeviation

-----------------------------------------------------------------------------
(* The server *)

\* What PP-StructureV3 finds; sure: something passed the score cuts.
Result ==
    [parsing : Seq([label : STRING, text : STRING]), lines : STRING, tables : Seq(STRING),
     sure : BOOLEAN]

Block(type, text) == [type |-> type, text |-> text]

\* The type of a block of the layout.
TypeOf(label) ==
    CASE label \in {"header", "footer", "page number"} -> "drop"
      [] label = "table" -> "table"
      [] OTHER -> "text"

\* _extract_blocks: the layout, or else all lines as one text, and the tables.
Blocks(result) ==
    IF result.parsing # <<>>
    THEN [i \in DOMAIN result.parsing |->
             Block(TypeOf(result.parsing[i].label), result.parsing[i].text)]
    ELSE <<Block("text", result.lines)>>
             \o [i \in DOMAIN result.tables |-> Block("table", result.tables[i])]

\* ocr(): nothing where nothing passed the score cuts.
Answered(results) ==
    IF results = <<>> \/ ~results[1].sure THEN <<>> ELSE Blocks(results[1])

\* ocr_image: the texts, which are joined, or the tables, which come one by one.
\* Those without a word are left out.
Filled(blocks, type) == {k \in DOMAIN blocks : blocks[k].type = type /\ blocks[k].text # ""}

-----------------------------------------------------------------------------
(* The rows *)

\* A row of tb_document_chunks, made of a chunk.  ocr: what Paddle read in an
\* image, or <<>>.
Row(chunk, ocr) ==
    [path |-> chunk.path, kind |-> chunk.kind, lines |-> chunk.lines, caption |-> chunk.caption,
     len |-> chunk.len, start |-> chunk.start, end |-> chunk.end,
     part |-> 1, total |-> 1, ocr |-> ocr, seq |-> 0]

\* The headings of the markdown as it was converted, and its pages.
HeadingsAbove(md, i) == {j \in 1..(i - 1) : md[j].kind = "heading"}
PagesAbove(md, i) == {j \in 1..(i - 1) : md[j].kind = "page"}

\* _find_context_for_image: the last heading alone is the path.
PathAt(md, i) ==
    IF HeadingsAbove(md, i) = {} THEN <<>> ELSE <<md[Max(HeadingsAbove(md, i))].title>>

PageAt(md, i) == IF PagesAbove(md, i) = {} THEN 0 ELSE md[Max(PagesAbove(md, i))].page

\* A text that is one of the document's headings again, or that says nothing.
IsWorthy(md, blocks) ==
    LET texts == Filled(blocks, "text")
    IN  /\ \E k \in texts : blocks[k].text \notin Noise
        /\ ~\E j \in DOMAIN md, k \in texts :
               md[j].kind = "heading" /\ texts = {k} /\ blocks[k].text = md[j].title

OcrRow(md, i, kind, k) ==
    Row(Chunk(PathAt(md, i), kind, <<>>, 0, <<PageAt(md, i), PageAt(md, i)>>), <<md[i].at, k>>)

\* What the image at i gives: one row for its texts, one for each table.
RowsOf(md, i, results) ==
    LET blocks == Answered(results)
        tables == {k \in Filled(blocks, "table") : blocks[k].text \notin Stubs}
    IN  (IF IsWorthy(md, blocks) THEN <<OcrRow(md, i, "image", 0)>> ELSE <<>>)
            \o [k \in 1..Cardinality(tables) |-> OcrRow(md, i, "table", k)]

Images(md) == {i \in DOMAIN md : md[i].kind = "image"}

Figures(md) == {i \in Images(md) : IsFigure(md[i].image)}

\* The rows in the order of the images, however the calls overtake each other.
OcrRows(md, answers) ==
    FlattenSeq([i \in DOMAIN md |-> IF i \in Figures(md) THEN RowsOf(md, i, answers[i]) ELSE <<>>])

=============================================================================
