------------------------------- MODULE Triage -------------------------------
(***************************************************************************)
(* utils/triage.py: which way a page should be read (its text layer, that  *)
(* or OCR, OCR only), judged by rules from what the page holds; and        *)
(* scripts/backfill_triage.py, which judges the pages of stored documents  *)
(* from their layout tree instead of from the PDF.                         *)
(*                                                                         *)
(* A node is something with a box on a page: its type, the length of its   *)
(* text and how many characters of it are damaged, the size of its font,   *)
(* 0 where unknown, its area, and the sides of the box in whole points.    *)
(* Nodes are a sequence.                                                   *)
(***************************************************************************)
EXTENDS Integers, FiniteSets
LOCAL INSTANCE FiniteSetsExt

CONSTANTS
    Config,    \* configs/triage.yaml; shares are per cent
    Papers     \* the paper sizes page_size_from_nodes snaps to, in turn

ASSUME TriageAssumption ==
    /\ Config.char_min \in Nat \ {0} /\ Config.garbage_max \in Nat
    /\ Config.search_band[1] \in 0..100 /\ Config.search_band[2] \in 0..100

Node == [page : Nat, type : STRING, chars : Nat, bad : Nat, font : Nat, area : Nat,
         left : Int, right : Int, top : Int]

Texty == {"paragraph", "list item", "heading", "caption", "text block"}

Total(S, Of(_)) == MapThenSumSet(Of, S)

-----------------------------------------------------------------------------
\* A tree has no page sizes: the first paper the nodes fit on, with a margin.
PageSize(nodes) ==
    LET w == Max({nodes[i].right : i \in DOMAIN nodes})
        h == Max({nodes[i].top : i \in DOMAIN nodes})
        fits == {k \in DOMAIN Papers : w <= Papers[k][1] + 12 /\ h <= Papers[k][2] + 12}
    IN  IF DOMAIN nodes = {} THEN Papers[1]
        ELSE IF fits = {} THEN <<w, h>> ELSE Papers[Min(fits)]

\* The places in the middle of a page of width w that none of the blocks covers.
Free(blocks, w) ==
    {x \in (Config.search_band[1] * w) \div 100 .. (Config.search_band[2] * w) \div 100 - 1 :
        \A i \in DOMAIN blocks : ~(blocks[i].left <= x /\ x <= blocks[i].right)}

\* _gutter: the middle and the width of the first of the widest free stretches;
\* no gutter where there are few blocks.
Gutters(blocks, w) ==
    LET free == Free(blocks, w)
        runs == {r \in free \X free : r[1] <= r[2] /\ r[1]..r[2] \subseteq free}
        size(r) == r[2] - r[1] + 1
        widest == {r \in runs : \A s \in runs : size(s) < size(r) \/ (size(s) = size(r) /\ r[1] <= s[1])}
    IN  {[at |-> r[2] - size(r) \div 2, width |-> size(r)] :
            r \in {s \in widest : Cardinality(DOMAIN blocks) >= 6}}

Left(blocks, g) == {i \in DOMAIN blocks : blocks[i].right <= g.at}
Right(blocks, g) == {i \in DOMAIN blocks : blocks[i].left >= g.at}

-----------------------------------------------------------------------------
TextBlocks(nodes) ==
    LET texty == {i \in DOMAIN nodes : nodes[i].type \in Texty /\ nodes[i].chars > 0}
    IN  [i \in texty |-> nodes[i]]

\* signals_from_page: flagged fonts alone are none, some damaged text beside
\* them is a reason for suspicion.
Suspect(flagged, chars, bad) == flagged /\ 100 * bad > 2 * chars

\* signals_from_odl; no font is flagged where only the layout tree is known.
Signals(nodes, flagged) ==
    LET texty == TextBlocks(nodes)
        size == PageSize(nodes)
        of(type) == {i \in DOMAIN nodes : nodes[i].type = type}
        chars == Total(DOMAIN texty, LAMBDA i : texty[i].chars)
        bad == Total(DOMAIN texty, LAMBDA i : texty[i].bad)
        fonts == {i \in DOMAIN texty : texty[i].font > 0}
        below(i) == {j \in fonts : texty[j].font < texty[i].font}
        upto(i) == {j \in fonts : texty[j].font <= texty[i].font}
    IN  [chars |-> chars, bad |-> bad, area |-> size[1] * size[2],
         suspect |-> Suspect(flagged, chars, bad),
         tables |-> Total(of("table"), LAMBDA i : nodes[i].area),
         cells |-> Cardinality(of("table cell")),
         sides |-> {<<g.width, Cardinality(Left(texty, g)), Cardinality(Right(texty, g))>> :
                       g \in Gutters(texty, size[1])},
         median |-> {texty[i].font : i \in {i \in fonts :
                        /\ Cardinality(below(i)) <= Cardinality(fonts) \div 2
                        /\ Cardinality(upto(i)) > Cardinality(fonts) \div 2}}]

\* classify: a text layer that is there may still be damaged.
Classify(s) ==
    CASE s.chars < Config.char_min -> "SCAN"
      [] 100 * s.bad > Config.garbage_max * s.chars \/ s.suspect -> "NATIVE_SUSPECT"
      [] OTHER -> "NATIVE"

\* difficulty_tags, those for which the PDF and the layout tree have signals.
DifficultyTags(s, engine) ==
    {t \in {"multi_column", "table_dense", "tiny_text"} :
        \/ /\ t = "multi_column"
           /\ \E g \in s.sides : /\ g[1] >= Config.gutter_min_pt
                                 /\ g[2] >= Config.side_blocks_min
                                 /\ g[3] >= Config.side_blocks_min
        \/ /\ t = "table_dense"
           /\ \/ 100 * s.tables >= Config.area_ratio_min * s.area
              \/ engine \in {"ocr", "vl"} /\ s.cells >= Config.cell_count_min
        \/ t = "tiny_text" /\ \E m \in s.median : m < Config.native_pt_max}

-----------------------------------------------------------------------------
\* main of backfill_triage.py: nodes without a page, 0 here, are left out.
Backfill(nodes) ==
    LET pages == {nodes[i].page : i \in DOMAIN nodes} \ {0}
        on(p) == [i \in {j \in DOMAIN nodes : nodes[j].page = p} |-> nodes[i]]
    IN  {[page |-> p, route |-> Classify(Signals(on(p), FALSE)), source |-> "odl_tree"] : p \in pages}

\* PageTriageRepository.replace_document: rows of two judgements never mix.
ReplaceDocument(table, document, rows) ==
    {r \in table : r.document # document} \cup {[document |-> document, row |-> r] : r \in rows}

\* route_counts
RouteCounts(table, document) ==
    LET rows == {r \in table : r.document = document}
    IN  [route \in {r.row.route : r \in rows} |-> Cardinality({r \in rows : r.row.route = route})]

=============================================================================
