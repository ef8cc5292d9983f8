---------------------------- MODULE MCDocuments ----------------------------
(* Documents of stretches that differ in what the chunker does with them.  *)
EXTENDS Documents, ReadingOrder, Triage

\* The windows of texts of up to twice their size are one after the other.
ASSUME WindowsAreCuttings ==
    \A length \in (WindowSize + 1)..(2 * WindowSize), breaks \in SUBSET {2, 9, 10, 15, 17, 20, 26} :
        LET windows == SlidingWindow(breaks, length)
        IN  IsCutting({windows[k] : k \in DOMAIN windows}, breaks, length)

\* Both reorderings have every block once, that with pages only those that have
\* one, and a page of two columns is read column by column.
ASSUME ColumnsRead ==
    \A blocks \in [1..3 -> [page : {0, 1}, x : {10, 50, 100}, y : {10, 20}]] :
        LET order == Reorder(blocks)
            nodes == ReorderNodes(blocks)
            left == {i \in 1..3 : blocks[i].x < 100}
        IN  /\ {order[k] : k \in DOMAIN order} = 1..3
            /\ {nodes[k] : k \in DOMAIN nodes} = {i \in 1..3 : blocks[i].page = 1}
            /\ (\A i \in 1..3 : blocks[i].page = 1) =>
                  /\ order = nodes
                  /\ (\A i \in left : blocks[i].x = 10) =>
                        {order[k] : k \in 1 .. Cardinality(left)} = left

\* configs/triage.yaml with pages of a few characters and some points.
MCConfig ==
    [char_min |-> 5, garbage_max |-> 15, search_band |-> <<25, 75>>, gutter_min_pt |-> 2,
     side_blocks_min |-> 3, area_ratio_min |-> 30, cell_count_min |-> 2, native_pt_max |-> 7]
MCPapers == <<<<28, 42>>, <<42, 28>>>>

Paragraph(left, right, chars, bad) ==
    [page |-> 1, type |-> "paragraph", chars |-> chars, bad |-> bad, font |-> 9, area |-> 1,
     left |-> left, right |-> right, top |-> 40]

\* A page of six blocks has a gutter unless they cover its middle; two columns
\* are told from one, and from two that a title runs across.
ASSUME ColumnsSeen ==
    /\ \A blocks \in [1..6 -> {Paragraph(0, 12, 1, 0), Paragraph(15, 28, 1, 0), Paragraph(0, 28, 1, 0)}] :
          LET s == Signals(blocks, FALSE)
              across == \E i \in 1..6 : blocks[i].right - blocks[i].left = 28
          IN  /\ Cardinality(s.sides) = IF across THEN 0 ELSE 1
              /\ "multi_column" \in DifficultyTags(s, "odl")
                     <=> /\ ~across
                         /\ Cardinality({i \in 1..6 : blocks[i].left = 0}) = 3
    /\ PageSize(<<Paragraph(30, 41, 1, 0)>>) = <<42, 28>>

\* Judged from its layout tree a page is trusted no less than from the PDF, where
\* the fonts are known too; pages without text are always sent to OCR.
ASSUME BackfillTrustsMore ==
    \A chars \in 0..10, bad \in 0..4 :
        LET nodes == <<Paragraph(0, 12, chars, bad)>>
            tree == Classify(Signals(nodes, FALSE))
            pdf == Classify(Signals(nodes, TRUE))
        IN  /\ tree = pdf \/ (tree = "NATIVE" /\ pdf = "NATIVE_SUSPECT" /\ bad > 0)
            /\ bad = 0 => tree = pdf
            /\ chars < 5 => pdf = "SCAN"
            /\ Backfill(nodes) = {[page |-> 1, route |-> tree, source |-> "odl_tree"]}
            /\ LET table == ReplaceDocument(ReplaceDocument({}, 1, Backfill(nodes)), 1, Backfill(nodes))
               IN  RouteCounts(table, 1) = [route \in {tree} |-> 1]

Plain(kind, len) ==
    [kind |-> kind, len |-> len, at |-> 0, level |-> 0, title |-> "", toc |-> FALSE,
     tail |-> FALSE, stop |-> FALSE, caption |-> FALSE, columns |-> 0, rule |-> FALSE,
     page |-> 0, image |-> <<>>]
Empty == Plain("blank", 0)
Title(level, title) == [Plain("heading", 3) EXCEPT !.level = level, !.title = title]
Sentence(len) == [Plain("text", len) EXCEPT !.stop = TRUE]
Cells(columns, len) == [Plain("row", len) EXCEPT !.columns = columns]
Rule == [Cells(2, 3) EXCEPT !.rule = TRUE]
Picture(width) ==
    [Plain("image", 9) EXCEPT !.image =
        [exists |-> TRUE, size |-> 9, width |-> width, height |-> 4, deviation |-> 0]]

MCPieces ==
    {<<Title(1, "A")>>,
     <<Title(2, "B")>>,
     <<[Plain("article", 5) EXCEPT !.title = "C"]>>,
     <<[Title(2, "contents") EXCEPT !.toc = TRUE], Plain("leader", 9), Plain("text", 4)>>,
     <<Plain("text", 9), Empty, Plain("noise", 3), Empty, Cells(1, 3), Cells(1, 2)>>,
     <<[Title(3, "so it is") EXCEPT !.tail = TRUE], Sentence(7), Sentence(8), Plain("text", 3)>>,
     <<[Plain("text", 3) EXCEPT !.caption = TRUE], Empty, Cells(2, 3), Rule, Cells(2, 4), Cells(2, 4)>>,
     <<Plain("text", 5), [Plain("text", 4) EXCEPT !.caption = TRUE], Cells(2, 3), Cells(2, 9)>>,
     <<[Plain("page", 4) EXCEPT !.page = 2], Cells(2, 4)>>,
     <<Plain("noise", 3), Empty, Cells(1, 2)>>,
     <<Picture(4)>>}

Answer(parsing, lines, tables) ==
    [parsing |-> parsing, lines |-> lines, tables |-> tables, sure |-> TRUE]
Item(label, text) == [label |-> label, text |-> text]
MCFound ==
    {<<>>,
     <<Answer(<<Item("header", "h"), Item("text", "t"), Item("table", "t")>>, "", <<>>)>>,
     <<Answer(<<>>, "A", <<"t">>)>>}

-----------------------------------------------------------------------------
\* The viewer of a stored document, with texts of a few characters.
Viewer == INSTANCE Inspection WITH MinSeg <- 3, MinGap <- 2, MinLine <- 2,
    ShingleW <- 4, ShingleStep <- 2, BoilerplateDf <- 2, MinContainment <- 60, DupCacheMax <- 2

Texts == UNION {[1 .. n -> 1 .. 2] : n \in 0 .. 5}

\* Of a line that counts as reached no stretch of MinGap characters lies outside
\* the pieces of MinSeg that are in the index, and a line without such pieces
\* counts as missing.
ASSUME LinesJudged ==
    \A line, hay \in Texts :
        LET s == Viewer!ClassifyLine(line, hay)
            parts == {p \in (DOMAIN line) \X (DOMAIN line) :
                        p[2] >= p[1] + 2 /\ Viewer!Occurs(SubSeq(line, p[1], p[2]), hay)}
        IN  Len(line) >= 2 /\ ~Viewer!Occurs(line, hay) =>
                /\ s # "missing" => \A i \in 1 .. Len(line) - 1 :
                                       \E p \in parts : p[1] <= i + 1 /\ i <= p[2]
                /\ parts = {} => s = "missing"

\* Taking the longest piece first, cover may call a line missing whose
\* characters are all there in pieces of MinSeg.
ASSUME PiecesOverlooked ==
    LET hay == <<1, 2, 3, 4, 0, 4, 5, 6>>
    IN  /\ \A p \in {<<1, 2, 3>>, <<4, 5, 6>>} : Viewer!Occurs(p, hay)
        /\ Viewer!ClassifyLine(<<1, 2, 3, 4, 5, 6>>, hay) = "missing"

\* The texts of a page's chunks are searched as one: a line that no chunk has is
\* kept if it runs from the end of one chunk into the next.
ASSUME PageCounted ==
    LET r == Viewer!PageReport(<<<<1, 2, 3, 4>>, <<1>>, <<7, 8>>>>, <<<<1, 2>>, <<3, 4>>>>)
    IN  r.kept = 1 /\ r.missing = 1 /\ r.split = 0 /\ r.reached = <<1, r.judged>> /\ r.judged = 2

\* Every chunk is in one group, with each that it is alike; the same text twice
\* is a group wherever it is not found all over; groups are numbered by size.
Chunked == UNION {[1 .. n -> {<<1, 1, 1, 1>>, <<1, 1, 1, 1, 2, 2>>, <<1, 1, 2, 2>>, <<2>>}] : n \in 1 .. 4}
Rows(texts, first) == [k \in DOMAIN texts |-> [id |-> first + k, text |-> texts[k]]]
ASSUME GroupsPartition ==
    \A texts \in Chunked :
        LET chunks == Rows(texts, 0)
            groups == Viewer!Groups(chunks)
            no == Viewer!DuplicateGroups(chunks)
            size(k) == Cardinality({i \in DOMAIN no : no[i] = k})
        IN  /\ \A G, H \in groups : Cardinality(G) > 1 /\ (G = H \/ G \cap H = {})
            /\ \A i, j \in DOMAIN texts :
                   i # j /\ texts[i] = texts[j] /\ Viewer!Shared(chunks, i, j) = Viewer!Shingles(texts[i]) =>
                       i \in DOMAIN no /\ j \in DOMAIN no /\ no[i] = no[j]
            /\ {no[i] : i \in DOMAIN no} = 1 .. Cardinality(groups)
            /\ \A k, l \in 1 .. Cardinality(groups) : k < l => size(k) >= size(l)

\* A text that is in another as a whole is found there only at a place where a
\* window begins.
ASSUME ContainedUnseen ==
    LET short == <<1, 2, 3, 4>>
        groups(before) == Viewer!DuplicateGroups(Rows(<<short, before \o short>>, 0))
    IN  DOMAIN groups(<<5, 5>>) = {1, 2} /\ DOMAIN groups(<<5>>) = {}

\* A document that is cut again into other chunks is looked at anew, if their
\* number is another one; if it is not, the groups of chunks that are gone are
\* shown.  The cache stays within its size.
ASSUME CacheFollowsCount ==
    \A before, after \in {t \in Chunked : Len(t) \in {2, 3}} :
        LET one == Viewer!DupForDoc(<<>>, "d", Rows(before, 0))
            two == Viewer!DupForDoc(one.cache, "d", Rows(after, 10))
            three == Viewer!DupForDoc(two.cache, "e", Rows(after, 20))
        IN  /\ two.groups = IF Len(before) # Len(after) THEN Viewer!DuplicateGroups(Rows(after, 10))
                            ELSE Viewer!DuplicateGroups(Rows(before, 0))
            /\ three.groups = Viewer!DuplicateGroups(Rows(after, 20))
            /\ Len(three.cache) <= 2
=============================================================================
