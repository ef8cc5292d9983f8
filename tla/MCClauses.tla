----------------------------- MODULE MCClauses -----------------------------
(* ClauseStore with documents of the four layouts that occur, and the parts *)
(* of an article.                                                           *)
EXTENDS ClauseStore, Subitems, Staging

\* The outline made by writing the marks one after the other, each the next of
\* its kind: in which paragraph, item and sub-item each line is.
Outline(marks) ==
    LET at[n \in DOMAIN marks] ==
            LET above == IF n = 1 THEN <<0, 0, 0>> ELSE at[n - 1]
            IN  CASE marks[n] = "hang" -> <<above[1] + 1, 0, 0>>
                  [] marks[n] = "ho" -> <<above[1], above[2] + 1, 0>>
                  [] marks[n] = "mok" -> <<above[1], above[2], above[3] + 1>>
                  [] OTHER -> above
    IN  at
Numbered(marks) ==
    [n \in DOMAIN marks |->
        [mark |-> marks[n],
         no |-> CASE marks[n] = "hang" -> Outline(marks)[n][1]
                  [] marks[n] = "ho" -> Outline(marks)[n][2]
                  [] OTHER -> Outline(marks)[n][3]]]

\* An article that is written in the order of its numbers, with paragraphs or
\* with none, is read as it is written, and text between its marks continues
\* the item or paragraph it stands in.
ASSUME OutlineKept ==
    \A marks \in UNION {[1..n -> {"hang", "ho", "mok", "none"}] : n \in 1..5} :
        (marks[1] = "hang" \/ (marks[1] = "ho" /\ \A n \in DOMAIN marks : marks[n] # "hang")) =>
            \A n \in DOMAIN marks :
                LET at == Outline(marks)[n]
                IN  SubitemOf(Numbered(marks), n) =
                        IF marks[n] = "none" THEN <<at[1], at[2], 0>> ELSE at

\* subitem_counts counts the marks of an article whose outline is kept.
ASSUME MarksCounted ==
    \A marks \in UNION {[1..n -> {"hang", "ho", "mok", "none"}] : n \in 1..5} :
        LET count(m) == Cardinality({n \in DOMAIN marks : marks[n] = m})
        IN  marks[1] = "hang" =>
                Counts(Numbered(marks)) = <<count("hang"), count("ho"), count("mok")>>

\* Whatever the numbers, no line is put before the one above it, and none is
\* lost after the first mark that counts.
ASSUME OutlineInOrder ==
    \A lines \in [1..4 -> [mark : {"hang", "ho", "mok"}, no : {1, 2}]] :
        LET at(n) == SubitemOf(lines, n)
        IN  \A n \in 2..4 : at(n - 1) # <<>> =>
                /\ at(n) # <<>> /\ at(n)[1] >= at(n - 1)[1]
                /\ at(n)[1] = at(n - 1)[1] => at(n)[2] >= at(n - 1)[2]

Text(of) ==
    [kind |-> "text", of |-> of, jo |-> 0, form |-> "", rest |-> "", topic |-> "", no |-> 0,
     hash |-> FALSE, level |-> 0, says |-> "", kb |-> FALSE, bullet |-> FALSE, dots |-> FALSE,
     reduces |-> FALSE, follows |-> FALSE, refs |-> {}]

Article(of, jo, form, topic) ==
    [Text(of) EXCEPT !.kind = "article", !.jo = jo, !.form = form, !.topic = topic, !.rest = "text"]

Entry(jo, form) == [Article("", jo, form, "") EXCEPT !.rest = IF form = "half" THEN "short" ELSE "dots"]
Section(dots) == [Text("") EXCEPT !.kind = "section", !.hash = TRUE, !.level = 1, !.dots = dots]
Annex(no) == [Text("") EXCEPT !.kind = "annex", !.no = no]
Addendum == [Text("") EXCEPT !.kind = "addendum"]
Title(of) == [Text(of) EXCEPT !.hash = TRUE, !.level = 3, !.says = "special"]

\* A policy's articles in a form: what is paid with reference to a table, what
\* is not, and a reduction below an article that also follows the main policy.
Ordinary(form) ==
    <<Article("main", 1, form, "definition"),
      [Article("main", 2, form, "payout") EXCEPT !.refs = {<<"annex", 1>>, <<"article", 3>>}],
      [Text("main") EXCEPT !.refs = {<<"law", 15>>}],
      Article("main", 3, form, "exclusion")>>

Special(of, form) ==
    <<[Article(of, 1, form, "payout") EXCEPT !.refs = {<<"annex", 1>>, <<"article", 3>>}],
      [Text(of) EXCEPT !.reduces = TRUE, !.follows = TRUE],
      Article(of, 2, form, "adoption")>>

\* A law that is quoted in full.
Law(form) == <<Text(""), Article("", 1, form, "exclusion"), Article("", 2, form, "")>>

Contents(form, section) ==
    <<Section(section), Entry(1, form), Entry(2, form), Section(section), [Annex(1) EXCEPT !.bullet = TRUE, !.dots = TRUE]>>

Appendix == <<Annex(1), Text(""), Annex(1), Addendum>>

SplitParts ==
    <<Contents("half", TRUE), <<Section(FALSE)>> \o Ordinary("half"), Law("half"),
      <<Section(FALSE), [Title("") EXCEPT !.level = 2], Title("A")>> \o Special("A", "half"),
      <<Title("B")>> \o Special("B", "half"), Appendix>>

RunsParts(form, section) ==
    <<Contents(form, section), Ordinary(form), Law(form),
      <<[Text("") EXCEPT !.says = "within"], Title("A")>> \o Special("A", form),
      <<Title("B")>> \o Special("B", form), Appendix>>

KbTitle(of) == [Text(of) EXCEPT !.hash = TRUE, !.level = 6, !.kb = TRUE]

KbParts ==
    <<Contents("half", TRUE), Ordinary("half"), <<KbTitle(""), Text("")>>,
      <<KbTitle("A")>> \o Special("A", "half"), <<KbTitle("B")>> \o Special("B", "half"), Appendix>>

MCLayouts ==
    [split |-> SplitParts, runs |-> RunsParts("full", TRUE), numeric |-> RunsParts("numeric", FALSE),
     kb |-> KbParts]

\* The ordinary policy is always there, a second special policy after a first.
MCEditions ==
    {e \in [layout : DOMAIN MCLayouts, parts : SUBSET (1..6)] :
        2 \in e.parts /\ (5 \in e.parts => 4 \in e.parts)}

\* The index does not see contents and laws.
MCSearched ==
    [layout : {"split"}, parts : {{2, 4, 6}, {2, 4, 5, 6}, {2, 4}}]

-----------------------------------------------------------------------------

\* The script for an edition.  A region is not searched for contents: those of
\* a document without sections end its first policy, and KB's must be cut off;
\* and the last article of a document of one policy ends where the body does.
Suited(script, e) ==
    CASE script = "product" -> e.layout # "kb" /\ (4 \in e.parts => e.layout = "split")
      [] script = "kb" -> e.layout = "kb" /\ 1 \notin e.parts
      [] script = "compound" -> e.layout # "kb" /\ (4 \in e.parts \/ 1 \notin e.parts)
      [] OTHER -> FALSE

\* The articles of a policy, and an article's lines.
ArticlesOf(doc, x) == {i \in DOMAIN doc : doc[i].of = x /\ doc[i].kind = "article"}
LinesOf(doc, x, i) ==
    {k \in i .. Len(doc) : doc[k].of = x /\ ArticlesOf(doc, x) \cap (i + 1 .. k) = {}}

\* A document in one policy that passes the gate has that policy's articles and
\* no others; a special policy, or a law that is quoted, makes it several.
ASSUME GateTellsOnePolicy ==
    \A e \in Editions :
        LET doc == DocOf[e]
            gate == Gate(Stage(doc), doc, TRUE)
            articles == DocClauses(Stage(doc), doc)
        IN  gate.one = "PASS" /\ ~Blocked(gate) =>
                /\ {doc[c.from].at : c \in Range(articles)} = {doc[i].at : i \in ArticlesOf(doc, "main")}
                /\ Gaps(articles) = {} /\ Doubled(articles) = {}

\* The gate blocks it when the conversion loses an article but the last.
ASSUME GateBlocksGaps ==
    \A e \in Editions, jo \in 1..2 :
        LET doc == DocOf[e]
            torn == SelectSeq(doc, LAMBDA l : ~(l.of = "main" /\ l.jo = jo))
        IN  Gate(Stage(doc), doc, TRUE).one = "PASS" => Blocked(Gate(Stage(torn), torn, TRUE))

\* The policies that are ingested from the runs of a document are among those
\* the sidecar restores from it, article by article.
ASSUME SidecarRestores ==
    \A e \in Editions : e.layout \in {"runs", "numeric"} =>
        LET doc == DocOf[e]
            restored == {{c.from : c \in Range(p.clauses)} : p \in Range(ParseCompound(doc))}
        IN  \A p \in Range(Parsed(doc, RunSections(doc))) :
                Len(Runs(doc)) >= 2 => {c.from : c \in Range(p.clauses)} \in restored

\* Product n holds policy x: its articles and no others, each with all its
\* lines and without an article of another policy, under its own title, and
\* marked as excluding or reducing when it does.
Keeps(n, x, doc) ==
    LET rows == {c \in db.clause : c.product = n}
        excludes(i) == doc[i].topic = "exclusion"
        reduces(i) == doc[i].topic \notin {"definition", "adoption"}
                          /\ \E k \in LinesOf(doc, x, i) : doc[k].reduces
    IN  /\ {c.at : c \in rows} = {doc[i].at : i \in ArticlesOf(doc, x)}
        /\ \A c \in rows : \A i \in ArticlesOf(doc, x) :
               doc[i].at = c.at =>
                   /\ c.jo = doc[i].jo
                   /\ {doc[k].at : k \in LinesOf(doc, x, i)} \subseteq c.body
                   /\ \A k \in DOMAIN doc : (doc[k].of \notin {x, ""} /\ doc[k].kind = "article")
                                                => doc[k].at \notin c.body
        /\ {r.jo : r \in {r \in db.excl : r.product = n}}
             = {doc[i].jo : i \in {i \in ArticlesOf(doc, x) : excludes(i) \/ reduces(i)}}
        /\ \A r \in db.product : r.product = n =>
               IF x = "main" THEN r.name = <<>>
               ELSE \E i \in DOMAIN doc : doc[i].at = r.name /\ doc[i].of = x /\ doc[i].hash

\* After a load with the script for the document, every policy in it is one
\* product that holds exactly this policy's articles: contents, quoted laws
\* and other policies are neither taken for its articles nor end it early.
PoliciesKept ==
    LET doc == DocOf[loaded.edition]
        policies == IF loaded.script = "product" THEN {"main"} ELSE {l.of : l \in Range(doc)} \ {""}
    IN  Suited(loaded.script, loaded.edition) =>
            /\ Cardinality(policies) = Cardinality(loaded.products)
            /\ \A x \in policies : \E n \in loaded.products : Keeps(n, x, doc)

=============================================================================
