------------------------------ MODULE Clauses ------------------------------
(***************************************************************************)
(* How the articles of an insurance document are found: parse_clauses.py,  *)
(* the division of a compound document into policies (ingest_compound.py,  *)
(* kb_parse.py), and what the loaders take from an article                 *)
(* (load_clauses.py, load_exclusions.py, load_annexes.py).                 *)
(*                                                                         *)
(* A document is a sequence of lines.  A line is what the patterns find in *)
(* it: its kind, and                                                       *)
(*    article     a line that starts with an article number: jo, its form  *)
(*                ("full", "half", "numeric"), what follows the title on   *)
(*                the line (rest: "short", "text", "dots")                 *)
(*    section     "Section n"; dots: with a dotted leader                  *)
(*    annex       no; bullet; dots                                         *)
(*    addendum, text                                                       *)
(* hash, level: a markdown heading; says: "special" when the line ends in  *)
(* "special policy", "within" when it only contains it, "ordinary" when it *)
(* names the ordinary policy; kb: the title of a policy as KB prints it;   *)
(* topic: what an article's title is about; follows: the line says that    *)
(* the main policy's terms are followed; refs: what the line refers to,    *)
(* pairs of "article", "annex" or "law" and a number.                      *)
(***************************************************************************)
EXTENDS Integers, SequencesExt

CONSTANTS
    Enough,     \* articles of a form that tell the form of a document
    Reach       \* lines within the 400 characters that may name a policy

ASSUME ClausesAssumption == Enough \in Nat \ {0} /\ Reach \in Nat

\* Places in their order: the n-th has n that are not behind it.
InOrder(I) ==
    [n \in 1..Cardinality(I) |-> CHOOSE i \in I : Cardinality({j \in I : j <= i}) = n]

Articles(doc, form) == {i \in DOMAIN doc : doc[i].kind = "article" /\ doc[i].form = form}

\* select_profile.
Profile(doc) ==
    LET n(form) == Cardinality(Articles(doc, form))
    IN  CASE n("full") >= Enough -> "full"
          [] n("full") < Enough /\ n("numeric") >= Enough
                /\ (n("numeric") > 2 * n("half") \/ n("half") < Enough) -> "numeric"
          [] OTHER -> "half"

\* _sections.
Sections(doc) == InOrder({i \in DOMAIN doc : doc[i].kind = "section" /\ ~doc[i].dots})

\* RE_APPENDIX_START: the place of the first annex or addendum.
BodyEnd(doc) ==
    Min({Len(doc) + 1} \cup {i \in DOMAIN doc : doc[i].kind = "addendum"
                                                  \/ (doc[i].kind = "annex" /\ ~doc[i].bullet)})

\* A line of the table of contents.
IsContents(profile, l) ==
    IF profile = "half" THEN l.rest = "short" /\ ~l.hash ELSE l.rest = "dots"

\* The numbers rise; the first that does not starts a law that is quoted.
Unbroken(doc, hits) ==
    SubSeq(hits, 1, Max({k \in 0..Len(hits) :
                           \A j \in 2..k : doc[hits[j]].jo > doc[hits[j - 1]].jo}))

\* The articles that start at the given places, the last of which ends before to.
Cut(doc, starts, to) ==
    [k \in DOMAIN starts |->
        [jo |-> doc[starts[k]].jo, topic |-> doc[starts[k]].topic, from |-> starts[k],
         to |-> IF k < Len(starts) THEN starts[k + 1] - 1 ELSE to - 1]]

\* parse_clauses of a region: nothing is taken for contents.
ParseRegion(doc, from, to) ==
    Cut(doc, Unbroken(doc, InOrder(Articles(doc, Profile(doc)) \cap (from .. to - 1))), to)

\* parse_clauses of a document: its first section, or all of it but the contents.
ParseDocument(doc) ==
    LET sections == Sections(doc)
        profile == Profile(doc)
        body == {i \in Articles(doc, profile) : i < BodyEnd(doc) /\ ~IsContents(profile, doc[i])}
    IN  IF Len(sections) >= 2 /\ profile # "numeric"
        THEN ParseRegion(doc, sections[1] + 1, sections[2])
        ELSE Cut(doc, Unbroken(doc, InOrder(body)), BodyEnd(doc))

-----------------------------------------------------------------------------
(* The policies of a document: where each starts and ends, the line that    *)
(* names it, or 0, and whether it is a special policy.                      *)

Policy(name, special, from, to) == [name |-> name, special |-> special, from |-> from, to |-> to]

\* split_sections.
SplitSections(doc) ==
    LET first == Sections(doc)[1]
        subs == {i \in first + 1 .. Len(doc) :
                    doc[i].hash /\ doc[i].level >= 3 /\ doc[i].says = "special"}
        starts == InOrder({i \in {first + 1} \cup subs : i < BodyEnd(doc)})
        end(k) == IF k < Len(starts) THEN starts[k + 1] ELSE BodyEnd(doc)
    IN  IF Len(Sections(doc)) < 2 THEN <<Policy(0, FALSE, 1, BodyEnd(doc))>>
        ELSE [k \in DOMAIN starts |->
                 Policy(IF k = 1 THEN 0 ELSE starts[k], k > 1, starts[k], end(k))]

\* detect_subcontracts: where the numbers start again.
Runs(doc) ==
    LET profile == Profile(doc)
        hits == InOrder({i \in Articles(doc, profile) : ~IsContents(profile, doc[i])})
    IN  InOrder({hits[k] : k \in {j \in DOMAIN hits :
                    j = 1 \/ doc[hits[j]].jo <= doc[hits[j - 1]].jo}})

\* The heading above a run that names a policy, or else such a line, or 0.
NamedBy(doc, i) ==
    LET near == {j \in i - Reach .. i - 1 : j \in DOMAIN doc /\ doc[j].says # ""}
        headings == {j \in near : doc[j].hash}
    IN  IF near = {} THEN 0 ELSE IF headings = {} THEN Max(near) ELSE Max(headings)

\* sections_for_ingest without sections: the first run, and those that a special
\* policy names.  (A quoted law is a run as well.)
RunSections(doc) ==
    LET runs == Runs(doc)
        end(k) == IF k < Len(runs) THEN runs[k + 1] ELSE Len(doc) + 1
        name(k) == NamedBy(doc, runs[k])
        kept == InOrder({k \in DOMAIN runs :
                           k = 1 \/ (name(k) # 0 /\ doc[name(k)].says = "special")})
    IN  [n \in DOMAIN kept |->
            LET k == kept[n]
            IN  Policy(IF k = 1 THEN 0 ELSE name(k), k > 1, runs[k], end(k))]

\* Mutant: sections are believed whatever the form of the articles.
CompoundSectionsAlways(doc) ==
    IF Len(SplitSections(doc)) >= 2 \/ Len(Runs(doc)) < 2 THEN SplitSections(doc)
    ELSE RunSections(doc)

\* sections_for_ingest.
CompoundSections(doc) ==
    IF (Profile(doc) # "numeric" /\ Len(SplitSections(doc)) >= 2) \/ Len(Runs(doc)) < 2
    THEN SplitSections(doc)
    ELSE RunSections(doc)

\* parse_compound: every run is a policy, quoted laws as well.
ParseCompound(doc) ==
    LET runs == Runs(doc)
        end(k) == IF k < Len(runs) THEN runs[k + 1] ELSE Len(doc) + 1
    IN  IF Len(runs) < 2 THEN <<[main |-> TRUE, name |-> 0, clauses |-> ParseDocument(doc)]>>
        ELSE [k \in DOMAIN runs |->
                 [main |-> k = 1, name |-> NamedBy(doc, runs[k]),
                  clauses |-> ParseRegion(doc, runs[k], end(k))]]

\* A special policy has articles, one of which adopts the ordinary policy.
IsSubcontract(clauses) ==
    Len(clauses) >= 2 /\ \E n \in DOMAIN clauses : clauses[n].topic = "adoption"

\* ingest_sections: KB's special policies, from title to title.
KbSections(doc) ==
    LET titles == InOrder({i \in DOMAIN doc : doc[i].kb})
        end(k) == IF k < Len(titles) THEN titles[k + 1] ELSE Len(doc) + 1
        clauses(k) == ParseDocument(SubSeq(doc, titles[k], end(k) - 1))
        kept == InOrder({k \in DOMAIN titles : IsSubcontract(clauses(k))})
    IN  <<Policy(0, FALSE, 1, IF titles = <<>> THEN Len(doc) + 1 ELSE titles[1])>>
            \o [n \in DOMAIN kept |->
                   Policy(titles[kept[n]], TRUE, titles[kept[n]], end(kept[n]))]

-----------------------------------------------------------------------------
(* What an article says *)

\* What a line refers to; a line with an article's number does so, too.
RefsIn(l) ==
    l.refs \cup (IF l.kind = "article" /\ l.form # "numeric" THEN {<<"article", l.jo>>} ELSE {})
           \cup (IF l.kind = "annex" THEN {<<"annex", l.no>>} ELSE {})

\* extract_refs: laws are masked, and an article does not refer to itself.
Refs(doc, c) ==
    {r \in UNION {RefsIn(doc[i]) : i \in c.from .. c.to} :
        r[1] # "law" /\ r # <<"article", c.jo>>}

\* Mutant: an annex of every number in every policy.
AnnexesAll(doc) ==
    LET marks == InOrder({i \in DOMAIN doc : doc[i].kind = "annex" /\ ~doc[i].dots})
    IN  [k \in DOMAIN marks |->
            [no |-> doc[marks[k]].no, from |-> marks[k],
             to |-> IF k < Len(marks) THEN marks[k + 1] - 1 ELSE Len(doc)]]

\* find_annexes and load_annexes: of several with one number the first.
Annexes(doc) ==
    LET marks == InOrder({i \in DOMAIN doc : doc[i].kind = "annex" /\ ~doc[i].dots})
        first(k) == \A j \in 1..(k - 1) : doc[marks[j]].no # doc[marks[k]].no
        kept == InOrder({k \in DOMAIN marks : first(k)})
    IN  [n \in DOMAIN kept |->
            LET k == kept[n]
            IN  [no |-> doc[marks[k]].no, from |-> marks[k],
                 to |-> IF k < Len(marks) THEN marks[k + 1] - 1 ELSE Len(doc)]]

\* load_exclusions: articles that exclude, and articles that reduce what is paid.
ExclusionKind(doc, c) ==
    IF c.topic = "exclusion" THEN "general"
    ELSE IF c.topic \notin {"definition", "adoption"} /\ \E i \in c.from .. c.to : doc[i].reduces
    THEN "reduction" ELSE "none"

\* The first article that says why something is paid, or none.
PaidBy(clauses) ==
    LET pays == {k \in DOMAIN clauses : clauses[k].topic = "payout"}
    IN  IF pays = {} THEN {} ELSE {clauses[Min(pays)].jo}

=============================================================================
