-------------------------- MODULE MCDocumentPasses --------------------------
(***************************************************************************)
(* Families of small documents, each aimed at passes that meet: every      *)
(* member is what a collector, or the page assembly, delivers.             *)
(***************************************************************************)
EXTENDS DocumentPasses

CONSTANT Families   \* the families a run takes its inputs from

MCLexicon ==
  [exam |-> "lower", ple |-> "lower", enter |-> "lower", page |-> "lower", t |-> "letter",
   self |-> "prefix", re |-> "vprefix", and |-> "conj", und |-> "konj", Term |-> "cap",
   INTRO |-> "caps", DATA |-> "caps"] @@
  ("1" :> "num" @@ "2" :> "num" @@ "3" :> "num" @@ "1.1" :> "dotted" @@ "Name:" :> "label" @@
   "____" :> "blank" @@ "[]" :> "box")
MCVowelWords == {"enter", "exam"}
MCNumberOf == "1" :> 1 @@ "2" :> 2 @@ "3" :> 3
MCClaimRank == [pdf |-> 2, tika |-> 1, office |-> 2]

-----------------------------------------------------------------------------
(* Building blocks: a page is 100 by 100. *)

On(page, l, t, r, b) == [page |-> page, l |-> l, t |-> t, r |-> r, b |-> b, charspan |-> <<>>]
Span(start, end, word, target) == [start |-> start, end |-> end, word |-> word, target |-> target]
TextOf(i, parent, label, text, prov) ==
  [Item(<<"texts", i>>, parent, label) EXCEPT !.text = text, !.prov = prov, !.sources = {"pdf"}]
GroupOf(i, parent, label, children) ==
  [Item(<<"groups", i>>, parent, label) EXCEPT !.children = children]
Txt(i) == <<"texts", i>>
Grp(i) == <<"groups", i>>
TwoPages == [p \in 1..2 |-> 100]
Leg(doc) == [ok |-> TRUE, fanout |-> FALSE, doc |-> doc,
             claimant |-> [collector |-> "pdf", confidence |-> 0]]
Words(ws) == IF ws = <<>> THEN <<>>
             ELSE FoldLeft(LAMBDA acc, w : acc \o <<" ", w>>, <<ws[1]>>, Tail(ws))

\* The document as another collector would have delivered it.
By(doc, collector) ==
  LET Op(n) == [n EXCEPT !.sources = IF @ = {} THEN {} ELSE {collector}] IN MapItems(doc, Op)

TextPasses == {"demote", "headings_split", "rows_split", "headings", "order", "continuations", "hyphens"}
StructurePasses == {"migrate", "orphans", "wrap", "empty"}
All == TextPasses \cup StructurePasses

\* The chunking calls a client may make of a document.
Requests(maxima) ==
  [kind : {"hierarchical"}, images : BOOLEAN, max : {0}, peers : {FALSE}, counter : {"wordish"}] \cup
  [kind : {"hybrid"}, images : {TRUE}, max : maxima, peers : BOOLEAN, counter : {"wordish", "hf"}]

-----------------------------------------------------------------------------
(* A paragraph broken by a page or a column, page numbers under it. *)

Heads == {<<"exam", "-">>, <<"exam", " ", "self", "-">>, <<"re", "-">>, <<"exam", " ", "ple">>,
          <<"ple", "~", "\n", "exam", " ">>, <<"exam", ".">>}
Tails == {<<"ple", " ", "exam", "-", " ", "ple">>, <<" ", "enter", ".">>,
          <<"und", " ", "Term">>, <<"Term">>}
Flow(head, tail, column, numbered, marked) ==
  LET at2 == IF column THEN On(1, 60, 10, 100, 60) ELSE On(2, 0, 10, 40, 20)
      mark(text) == LET k == Min({i \in DOMAIN text : IsWord(text[i])})
                    IN IF marked THEN <<Span(k - 1, k, text[k], Txt(3))>> ELSE <<>>
      foot(i, n, p) == TextOf(i, Body, "text", <<n>>, <<On(p, 0, 92, 10, 96)>>)
      span(e, text) == [e EXCEPT !.charspan = IF marked THEN <<0, Len(text)>> ELSE <<>>]
  IN [EmptyDocument EXCEPT
        !.texts = <<[TextOf(1, Body, "text", head, <<span(On(1, 0, 60, 40, 80), head)>>)
                       EXCEPT !.spans = mark(head)],
                    IF numbered THEN foot(2, "1", 1)
                    ELSE TextOf(2, Body, "page_footer", <<"page">>, <<On(1, 0, 92, 10, 96)>>),
                    [TextOf(3, Body, "text", tail, <<span(at2, tail)>>) EXCEPT !.spans = mark(tail)],
                    foot(4, "2", 2),
                    TextOf(5, Body, "text", <<"ple", ".">>, <<On(2, 0, 40, 40, 50)>>)>>,
        !.body = <<Txt(1), Txt(2), Txt(3), Txt(4), Txt(5)>>, !.pages = TwoPages,
        !.anchors = <<Txt(3), Txt(5)>>]
FlowDocuments == {Flow(h, t, c, n, m) : h \in Heads, t \in Tails, c, n, m \in BOOLEAN}
FlowInputs ==
  [mode : {"streamed"}, legs : {<<Leg(d)>> : d \in FlowDocuments}, options : {TextPasses, All}, requests : {{}}] \cup
  [mode : {"recognized"}, legs : {<<Leg(By(d, "grparse"))>> : d \in FlowDocuments}, options : {TextPasses, All}, requests : {{}}]

-----------------------------------------------------------------------------
(* Groups, furniture, captions and cells. *)

Structure(label, nested, orphan, furnished, low) ==
  LET inner == IF nested THEN Grp(2) ELSE Body
      kids == IF nested THEN <<Txt(1), Txt(2), <<"pictures", 1>>, Grp(2)>> ELSE <<Txt(1), Txt(2)>>
  IN [EmptyDocument EXCEPT
        !.texts = <<TextOf(1, Grp(1), IF label = "label" THEN "text" ELSE "list_item", <<"exam">>,
                           <<On(1, 0, 20, 40, 30)>>),
                    TextOf(2, Grp(1), "text", <<"enter">>, <<On(1, 0, 32, 40, 40)>>),
                    TextOf(3, <<"pictures", 1>>, "caption", <<"Term">>, <<On(1, 0, 70, 40, 75)>>),
                    TextOf(4, <<"tables", 1>>, "text", <<"ple">>, <<>>),
                    [TextOf(5, Furniture, IF low THEN "page_footer" ELSE "text", <<"page">>,
                            IF furnished THEN <<On(1, 0, IF low THEN 90 ELSE 2, 9, IF low THEN 95 ELSE 6)>>
                            ELSE <<>>) EXCEPT !.layer = "furniture"],
                    TextOf(6, Grp(4), "text", <<"re">>, <<>>)>>,
        !.pictures = <<[Item(<<"pictures", 1>>, IF nested THEN Grp(1) ELSE Body, "picture") EXCEPT
                          !.captions = <<Txt(3)>>, !.children = IF orphan THEN <<>> ELSE <<Txt(3)>>,
                          !.prov = <<On(1, 0, 50, 40, 68)>>, !.sources = {"pdf"}]>>,
        !.tables = <<[Item(<<"tables", 1>>, Body, "table") EXCEPT
                        !.children = <<Txt(4)>>, !.cells = <<Txt(4)>>,
                        !.prov = <<On(2, 0, 20, 40, 40)>>, !.sources = {"pdf"}]>>,
        !.groups = <<GroupOf(1, Body, label, kids),
                     GroupOf(2, IF nested THEN Grp(1) ELSE Body, "label", IF nested THEN <<Grp(3)>> ELSE <<>>),
                     GroupOf(3, inner, "label", <<>>),
                     GroupOf(4, Furniture, "label", <<Txt(6)>>),
                     GroupOf(5, Body, "list", <<>>)>>,
        !.body = <<Grp(5), Grp(1)>> \o (IF nested THEN <<>> ELSE <<<<"pictures", 1>>, Grp(2), Grp(3)>>)
                   \o <<<<"tables", 1>>>>,
        !.furniture = <<Txt(5), Grp(4)>>, !.pages = TwoPages, !.anchors = <<Grp(3), Txt(2)>>]
StructureInputs ==
  [mode : {"streamed", "projected"},
   legs : {<<Leg(Structure(g, n, o, f, l))>> :
             g \in {"list", "ordered_list", "label"}, n, o, f, l \in BOOLEAN},
   options : {{}, {"orphans", "wrap"}, {"migrate", "empty"}, {"wrap", "empty"}, {"order", "migrate"},
              StructurePasses, All},
   requests : {{}}]

-----------------------------------------------------------------------------
(* A title block, headings, a run-in heading and a form. *)

RunIn == Words(<<"1", "INTRO", "DATA", "Term", "exam", "ple", "enter">>)
Form == Words(<<"Name:", "____", "[]", "exam", "Name:", "____">>)
Headings(second, third, tall, guessed) ==
  LET head(i, text, t, b) == [TextOf(i, Body, "section_header", text, <<On(1, 0, t, 40, b)>>)
                                EXCEPT !.level = IF guessed THEN 2 ELSE 0]
  IN [EmptyDocument EXCEPT
        !.texts = <<head(1, <<"Term", " ">>, 2, 2 + tall),
                    [head(2, second, 14, 24) EXCEPT
                       !.spans = <<Span(Len(second) - 1, Len(second), Last(second), Txt(4))>>],
                    head(3, third, 30, 36),
                    [TextOf(4, Body, "text", RunIn, <<On(1, 0, 40, 40, 60)>>) EXCEPT
                       !.spans = <<Span(2, 3, "INTRO", Txt(1)), Span(8, 9, "exam", NoRef)>>],
                    [TextOf(5, Grp(1), "paragraph", Form, <<On(1, 0, 62, 40, 80)>>) EXCEPT
                       !.spans = <<Span(2, 3, "____", NoRef), Span(8, 9, "Name:", Txt(3))>>],
                    head(6, <<"1.1", " ", "Term">>, 82, 87)>>,
        !.groups = <<GroupOf(1, Body, "form", <<Txt(5)>>)>>,
        !.body = <<Txt(1), Txt(2), Txt(3), Txt(4), Grp(1), Txt(6)>>, !.pages = (1 :> 100),
        !.anchors = <<Txt(2), Txt(6)>>]
HeadingInputs ==
  [mode : {"streamed", "unary", "abandoned"},
   legs : {<<Leg(Headings(s, t, h, g))>> :
             s \in {<<"exam">>, <<" ", "Term">>, <<"1", " ", "exam">>},
             t \in {<<"INTRO">>, <<"Term", ".">>, <<"1", ".", " ", "Term">>, <<"Term">>},
             h \in {6, 10, 12}, g \in BOOLEAN},
   options : {All, {"headings_split", "rows_split"}}, requests : {Requests({6})}]

-----------------------------------------------------------------------------
(* Recognized pages: loose list items and headings without a level. *)

Recognized(second, level, split) ==
  LET page == IF split THEN 2 ELSE 1
  IN [EmptyDocument EXCEPT
        !.texts = <<TextOf(1, Body, "section_header", <<"INTRO">>, <<On(1, 0, 5, 40, 15)>>),
                    TextOf(2, Body, "list_item", <<"exam">>, <<On(1, 0, 20, 40, 26)>>),
                    TextOf(3, Body, second, <<"ple">>, <<On(1, 0, 30, 40, 36)>>),
                    TextOf(4, Body, "list_item", <<"enter">>, <<On(page, 0, 40, 40, 46)>>),
                    [TextOf(5, Furniture, "page_footer", <<"page">>, <<On(page, 0, 95, 9, 98)>>)
                       EXCEPT !.layer = "furniture"],
                    [TextOf(6, Body, "section_header", <<"Term">>, <<On(page, 0, 60, 40, 66)>>)
                       EXCEPT !.level = level]>>,
        !.body = <<Txt(1), Txt(2), Txt(3), Txt(4), Txt(6)>>, !.furniture = <<Txt(5)>>,
        !.pages = [p \in 1..page |-> 100]]
\* A run that ended before its first page leaves the fold empty.
RecognizedInputs ==
  [mode : {"recognized"},
   legs : {<<Leg(By(Recognized(s, l, p), "grparse"))>> : s \in {"list_item", "text"}, l \in {0, 3}, p \in BOOLEAN}
            \cup {<<Leg(EmptyDocument)>>},
   options : {{}, TextPasses, All, {"migrate"}}, requests : {{}}]

-----------------------------------------------------------------------------
(* Two columns, a float inside a list, a caption and a footnote. *)

Columns(floatTop, footnote, wide, alien) ==
  [EmptyDocument EXCEPT
     !.texts = <<TextOf(1, Grp(1), "list_item", <<"exam">>, <<On(1, 0, 10, 40, 20)>>),
                 TextOf(2, Grp(1), "list_item", <<"ple">>, <<On(1, 0, 50, 40, 60)>>),
                 TextOf(3, Body, "text", <<"Term", ".">>, <<On(1, 60, 10, 100, 60)>>),
                 [TextOf(4, Body, "caption", <<"self">>, <<On(1, 0, floatTop + 12, 40, floatTop + 16)>>)
                    EXCEPT !.sources = IF alien THEN {"tika"} ELSE {"pdf"}],
                 TextOf(5, Body, IF footnote THEN "footnote" ELSE "text", <<"enter", ".">>,
                        <<On(1, 0, 70, IF wide THEN 100 ELSE 40, 80)>>),
                 TextOf(6, Body, "text", <<"re", ".">>, <<>>),
                 [TextOf(7, Furniture, "text", <<"page">>, <<On(1, 0, 1, 20, 4)>>)
                    EXCEPT !.layer = "furniture"]>>,
     !.tables = <<[Item(<<"tables", 1>>, Body, "table") EXCEPT
                     !.prov = <<On(1, 0, floatTop, 40, floatTop + 11)>>, !.sources = {"pdf"}]>>,
     !.groups = <<GroupOf(1, Body, "list", <<Txt(1), Txt(2)>>)>>,
     !.body = <<Txt(5), Txt(3), Txt(6), Txt(4), Grp(1), <<"tables", 1>>>>,
     !.furniture = <<Txt(7)>>, !.pages = (1 :> 100)]
ColumnInputs ==
  [mode : {"streamed", "projected", "unary"},
   legs : {<<Leg(Columns(f, n, w, x))>> : f \in {25, 82}, n, w, x \in BOOLEAN},
   options : {{"order"}, {"order", "migrate"}, All}, requests : {Requests({3})}]

-----------------------------------------------------------------------------
(* Legs of one document. *)

Accounts == {<<>>, [title |-> "a"], [title |-> "b", lang |-> "x"]}
Small(meta, grouped) ==
  [EmptyDocument EXCEPT
     !.texts = <<[TextOf(1, IF grouped THEN Grp(1) ELSE Body, "text", <<"exam">>, <<On(1, 0, 9, 40, 20)>>)
                    EXCEPT !.spans = <<Span(0, 1, "exam", Txt(2))>>],
                 TextOf(2, Body, "text", <<"Term">>, <<On(1, 0, 30, 40, 40)>>)>>,
     !.groups = IF grouped THEN <<GroupOf(1, Body, "label", <<Txt(1)>>)>> ELSE <<>>,
     !.body = IF grouped THEN <<Grp(1), Txt(2)>> ELSE <<Txt(1), Txt(2)>>,
     !.anchors = <<Txt(1)>>, !.pages = (1 :> IF grouped THEN 100 ELSE 90), !.meta = meta]
Answers(collectors, fanout) ==
  [ok : BOOLEAN, fanout : fanout, doc : {Small(a, g) : a \in Accounts, g \in {fanout = {TRUE}}},
   claimant : [collector : collectors, confidence : {0, 1, 2}]]
\* Three appended documents with groups and without, any of which may fail.
Appends == LET legs == {[Leg(Small(<<>>, g)) EXCEPT !.ok = k] : g, k \in BOOLEAN} IN legs \X legs \X legs
MergeInputs ==
  [mode : {"unary"},
   legs : {<<x, y, z>> : x \in {l \in Answers({"tika"}, {FALSE}) : l.claimant.confidence < 2},
                         y \in {l \in Answers({"pdf"}, {FALSE}) : l.claimant.confidence # 1 /\ l.ok},
                         z \in {l \in Answers({"office"}, {TRUE}) : l.claimant.confidence < 2}} \cup
          {<<l>> : l \in Answers({"pdf"}, {FALSE})} \cup Appends,
   options : {{}}, requests : {{}}]

-----------------------------------------------------------------------------
(* What chunking meets: an empty item first, a heading without words of its
   own, paragraphs over the budget, a list that holds a float, a caption two
   floats name, a code block's footnote, another layer. *)

Paragraphs == {<<"exam", " ", "ple", ".", " ", "re", " ", "enter", ".", " ", "Term", " ">>,
               <<" ", "exam", "-", "ple", "/", "re", "-", "enter", "\n", "and">>,
               <<"exam", ".", ")", " ", "1", ".", "2", " ", "ple", " ", "re", " ", "t">>}
Chunked(lead, heading, long, label, shared) ==
  LET folded == heading = <<>>
  IN [EmptyDocument EXCEPT
        !.texts = <<TextOf(1, Body, "text", lead, <<>>),
                    [TextOf(2, Body, "section_header", heading, <<>>) EXCEPT
                       !.level = 1, !.children = IF folded THEN <<Txt(3)>> ELSE <<>>],
                    TextOf(3, IF folded THEN Txt(2) ELSE Body, "text", <<"INTRO">>, <<>>),
                    TextOf(4, Body, "text", long, <<>>),
                    [TextOf(5, Grp(1), "list_item", <<"self">>, <<>>) EXCEPT !.children = <<Grp(2)>>],
                    TextOf(6, Grp(2), "list_item", <<"page">>, <<>>),
                    TextOf(7, <<"pictures", 1>>, "caption", <<"re">>, <<>>),
                    [TextOf(8, Body, "code", <<"DATA">>, <<>>) EXCEPT !.captions = <<Txt(9)>>],
                    TextOf(9, Body, "footnote", <<"enter">>, <<>>),
                    [TextOf(10, Body, "text", <<"page">>, <<>>) EXCEPT !.layer = "furniture"],
                    [TextOf(11, Body, "section_header", <<"1", " ", "Term">>, <<>>) EXCEPT !.level = 2],
                    TextOf(12, Body, "text", <<"t">>, <<>>)>>,
        !.pictures = <<[Item(<<"pictures", 1>>, Grp(1), "picture") EXCEPT
                          !.captions = <<Txt(7)>>, !.children = <<Txt(7)>>]>>,
        !.tables = <<[Item(<<"tables", 1>>, Body, "table") EXCEPT
                        !.captions = IF shared THEN <<Txt(7)>> ELSE <<>>]>>,
        !.groups = <<GroupOf(1, Body, label, <<Txt(5), <<"pictures", 1>>>>),
                     GroupOf(2, Txt(5), "ordered_list", <<Txt(6)>>)>>,
        !.body = <<Txt(1), Txt(2)>> \o (IF folded THEN <<>> ELSE <<Txt(3)>>)
                   \o <<Txt(4), <<"tables", 1>>, Grp(1), Txt(9), Txt(8), Txt(10), Txt(11), Txt(12)>>]
ChunkInputs ==
  [mode : {"unary"},
   legs : {<<Leg(Chunked(e, h, p, g, s))>> :
             e \in {<<>>, <<"exam">>}, h \in {<<>>, <<"Term">>}, p \in Paragraphs,
             g \in {"list", "ordered_list", "label"}, s \in BOOLEAN},
   options : {{}, {"wrap", "orphans"}}, requests : {Requests({3, 6})}]

MCInputs ==
  LET family == [flow |-> FlowInputs, structure |-> StructureInputs, headings |-> HeadingInputs,
                 recognized |-> RecognizedInputs, columns |-> ColumnInputs, merge |-> MergeInputs,
                 chunks |-> ChunkInputs]
  IN UNION {family[f] : f \in Families}
=============================================================================
