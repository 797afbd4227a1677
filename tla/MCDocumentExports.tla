------------------------- MODULE MCDocumentExports -------------------------
(***************************************************************************)
(* Families of small documents for the exports: nested groups, floats with *)
(* captions and footnotes, tables with spans and rich cells, list items    *)
(* outside a list, and transcripts.                                        *)
(***************************************************************************)
EXTENDS DocumentExports

CONSTANT Families   \* the families a run takes its documents from

\* A node of a document given in creation order; up is the node it hangs
\* under, 0 the body.
Node(arena, label, up) ==
  [arena |-> arena, label |-> label, up |-> up, text |-> <<"w">>, page |-> 1, y |-> 10,
   layer |-> "body", captions |-> <<>>, footnotes |-> <<>>, data |-> NoTable, cue |-> 0,
   enumerated |-> FALSE]
TextNode(label, up) == Node("texts", label, up)
GroupNode(label, up) == [Node("groups", label, up) EXCEPT !.text = <<>>]
PictureNode(up) == [Node("pictures", "picture", up) EXCEPT !.text = <<>>]
TableNode(data, up) == [Node("tables", "table", up) EXCEPT !.text = <<>>, !.data = data]

\* The document those nodes make; captions, footnotes and rich cells name
\* nodes by number.
Build(nodes) ==
  LET Ref(i) == IF i = 0 THEN Body
                ELSE <<nodes[i].arena, Cardinality({j \in 1..i : nodes[j].arena = nodes[i].arena})>>
      Refs(is) == AsTuple([k \in DOMAIN is |-> Ref(is[k])])
      Of(i) == SelectSeq([j \in DOMAIN nodes |-> j], LAMBDA j : nodes[j].up = i)
      Cells(cells) == AsTuple([k \in DOMAIN cells |->
                        [cells[k] EXCEPT !.ref = IF @ = 0 THEN NoRef ELSE Ref(@)]])
      Prov(n) == IF n.arena = "groups" \/ n.page = 0 THEN <<>>
                 ELSE <<[page |-> n.page, l |-> 0, t |-> n.y, r |-> 50, b |-> n.y + 10, charspan |-> <<>>]>>
      Made(i) == LET n == nodes[i] IN
        [RenderItem(Ref(i), Ref(n.up), n.label) EXCEPT
           !.children = Refs(Of(i)), !.layer = n.layer, !.prov = Prov(n),
           !.text = IF n.text = <<>> THEN <<>> ELSE <<i>>,
           !.captions = Refs(n.captions), !.footnotes = Refs(n.footnotes),
           !.enumerated = n.enumerated, !.sources = {i}, !.data = [n.data EXCEPT !.cells = Cells(@)], !.cue = n.cue]
      Arena(a) == LET is == SelectSeq([j \in DOMAIN nodes |-> j], LAMBDA j : nodes[j].arena = a)
                  IN AsTuple([k \in DOMAIN is |-> Made(is[k])])
  IN [groups |-> Arena("groups"), texts |-> Arena("texts"), pictures |-> Arena("pictures"),
      tables |-> Arena("tables"), forms |-> Arena("forms"), body |-> Refs(Of(0)),
      furniture |-> <<>>, pages |-> [p \in 1..2 |-> 100], anchors |-> <<>>]

-----------------------------------------------------------------------------
(* Groups in groups, lists, inline runs, and text below a text. *)

Inner(kind, up) ==
  CASE kind \in {"list", "ordered_list", "inline", "section"} -> GroupNode(kind, up)
    [] kind = "picture" -> PictureNode(up)
    [] kind = "host" -> [TextNode("footnote", up) EXCEPT !.text = <<>>]
    [] OTHER -> TextNode(kind, up)
Nested ==
  {Build(<<TextNode("title", 0), GroupNode(outer, 0), [TextNode(leaf[1], 2) EXCEPT !.enumerated = TRUE],
           Inner(inner, up3), [TextNode("list_item", up4) EXCEPT !.page = 2, !.layer = leaf[2]],
           [TextNode("title", 0) EXCEPT !.page = 2]>>) :
     outer \in {"list", "ordered_list", "inline", "section"},
     leaf \in {<<"list_item", "body">>, <<"list_item", "furniture">>, <<"text", "body">>},
     inner \in {"list", "inline", "picture", "code", "host"}, up3 \in {0, 2, 3}, up4 \in {2, 4}}

-----------------------------------------------------------------------------
(* Floats: where the caption and the footnote hang, what is below them, and *)
(* which layer the float is in.                                             *)

Float(kind, up) ==
  CASE kind = "picture" -> PictureNode(up)
    [] kind = "chart" -> [PictureNode(up) EXCEPT !.label = "chart"]
    [] kind = "code" -> TextNode("code", up)
    [] kind = "form" -> [Node("forms", "form", up) EXCEPT !.text = <<>>]
    [] OTHER -> TableNode([rows |-> 1, cols |-> 1, wire |-> <<>>,
                           cells |-> <<[r0 |-> 0, r1 |-> 1, c0 |-> 0, c1 |-> 1, rowspan |-> 1,
                                        colspan |-> 1, bytes |-> 1, ref |-> 0]>>], up)
\* The caption at place "ahead", "after" or "inside" of the float.
Floats ==
  {LET k == IF place = "ahead" THEN 3 ELSE 2
       c == IF place = "ahead" THEN 2 ELSE 3
       float == [Float(kind, IF grouped THEN 1 ELSE 0) EXCEPT
                   !.captions = <<c>>, !.footnotes = <<4>>, !.layer = layer, !.y = 40]
       caption == [TextNode("caption", IF place = "inside" THEN 2 ELSE IF grouped THEN 1 ELSE 0)
                     EXCEPT !.y = y]
   IN Build(<<GroupNode("section", 0)>> \o (IF k = 3 THEN <<caption, float>> ELSE <<float, caption>>) \o
            <<[TextNode("footnote", 0) EXCEPT !.text = IF below = "host" THEN <<>> ELSE @]>> \o
            (IF below = "host" THEN <<GroupNode("inline", 4), TextNode("text", 5)>>
             ELSE IF below = "text" THEN <<TextNode("text", c), TextNode("text", 0)>>
             ELSE <<TextNode("text", 0), TextNode("text", k)>>)) :
     kind \in {"picture", "chart", "code", "table", "form"}, place \in {"ahead", "after", "inside"},
     grouped \in BOOLEAN, layer \in {"body", "furniture"}, y \in {10, 70}, below \in {"host", "text", "none"}}

-----------------------------------------------------------------------------
(* Tables: cells that span, leave the declared size, or name an item. *)

Cell(r0, r1, c0, c1, bytes, ref) ==
  [r0 |-> r0, r1 |-> r1, c0 |-> c0, c1 |-> c1, rowspan |-> r1 - r0, colspan |-> c1 - c0,
   bytes |-> bytes, ref |-> ref]
Two == <<Cell(0, 1, 0, 1, 1, 0), Cell(0, 1, 1, 2, 1, 0), Cell(1, 2, 0, 1, 1, 0), Cell(1, 2, 1, 2, 0, 0)>>
Cut(first, second, rich) ==
  CASE first = "plain" -> [Two EXCEPT ![1].ref = rich]
    [] first = "wide" -> <<Cell(0, 1, 0, 2, 1, rich), Cell(1, 2, 0, 1, 1, 0), Cell(1, 2, 1, 2, 1, second)>>
    [] first = "tall" -> <<Cell(0, 2, 0, 1, 1, rich), Cell(0, 1, 1, 2, 1, second), Cell(1, 2, 1, 2, 1, 0)>>
    [] first = "block" -> <<Cell(0, 2, 0, 2, 1, rich), Cell(2, 3, 0, 1, 1, 0)>>
    [] OTHER -> <<Cell(-1, 1, 0, 1, 1, rich), Cell(1, 2, 1, 3, 2, 0)>>
Wire(first) ==
  CASE first = "plain" -> <<<<1, 2>>, <<3>>>>
    [] first = "wide" -> <<<<1, 1>>, <<2, 3>>>>
    [] first = "tall" -> <<<<1, 2>>, <<1, 3>>>>
    [] first = "block" -> <<<<1, 1>>, <<1, 1>>, <<2>>>>
    [] OTHER -> <<<<1>>, <<0, 2>>>>
Rich(kind) ==
  CASE kind = "list" -> <<GroupNode("list", 1), TextNode("list_item", 2), TextNode("list_item", 2)>>
    [] kind = "blocks" -> <<GroupNode("section", 1), TextNode("section_header", 2), TextNode("text", 2)>>
    [] kind = "table" -> <<TableNode([NoTable EXCEPT !.rows = 1, !.cols = 1, !.cells = <<Cell(0, 1, 0, 1, 1, 0)>>], 1),
                           TextNode("caption", 2), TextNode("text", 1)>>
    [] OTHER -> <<TextNode("text", 1), TextNode("text", 0), TextNode("text", 1)>>
Tables ==
  {Build(<<TableNode([rows |-> rows, cols |-> 2, cells |-> Cut(cut, IF kind = "text" THEN 4 ELSE 0, IF rich THEN 2 ELSE 0),
                      wire |-> IF wired THEN Wire(cut) ELSE <<>>], 0)>> \o Rich(kind) \o <<TextNode("text", 0)>>) :
     rows \in {2, 3}, cut \in {"plain", "wide", "tall", "block", "out"}, rich \in BOOLEAN,
     kind \in {"list", "blocks", "table", "text"}, wired \in BOOLEAN}

-----------------------------------------------------------------------------
(* List items outside a list: what the migration moves and what points at   *)
(* the text arena behind them.                                              *)

Misplaced ==
  {Build(<<GroupNode(outer, 0), TextNode("list_item", up2), TextNode(second, up3),
           TextNode("list_item", IF deep THEN 3 ELSE 0),
           [PictureNode(0) EXCEPT !.captions = <<6>>], TextNode("caption", 5),
           TableNode([rows |-> 1, cols |-> 1, wire |-> <<>>, cells |-> <<Cell(0, 1, 0, 1, 1, 8)>>], 0),
           TextNode("text", 7), TextNode(tail, 0)>>) :
     outer \in {"section", "list", "ordered_list", "inline"}, up2 \in {0, 1}, up3 \in 0..2,
     second \in {"list_item", "text"}, deep \in BOOLEAN, tail \in {"list_item", "text"}}

-----------------------------------------------------------------------------
(* Transcripts: timed texts, some of one cue. *)

Transcripts ==
  {Build(<<TextNode(first, 0), [GroupNode("section", 0) EXCEPT !.layer = layer],
           [TextNode("text", 2) EXCEPT !.cue = a], [TextNode("text", up) EXCEPT !.cue = b],
           [TextNode("text", 0) EXCEPT !.cue = c]>>) :
     first \in {"title", "code", "text"}, layer \in {"body", "furniture"}, up \in {0, 2},
     a, b \in 0..2, c \in {1}}

DocumentsOf ==
  [nested |-> Nested, floats |-> Floats, tables |-> Tables, misplaced |-> Misplaced, transcripts |-> Transcripts]
MCDocuments == UNION {DocumentsOf[f] : f \in Families}
MCOptionSets == [breaks : BOOLEAN, layout : BOOLEAN] \ {[breaks |-> TRUE, layout |-> TRUE]}
=============================================================================
