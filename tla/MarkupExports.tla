--------------------------- MODULE MarkupExports ---------------------------
(***************************************************************************)
(* The exports that write an item where the tree links it and nothing      *)
(* below a text: HTML, DocTags, the Google Docs body and WebVTT.  Each is  *)
(* a step of the walk: the job taken off the stack, and the walk after it. *)
(***************************************************************************)
EXTENDS ExportWalk

-----------------------------------------------------------------------------
(* HTML (html_renderer.cpp). *)

NotePage(w, n) == IF FirstPage(n) > 0 THEN [w EXCEPT !.page = FirstPage(n)] ELSE w
\* note_group_page: the first text in the group that names a page; a nested
\* group counts only when it moves the page.
GroupPage(doc, g, page) ==
  LET noted[r \in Slots(doc), p \in {0} \cup DOMAIN doc.pages] ==
        LET Look(acc, c) ==
              IF acc.done \/ c \notin Slots(doc) THEN acc
              ELSE IF c[1] = "texts"
              THEN IF FirstPage(At(doc, c)) > 0
                   THEN [page |-> FirstPage(At(doc, c)), done |-> TRUE] ELSE acc
              ELSE IF c[1] = "groups"
              THEN LET q == noted[c, acc.page] IN [page |-> q, done |-> q # acc.page]
              ELSE acc
        IN FoldLeft(Look, [page |-> p, done |-> FALSE], At(doc, r).children).page
  IN noted[g, page]

\* add_element: the element remembers the page the walk was on.
Element(w, tokens) ==
  IF tokens = <<>> THEN w
  ELSE Put(w, AsTuple([i \in DOMAIN tokens |-> [tokens[i] EXCEPT !.at = <<w.page>> \o @]]))
Wrapped(tag, tokens) == <<Open(tag)>> \o tokens \o <<Close(tag)>>

HtmlText(doc, w, r) ==
  LET n == At(doc, r)
      on == NotePage(w, n)
      captions == Texts("figcaption", CaptionTexts(doc, n.captions))
      notes == Texts("footnote", CaptionBases(doc, n.footnotes))
      code == <<Text("pre", r)>>
  IN IF ExcludedLayer(n) THEN w
     ELSE CASE n.label = "code" ->
                 Element(Consume(on, Claimed(doc, n.captions \o n.footnotes)),
                         IF captions \o notes = <<>> THEN code
                         ELSE Wrapped("figure", code \o captions \o notes))
            [] n.label \in {"title", "section_header", "field_heading"} -> Element(on, <<Text("h", r)>>)
            [] n.label = "formula" -> Element(on, <<Text("formula", r)>>)
            [] n.label = "list_item" -> Element(on, Wrapped("ul", <<Text("li", r)>>))
            [] OTHER -> IF Empty(doc, r) THEN on ELSE Element(on, <<Text("p", r)>>)

HtmlTable(doc, w, r) ==
  LET n == At(doc, r)
      on == Consume(NotePage(w, n), Claimed(doc, n.captions \o n.footnotes))
      layout == TableGrid(n.data, w.budget)
      captions == Texts("caption", CaptionTexts(doc, n.captions))
      notes == Texts("footnote", CaptionBases(doc, n.footnotes))
  IN IF ExcludedLayer(n) THEN w
     ELSE IF layout.rows = 0 /\ captions = <<>> THEN Element(on, notes)
     ELSE [Element(on, Wrapped("table", captions \o GridCells(r, layout, n.data.cells)) \o notes)
             EXCEPT !.budget = layout.budget]

HtmlPicture(doc, w, r) ==
  LET n == At(doc, r) IN
  IF ExcludedLayer(n) THEN w
  ELSE Element(Consume(NotePage(w, n), Claimed(doc, n.captions \o n.footnotes)),
               Wrapped("figure", <<Mark("img", r)>> \o Texts("figcaption", CaptionTexts(doc, n.captions))
                                   \o Texts("footnote", CaptionBases(doc, n.footnotes))))

\* render_group: a list is one element, an inline group one paragraph, and
\* any other group only its children.
HtmlGroup(doc, w, r) ==
  LET n == At(doc, r)
      on == [w EXCEPT !.page = GroupPage(doc, r, @)]
      runs == SelectSeq(n.children, LAMBDA c : IsText(doc, c) /\ c \notin w.used)
  IN IF ExcludedLayer(n) THEN w
     ELSE IF ListGroup(n) THEN Between(on, "list", Visits("list", n.children))
     ELSE IF n.label = "inline"
     THEN Element(Consume(on, ToSet(runs)),
                  LET said == Texts("run", CaptionTexts(doc, runs))
                  IN IF said = <<>> THEN <<>> ELSE Wrapped("p", said))
     ELSE Push(w, Visits("block", n.children))

\* A child of a list: a nested list, whatever its layer, or a text; anything
\* else is passed over and not consumed.
HtmlListChild(doc, w, r) ==
  LET n == At(doc, r) IN
  IF r[1] = "groups" /\ ListGroup(n)
  THEN Between(Consume(w, {r}), "nested", Visits("list", n.children))
  ELSE IF r[1] = "texts"
       THEN IF ExcludedLayer(n) \/ IsCode(doc, r) THEN Consume(w, {r})
            ELSE Element(Consume(w, {r}), <<Text("li", r)>>)
       ELSE w

HtmlVisit(doc, w, job) ==
  LET r == job.ref IN
  IF r \in w.used THEN w
  ELSE IF job.tag = "list" THEN HtmlListChild(doc, w, r)
  ELSE CASE r[1] = "texts" -> HtmlText(doc, Consume(w, {r}), r)
         [] r[1] = "tables" -> HtmlTable(doc, Consume(w, {r}), r)
         [] r[1] = "pictures" -> HtmlPicture(doc, Consume(w, {r}), r)
         [] r[1] = "groups" -> HtmlGroup(doc, Consume(w, {r}), r)
         [] OTHER -> IF At(doc, r).label \in {"key_value", "form"}
                     THEN Element(Consume(w, {r}), <<Mark("missing", r)>>)
                     ELSE Push(Consume(w, {r}), Visits("block", At(doc, r).children))

\* render_split_page: what each page holds, in the order the pages first
\* appear; what came before any page joins the first one.
SplitPages(doc, w) ==
  LET said == SelectSeq(w.out, LAMBDA t : t.kind \notin {"open", "close"})
      named == SelectSeq(said, LAMBDA t : t.at[1] > 0)
      first == IF named # <<>> THEN named[1].at[1] ELSE Min(DOMAIN doc.pages \cup {1})
      Page(t) == IF t.at[1] = 0 THEN first ELSE t.at[1]
      order == FoldLeft(LAMBDA seen, t : IF Page(t) \in ToSet(seen) THEN seen ELSE Append(seen, Page(t)),
                        <<>>, said)
  IN [w EXCEPT !.out = FoldLeft(LAMBDA all, p : all \o SelectSeq(said, LAMBDA t : Page(t) = p), <<>>, order)]

-----------------------------------------------------------------------------
(* DocTags (doctags_renderer.cpp). *)

\* location_tokens: written when the item's first provenance names a page of
\* known size.
HasLocation(doc, n) == FirstPage(n) \in DOMAIN doc.pages /\ doc.pages[FirstPage(n)] > 0
Location(doc, r) == IF HasLocation(doc, At(doc, r)) THEN <<Token("loc", "loc", r, <<>>)>> ELSE <<>>

\* otsl_cells: the token of a cell at its own start, a continuation elsewhere.
OtslPosition(r, layout, cells, p) ==
  LET i == layout.grid[p]
      c == cells[i]
      down == Max({c.r0, 0}) # p[1]
      along == Max({c.c0, 0}) # p[2]
      At2(tag) == Token("cell", tag, r, Append(p, i))
  IN IF i = 0 THEN <<At2("ecel")>>
     ELSE IF ~down /\ ~along THEN <<At2(IF c.bytes = 0 THEN "ecel" ELSE "fcel")>>
     ELSE (IF down /\ c.colspan <= 1 THEN <<At2("ucel")>> ELSE <<>>)
          \o (IF along /\ c.rowspan <= 1 THEN <<At2("lcel")>> ELSE <<>>)
          \o (IF (down /\ c.colspan > 1) \/ (along /\ c.rowspan > 1) THEN <<At2("xcel")>> ELSE <<>>)
OtslCells(r, layout, cells) ==
  FoldLeft(LAMBDA tokens, p : tokens \o OtslPosition(r, layout, cells, p), <<>>, Positions(layout))

DocTagsFloat(doc, w, r, tag, body) ==
  LET n == At(doc, r)
      captions == Texts("caption", CaptionTexts(doc, n.captions))
      said == Location(doc, r) \o body \o captions
  IN Put(Consume(w, Claimed(doc, n.captions)), IF said = <<>> THEN <<>> ELSE Wrapped(tag, said))

\* render_ref after the caller consumed the reference.
DocTagsRender(doc, w, r) ==
  LET n == At(doc, r)
      layout == TableGrid(n.data, w.budget)
  IN IF ExcludedLayer(n) THEN w
     ELSE CASE r[1] = "texts" ->
                 Put(w, IF n.label = "list_item" THEN Wrapped("ul", <<Text("list_item", r)>>)
                        ELSE <<Text(n.label, r)>>)
            [] r[1] = "tables" ->
                 [DocTagsFloat(doc, w, r, "otsl", OtslCells(r, layout, n.data.cells))
                    EXCEPT !.budget = layout.budget]
            [] r[1] = "pictures" -> DocTagsFloat(doc, w, r, "picture", <<>>)
            [] r[1] = "groups" ->
                 IF ListGroup(n) THEN BetweenPruned(w, "list", Visits("list", n.children))
                 ELSE IF n.label = "inline" THEN BetweenPruned(w, "inline", Visits("inline", n.children))
                 ELSE Push(w, Visits("block", n.children))
            [] OTHER -> IF n.label = "key_value"
                        THEN Put(Consume(w, Claimed(doc, n.captions)),
                                 Wrapped("key_value_region", Location(doc, r)
                                           \o Texts("caption", CaptionTexts(doc, n.captions))))
                        ELSE w

\* Every child of a list is a list item of its own; a list item writes its
\* text bare.
DocTagsVisit(doc, w, job) ==
  LET r == job.ref
      c == Consume(w, {r})
  IN IF r \in w.used THEN w
     ELSE IF job.tag # "list" THEN DocTagsRender(doc, c, r)
     ELSE IF IsListEntry(doc, r)
     THEN IF ExcludedLayer(At(doc, r)) \/ (Empty(doc, r) /\ ~HasLocation(doc, At(doc, r))) THEN c
          ELSE Put(c, Wrapped("list_item", Location(doc, r) \o <<Text("bare", r)>>))
     ELSE DocTagsRender(doc, BetweenPruned(c, "list_item", <<>>), r)

-----------------------------------------------------------------------------
(* Google Docs (gdocs_renderer.cpp). *)

CONSTANT MaxNestingLevel   \* the deepest list level, 8 in the code
ASSUME NestingAssumption == MaxNestingLevel \in Nat

\* add_paragraph: one more element of body.content; said are the texts it
\* joins, bullet is <<list, level>> or <<>>.
Paragraph(w, tag, said, bullet) ==
  [Put(w, <<Token("open", tag, NoRef, bullet)>> \o Texts("run", said) \o <<Close(tag)>>)
     EXCEPT !.ordinal = @ + 1]
OpenList(w, enumerated) == [w EXCEPT !.lists = Append(@, <<enumerated>>)]

\* record_level: every level up to the one reached is declared.
RecordLevel(w, list, level, enumerated) ==
  [w EXCEPT !.lists[list] = @ \o [k \in 1..Max({0, level + 1 - Len(@)}) |-> enumerated]]

GdocsList(doc, w, r, list, level) ==
  LET n == At(doc, r)
      on == RecordLevel(w, list, level, OrderedList(doc, n))
  IN Push(on, AsTuple([i \in DOMAIN n.children |-> Job("visit", "list", n.children[i], <<list, level>>)]))

GdocsText(doc, w, r) ==
  LET n == At(doc, r) IN
  IF ExcludedLayer(n) THEN w
  ELSE CASE n.label = "list_item" ->
              LET on == OpenList(w, n.enumerated) IN Paragraph(on, "bullet", <<r>>, <<Len(on.lists), 0>>)
         [] n.label \in {"code", "title", "section_header", "field_heading"} -> Paragraph(w, n.label, <<r>>, <<>>)
         [] OTHER -> IF Empty(doc, r) THEN w ELSE Paragraph(w, "prose", <<r>>, <<>>)

GdocsTable(doc, w, r) ==
  LET n == At(doc, r)
      on == Consume(w, Claimed(doc, n.captions))
      layout == TableGrid(n.data, w.budget)
      captions == CaptionTexts(doc, n.captions)
      headed == IF captions = <<>> THEN on ELSE Paragraph(on, "prose", captions, <<>>)
  IN IF ExcludedLayer(n) THEN w
     ELSE IF layout.rows = 0 THEN headed
     ELSE [Put(headed, Wrapped("table", GridCells(r, layout, n.data.cells)))
             EXCEPT !.budget = layout.budget, !.ordinal = @ + 1]

\* A placeholder noted after its paragraph: a bug the ordinal must not have.
GdocsPictureLate(doc, w, r) ==
  LET n == At(doc, r)
      on == Paragraph(Consume(w, Claimed(doc, n.captions)), "picture", CaptionTexts(doc, n.captions), <<>>)
  IN IF ExcludedLayer(n) THEN w ELSE [on EXCEPT !.held = Append(@, [ref |-> r, at |-> on.ordinal])]

\* render_picture: the placeholder points at the paragraph about to be written.
GdocsPicture(doc, w, r) ==
  LET n == At(doc, r)
      on == [Consume(w, Claimed(doc, n.captions)) EXCEPT !.held = Append(@, [ref |-> r, at |-> w.ordinal])]
  IN IF ExcludedLayer(n) THEN w ELSE Paragraph(on, "picture", CaptionTexts(doc, n.captions), <<>>)

GdocsGroup(doc, w, r) ==
  LET n == At(doc, r)
      runs == SelectSeq(n.children, LAMBDA c : IsText(doc, c) /\ c \notin w.used)
      on == Consume(w, ToSet(runs))
  IN IF ExcludedLayer(n) THEN w
     ELSE IF ListGroup(n) THEN GdocsList(doc, OpenList(w, OrderedList(doc, n)), r, Len(w.lists) + 1, 0)
     ELSE IF n.label = "inline"
     THEN IF CaptionTexts(doc, runs) = <<>> THEN on ELSE Paragraph(on, "prose", CaptionTexts(doc, runs), <<>>)
     ELSE Push(w, Visits("block", n.children))

GdocsListChild(doc, w, job) ==
  LET r == job.ref
      n == At(doc, r)
      c == Consume(w, {r})
  IN IF r[1] = "groups" /\ ListGroup(n) /\ ~ExcludedLayer(n)
     THEN GdocsList(doc, c, r, job.at[1], Min({job.at[2] + 1, MaxNestingLevel}))
     ELSE IF r[1] # "texts" THEN w
     ELSE IF ExcludedLayer(n) \/ IsCode(doc, r) THEN c
     ELSE Paragraph(c, "bullet", <<r>>, job.at)

GdocsVisit(doc, w, job) ==
  LET r == job.ref
      c == Consume(w, {r})
  IN IF r \in w.used THEN w
     ELSE IF job.tag = "list" THEN GdocsListChild(doc, w, job)
     ELSE CASE r[1] = "texts" -> GdocsText(doc, c, r)
            [] r[1] = "tables" -> GdocsTable(doc, c, r)
            [] r[1] = "pictures" -> GdocsPicture(doc, c, r)
            [] r[1] = "groups" -> GdocsGroup(doc, c, r)
            [] OTHER -> IF At(doc, r).label \in {"key_value", "form"} THEN c
                        ELSE Push(c, Visits("block", At(doc, r).children))

-----------------------------------------------------------------------------
(* WebVTT (vtt_renderer.cpp). *)

\* Groups are walked whatever their layer; a timed text joins the open cue
\* when it names the same one, else it opens its own.
VttVisit(doc, w, job) ==
  LET r == job.ref
      n == At(doc, r)
      c == Consume(w, {r})
      cues == SelectSeq(w.out, LAMBDA t : t.kind = "text" /\ t.tag = "cue")
      joins == cues # <<>> /\ Last(cues).at = <<n.cue>>
  IN IF r \in w.used \/ r[1] \notin {"groups", "texts"} THEN w
     ELSE IF r[1] = "groups" THEN Push(c, Visits("block", n.children))
     ELSE IF ExcludedLayer(n) \/ IsCode(doc, r) \/ Empty(doc, r) THEN c
     ELSE IF n.label = "title" THEN Put(c, <<Mark("title", r)>>)
     ELSE IF n.cue = 0 THEN c
     ELSE Put(c, (IF joins THEN <<>> ELSE <<Token("open", "cue", NoRef, <<n.cue>>)>>)
                 \o <<Token("text", "cue", r, <<n.cue>>)>>)
=============================================================================
