---------------------------- MODULE OfficeMapper -----------------------------
(***************************************************************************)
(* The fold of one office stream into a Document: the router of            *)
(* docling_map.cpp and its end-of-stream sequence, the page fold, the      *)
(* collector that reads the stream (office_collector.cpp) and the pass     *)
(* that adds the figures a detector finds (office_cv_enrichment.cpp).      *)
(*                                                                         *)
(* A job is what the office worker has to say of one document: its type,   *)
(* its page rectangles, and the parts of its stream, each a sequence of    *)
(* events in its own order.  The parts interleave as the worker pleases;   *)
(* the rectangles come first and the status last.                          *)
(***************************************************************************)
EXTENDS SheetFold

CONSTANT Jobs

VARIABLES job, mapper, at, outcome

vars == <<job, mapper, at, outcome>>

NewMapper ==
  [doc |-> EmptyDocument, name |-> "", styles |-> {}, styled |-> {}, unknown |-> {},
   type |-> "", rects |-> <<>>, page_style |-> <<>>, images |-> {},
   data |-> <<>>, frames_seen |-> FALSE, floating |-> {}, slots |-> <<>>, starts |-> <<>>,
   table_spans |-> <<>>, writer_groups |-> <<>>, header_objects |-> {}, placed |-> <<>>,
   repeated |-> {}, blocks |-> <<>>, deferred |-> <<>>, comments_group |-> NoRef,
   graph |-> [cells |-> <<>>, links |-> <<>>], index |-> NoIndex,
   links |-> [replies |-> {}, comments |-> {}, fields |-> {}, changes |-> <<>>],
   slides |-> <<>>, first_slide |-> -1, slide_pictures |-> <<>>, deck_title |-> FALSE,
   draw_groups |-> <<>>, charts |-> <<>>, objects |-> <<>>, attachments |-> <<>>,
   sheets |-> <<>>, comment_groups |-> <<>>, ranges |-> <<>>, pivots |-> <<>>,
   finished |-> FALSE]

-----------------------------------------------------------------------------
(* page_fold.cpp: what of a page the other folds read. *)

\* The worker echoes the call's correlation id.
CallId == "call"
OnDocumentInfo(m, info) ==
  [m EXCEPT !.type = info.type, !.rects = info.rects, !.name = IF @ = "" THEN CallId ELSE @,
            !.doc.pages = [p \in DOMAIN info.rects |-> info.rects[p].h] @@ @,
            !.page_style = [p \in DOMAIN info.rects |-> ""] @@ @]

\* A page the rectangles do not name takes the size of its image.
OnPageImage(m, e) ==
  LET page == e.page + 1
      known == page \in DOMAIN m.doc.pages /\ m.doc.pages[page] > 0
      style == IF e.style # "" \/ page \notin DOMAIN m.page_style THEN e.style ELSE m.page_style[page]
  IN [m EXCEPT !.doc.pages = (page :> (IF known THEN m.doc.pages[page] ELSE e.height)) @@ @,
               !.page_style = (page :> style) @@ @,
               !.styled = IF e.style = "" THEN @ ELSE @ \cup {page},
               !.images = @ \cup {page}]

OnMetadata(m, e) == [m EXCEPT !.name = IF e.title = "" THEN @ ELSE e.title]
OnPageStyle(m, e) == [m EXCEPT !.styles = @ \cup {e.name}]

\* The pages whose style the catalogue, when there is one, does not declare.
ResolvePageStyles(m) ==
  [m EXCEPT !.unknown = {p \in m.styled : m.styles # {} /\ m.page_style[p] \notin m.styles}]

-----------------------------------------------------------------------------
(* docling_map.cpp. *)

\* on_status.
OnStatus(m) ==
  LET shapes == SizeEmptyTables(OrderSlides(FlushObjects(FlushCharts(m))))
      text == AnchorTrailingPictures(DeferToEnd(MarkHeaderRows(shapes)))
      placed == PlaceForm(PlaceHeadersFooters(text))
  IN [ResolvePageStyles(ResolveAnchors(ResolveNamedRangeSheets(placed))) EXCEPT !.finished = TRUE]

Init ==
  /\ job \in Jobs
  /\ mapper = NewMapper
  /\ at = [l \in DOMAIN job.parts |-> 0]
  /\ outcome = "open"

Streaming == outcome = "open" /\ mapper.type # "" /\ ~mapper.finished

DocumentInfo ==
  /\ outcome = "open"
  /\ mapper.type = ""
  /\ mapper' = OnDocumentInfo(mapper, job)
  /\ UNCHANGED <<job, at, outcome>>

\* The next event of part l is of this kind, and it is taken.
Event(l) == job.parts[l][at[l] + 1]
Due(l, kind) == Streaming /\ at[l] < Len(job.parts[l]) /\ Event(l).kind = kind
Take(l) == at' = [at EXCEPT ![l] = @ + 1] /\ UNCHANGED <<job, outcome>>
Parts == DOMAIN job.parts

PageImage == \E l \in Parts : Due(l, "page_image") /\ mapper' = OnPageImage(mapper, Event(l)) /\ Take(l)
Metadata == \E l \in Parts : Due(l, "metadata") /\ mapper' = OnMetadata(mapper, Event(l)) /\ Take(l)
PageStyle == \E l \in Parts : Due(l, "page_style") /\ mapper' = OnPageStyle(mapper, Event(l)) /\ Take(l)
Paragraph == \E l \in Parts : Due(l, "paragraph") /\ mapper' = OnParagraph(mapper, Event(l)) /\ Take(l)
Table == \E l \in Parts : Due(l, "table") /\ mapper' = OnTable(mapper, Event(l)) /\ Take(l)
EmbeddedImage == \E l \in Parts : Due(l, "image") /\ mapper' = OnEmbeddedImage(mapper, Event(l)) /\ Take(l)
Footnote == \E l \in Parts : Due(l, "footnote") /\ mapper' = OnFootnote(mapper, Event(l)) /\ Take(l)
HeaderFooter == \E l \in Parts : Due(l, "header_footer") /\ mapper' = OnHeaderFooter(mapper, Event(l)) /\ Take(l)
DocumentIndex == \E l \in Parts : Due(l, "index") /\ mapper' = OnDocumentIndex(mapper, Event(l)) /\ Take(l)
DrawingShape == \E l \in Parts : Due(l, "drawing") /\ mapper' = OnDrawingShape(mapper, Event(l)) /\ Take(l)
Slide == \E l \in Parts : Due(l, "slide") /\ mapper' = OnSlide(mapper, Event(l)) /\ Take(l)
SlideShape == \E l \in Parts : Due(l, "slide_shape") /\ mapper' = OnSlideShape(mapper, Event(l)) /\ Take(l)
TextFrame == \E l \in Parts : Due(l, "frame") /\ mapper' = OnTextFrame(mapper, Event(l)) /\ Take(l)
Shape == \E l \in Parts : Due(l, "shape") /\ mapper' = OnShape(mapper, Event(l)) /\ Take(l)
EmbeddedObject == \E l \in Parts : Due(l, "object") /\ mapper' = OnEmbeddedObject(mapper, Event(l)) /\ Take(l)
Sheet == \E l \in Parts : Due(l, "sheet") /\ mapper' = OnSheet(mapper, Event(l)) /\ Take(l)
SheetRow == \E l \in Parts : Due(l, "row") /\ mapper' = OnSheetRow(mapper, Event(l)) /\ Take(l)
NamedRange == \E l \in Parts : Due(l, "named_range") /\ mapper' = OnNamedRange(mapper, Event(l)) /\ Take(l)
DatabaseRange == \E l \in Parts : Due(l, "database_range") /\ mapper' = OnDatabaseRange(mapper, Event(l)) /\ Take(l)
CellComment == \E l \in Parts : Due(l, "cell_comment") /\ mapper' = OnCellComment(mapper, Event(l)) /\ Take(l)
SheetChart == \E l \in Parts : Due(l, "sheet_chart") /\ mapper' = OnSheetChart(mapper, Event(l)) /\ Take(l)
PivotTable == \E l \in Parts : Due(l, "pivot") /\ mapper' = OnPivotTable(mapper, Event(l)) /\ Take(l)
Comment == \E l \in Parts : Due(l, "comment") /\ mapper' = OnComment(mapper, Event(l)) /\ Take(l)
TrackedChange == \E l \in Parts : Due(l, "change") /\ mapper' = OnTrackedChange(mapper, Event(l)) /\ Take(l)
Bookmark == \E l \in Parts : Due(l, "bookmark") /\ mapper' = OnBookmark(mapper, Event(l)) /\ Take(l)
FormField == \E l \in Parts : Due(l, "field") /\ mapper' = OnFormField(mapper, Event(l)) /\ Take(l)

Status ==
  /\ Streaming
  /\ \A l \in Parts : at[l] = Len(job.parts[l])
  /\ mapper' = OnStatus(mapper)
  /\ UNCHANGED <<job, at, outcome>>

-----------------------------------------------------------------------------
(* office_cv_enrichment.cpp. *)

\* same_place: one holds the other's centre, or half of what they cover is
\* common.
SameArea(a, b) ==
  LET w == Min({a.r, b.r}) - Max({a.l, b.l})
      h == Min({a.b, b.b}) - Max({a.t, b.t})
      common == IF w > 0 /\ h > 0 THEN w * h ELSE 0
      Size(x) == (x.r - x.l) * (x.b - x.t)
      union == Size(a) + Size(b) - common
      Holds(x, y) == /\ y.l + y.r >= 2 * x.l /\ y.l + y.r <= 2 * x.r
                     /\ y.t + y.b >= 2 * x.t /\ y.t + y.b <= 2 * x.b
  IN \/ common > 0 /\ (Holds(a, b) \/ Holds(b, a))
     \/ union > 0 /\ 2 * common >= union

RegionBefore(a, b) ==
  \/ a.t < b.t
  \/ a.t = b.t /\ a.l < b.l
  \/ a.t = b.t /\ a.l = b.l /\ a.b < b.b
  \/ a.t = b.t /\ a.l = b.l /\ a.b = b.b /\ a.r <= b.r

\* append_figure, unless a picture of the page covers the place.
AddFigure(m, region, page, parent) ==
  LET ref == NewRef(m, "pictures")
      taken == UNION {{x \in ToSet(m.doc.pictures[i].prov) : x.page = page /\ HasArea(x)} :
                        i \in DOMAIN m.doc.pictures}
      prov == <<Entry(page - 1, region, <<>>)>>
  IN IF \E x \in taken : SameArea(x, region) THEN m
     ELSE [AddItem(m, "pictures", parent, "picture", "body", <<>>, prov) EXCEPT
             !.doc.pictures[ref[2]].sources = {"grparse"}]

\* enrich_office_document: the figures of each rendered page, in the slide's
\* group when the deck has one for every page, each read where it sits.
AnchorFigures(doc, added) ==
  LET Mine(c) == {r \in added : At(doc, r).parent = c}
      Anchor(d, c) == AnchorPictures(d, Mine(c), c)
  IN FoldLeft(Anchor, doc, SetToSeq({At(doc, r).parent : r \in added}))
AnchorFrom(m, known) ==
  [m EXCEPT !.doc = AnchorFigures(@, {<<"pictures", k>> : k \in (known + 1)..Len(@.pictures)})]
Enrich(m, figures) ==
  LET pages == SetToSortSeq(DOMAIN m.doc.pages, <)
      groups == SelectSeq(m.doc.body, LAMBDA c : c[1] = "groups" /\ At(m.doc, c).label = "slide")
      Parent(i) == IF groups # <<>> /\ Len(groups) = Len(pages) THEN groups[i] ELSE Body
      Regions(p) == IF p \in m.images /\ p \in DOMAIN figures /\ m.doc.pages[p] > 0
                    THEN SetToSortSeq(figures[p], RegionBefore) ELSE <<>>
      OnPage(acc, i) ==
        FoldLeft(LAMBDA a, r : AddFigure(a, r, pages[i], Parent(i)), acc, Regions(pages[i]))
  IN AnchorFrom(FoldLeft(OnPage, m, [i \in DOMAIN pages |-> i]), Len(m.doc.pictures))

-----------------------------------------------------------------------------
(* office_collector.cpp: what becomes of the stream. *)

\* A document still named after the call takes the name of its file.
FileName == "file"
NamedByFile(m) == [m EXCEPT !.name = IF @ = CallId THEN FileName ELSE @]

\* The stream closed in order behind its status.
Deliver ==
  /\ outcome = "open"
  /\ mapper.finished
  /\ mapper' = Enrich(NamedByFile(mapper), job.figures)
  /\ outcome' = "ok"
  /\ UNCHANGED <<job, at>>

\* The stream closed in order without one.
EndsEarly ==
  /\ outcome = "open"
  /\ ~mapper.finished
  /\ outcome' = "unavailable"
  /\ UNCHANGED <<job, mapper, at>>

\* The call failed, before or behind the status.
Fails ==
  /\ outcome = "open"
  /\ outcome' = "failed"
  /\ UNCHANGED <<job, mapper, at>>

Next ==
  \/ DocumentInfo \/ PageImage \/ Metadata \/ PageStyle \/ Paragraph \/ Table \/ EmbeddedImage \/ Footnote
  \/ HeaderFooter \/ DocumentIndex \/ DrawingShape \/ Slide \/ SlideShape \/ TextFrame
  \/ Shape \/ EmbeddedObject \/ Sheet \/ SheetRow \/ NamedRange \/ DatabaseRange
  \/ CellComment \/ SheetChart \/ PivotTable \/ Comment \/ TrackedChange \/ Bookmark
  \/ FormField \/ Status \/ Deliver \/ EndsEarly \/ Fails

Spec == Init /\ [][Next]_vars

-----------------------------------------------------------------------------
(* What the fold promises. *)

Doc == mapper.doc
Finished == mapper.finished
Events == UNION {ToSet(SubSeq(job.parts[l], 1, at[l])) : l \in DOMAIN job.parts}
Payloads(kinds) == {e.text : e \in {x \in Events : x.kind \in kinds}} \ {<<>>}
\* The events that came more than once.
Copies ==
  LET places == UNION {{l} \X (1..at[l]) : l \in DOMAIN job.parts}
      E(p) == job.parts[p[1]][p[2]]
  IN {E(p) : p \in {x \in places : \E y \in places \ {x} : E(y) = E(x)}}
Holders(payload) == {s \in Slots(Doc) : s[1] # "groups" /\ At(Doc, s).text = payload}

InGrid(data) ==
  \A c \in ToSet(data.cells) : c.row >= 0 /\ c.col >= 0 /\ c.row + c.row_span <= data.rows
                                /\ c.col + c.col_span <= data.cols

\* docling_map.h: the Document is structurally valid at any point in the
\* stream.  Every item hangs in the tree once, what hangs under the furniture
\* is furniture to the last leaf, however late a copy sends it there, and
\* every cell of a sheet or of a chart's data lies in its grid.
FoldKeepsTree ==
  /\ IntegrityErrors(Doc) = {}
  /\ \A r \in Roots : ~Repeats(Doc, r)
  /\ \A r \in Below(Doc, Furniture) \ {Furniture} : At(Doc, r).layer = "furniture"
  /\ \A t \in DOMAIN mapper.data : InGrid(mapper.data[t])

\* Once the stream is in, nothing waits any more, and what the worker sent is
\* in the Document once: objects and charts that streamed ahead of the shape
\* or the sheet that places them, copies of a header's object, which end in
\* the furniture, header blocks that waited for the pages of their style, and
\* the figures a detector finds where the document has none.  What is
\* delivered is named by its title or its file, never by the call.
FoldedOnce ==
  Finished =>
    /\ mapper.charts = <<>> /\ mapper.objects = <<>> /\ mapper.blocks = <<>>
    /\ \A p \in Payloads({"paragraph", "table", "image", "frame", "shape", "footnote", "index",
                          "object", "drawing", "sheet", "cell_comment", "comment", "field"}) :
         Cardinality(Holders(p)) = 1
    /\ \A e \in Copies : \A s \in Holders(e.text) : At(Doc, s).layer = "furniture"
    /\ \A i, j \in DOMAIN Doc.pictures : (i # j /\ "grparse" \in Doc.pictures[i].sources) =>
         \A p \in ToSet(Doc.pictures[i].prov), q \in ToSet(Doc.pictures[j].prov) :
           ~(p.page = q.page /\ SameArea(p, q))
    /\ \A e \in {x \in Events : x.kind = "header_footer"} :
         Cardinality(Holders(e.text)) =
           IF \E p \in DOMAIN Doc.pages : mapper.page_style[p] \in {"", e.style} THEN 1 ELSE 0
    /\ outcome = "ok" => mapper.name \in {e.title : e \in {x \in Events : x.kind = "metadata"}} \cup {FileName}

\* An anchor is resolved against the whole body, whichever came first: a
\* comment, a change and a field name the paragraph whose characters they
\* stand in and the range of it they cover, cut at its end; one that stands in
\* no paragraph names none, and a change is recorded all the same.  A reply
\* names the comment it answers, a reference the paragraph of the bookmark it
\* names, and a page a style that is declared or warned of.
ParagraphsAt(offset) ==
  {e \in Events : /\ e.kind = "paragraph" /\ e.text # <<>>
                  /\ e.offset <= offset /\ offset < e.offset + e.length}
TextAt(offset) == {s \in Slots(Doc) : \E e \in ParagraphsAt(offset) : At(Doc, s).text = e.text}
StandsAt(e) ==
  {[ref |-> s, from |-> e.start - p.offset, to |-> Min({e.end - p.offset, p.length})] :
     s \in TextAt(e.start), p \in ParagraphsAt(e.start)}
AnchorsResolve ==
  Finished =>
    /\ LET declared == {e.name : e \in {x \in Events : x.kind = "page_style"}}
       IN mapper.unknown = {e.page + 1 : e \in {x \in Events : /\ x.kind = "page_image" /\ x.style # ""
                                                          /\ declared # {} /\ x.style \notin declared}}
    /\ \A e \in {x \in Events : x.kind = "comment"} : \A c \in Holders(e.text) :
         /\ {k[2] : k \in {x \in mapper.links.comments : x[1] = c}} = StandsAt(e)
         /\ {k[2] : k \in {x \in mapper.links.replies : x[1] = c}} =
              UNION {Holders(x.text) : x \in {y \in Events : y.kind = "comment" /\ y.name = e.to}}
    /\ \A e \in {x \in Events : x.kind = "change"} :
         LET mine == SelectSeq(mapper.links.changes, LAMBDA c : c.id = e.name)
         IN Len(mine) = 1 /\ {mine[1].target} \ {NoTarget} = StandsAt(e)
    /\ \A e \in {x \in Events : x.kind = "field" /\ x.text # <<>>} : \A v \in Holders(e.text) :
         {k[2] : k \in {x \in mapper.links.fields : x[1] = At(Doc, v).parent}} = StandsAt(e)
    /\ \A e \in {x \in Events : x.kind = "paragraph" /\ x.refers # <<>>} :
         \A s \in Holders(e.text) :
           {At(Doc, s).spans[1].target} \ {NoRef} =
             UNION {TextAt(x.start) : x \in {y \in Events : y.kind = "bookmark" /\ y.name = e.refers[1]}}

\* Nothing of the stream is left over when its status came: each object is in
\* the Document once, and each name leads to what bears it.
FoldComplete == FoldedOnce /\ AnchorsResolve

\* The body of a text document, and every slide of a deck, reads down its
\* page whenever its parts came:
\* the lines in stream order, and a picture, a frame, a shape or an object
\* where the layout has it, never behind an item that begins below it or on a
\* later page.  A picture whose copy sends it to the furniture takes with it
\* the place blank lines wait behind, and is left out.
Reads(r, s) ==
  LET heights == DocumentPageHeights(Doc)
      p == ItemPlacement(Doc, r, heights)
      q == ItemPlacement(Doc, s, heights)
  IN (Placed(p) /\ Placed(q)) => (p.page < q.page \/ (p.page = q.page /\ p.box.t < q.box.b))
InReadingOrder(refs) == \A i, j \in DOMAIN refs : i < j => Reads(refs[i], refs[j])
ReadsAsLaidOut ==
  Finished =>
    /\ (mapper.type = "text" /\ \A r \in mapper.repeated : r[1] # "pictures") => InReadingOrder(Doc.body)
    /\ \A i \in DOMAIN mapper.slides : InReadingOrder(At(Doc, mapper.slides[i]).children)
=============================================================================
