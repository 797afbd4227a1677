------------------------------ MODULE DeckFold -------------------------------
(***************************************************************************)
(* Embedded objects and charts (office_fold/object_fold.cpp, chart_fold.cpp*)
(* and attachments.cpp), and the shapes of slides and drawings             *)
(* (shape_fold.cpp).                                                       *)
(*                                                                         *)
(* A deck streams its objects ahead of its slides, a workbook its charts   *)
(* ahead of the event that places them: each waits, by page, for the shape *)
(* or the sheet chart that claims it, and what nobody claims goes to its   *)
(* slide or sheet when the stream ends.                                    *)
(***************************************************************************)
EXTENDS WriterFold

SlideGroup(m, i) == IF i \in DOMAIN m.slides THEN m.slides[i] ELSE Body
NoSheetChart == [text |-> <<>>]

-----------------------------------------------------------------------------
(* Waiting by page. *)

Hold(pending, e) ==
  (e.page :> Append(IF e.page \in DOMAIN pending THEN pending[e.page] ELSE <<>>, e)) @@ pending
Waiting(pending, page) == IF page \in DOMAIN pending THEN pending[page] ELSE <<>>
\* A twip of slack covers the rounding between the two events.
SamePlace(p, q) == Near(p.x, q.x) /\ Near(p.y, q.y)
\* take_pending: the first that waits where the shape is, 0 for none.
Picked(pending, page, at) ==
  SelectInSeq(Waiting(pending, page), LAMBDA o : SamePlace(o.at, at))
\* The object taken stays: a bug take_pending must not have.
TakenKept(pending, page, i) == pending
Taken(pending, page, i) ==
  LET rest == RemoveAt(pending[page], i)
  IN [p \in DOMAIN pending \ (IF rest = <<>> THEN {page} ELSE {}) |->
        IF p = page THEN rest ELSE pending[p]]

-----------------------------------------------------------------------------
(* chart_fold.cpp. *)

Plain(text) == [row_span |-> 1, col_span |-> 1, text |-> text, value |-> "none"]
Number(text) == [Plain(text) EXCEPT !.value = "number"]
Heading(cell) == [cell EXCEPT !.header = TRUE]

\* fold_series: the category axis down the first column, a series in each
\* column behind it, the label row on top.  Categories the chart does not
\* name are numbered.
FoldSeries(chart) ==
  LET series == chart.series
      rows == Max({Len(chart.categories)} \cup {Len(series[i].values) : i \in DOMAIN series})
      corner == Heading(CellAt(0, 0, Plain(chart.x_title)))
      names == [i \in DOMAIN series |-> Heading(CellAt(0, i, Plain(<<series[i].label>>)))]
      RowHead(r) == CellAt(r, 0, Plain(IF r <= Len(chart.categories) THEN <<chart.categories[r]>> ELSE <<"number", r>>))
      Values(r) == [i \in DOMAIN series |->
                      IF r <= Len(series[i].values) THEN <<CellAt(r, i, Number(<<series[i].values[r]>>))>>
                      ELSE <<>>]
      body == [r \in 1..rows |-> <<RowHead(r)>> \o FlattenSeq(Values(r))]
  IN Data(rows + 1, Len(series) + 1, <<corner>> \o names \o FlattenSeq(body))

Clipped(cell, bottom, right) ==
  [cell EXCEPT !.row_span = Min({cell.row + @, bottom + 1}) - cell.row,
               !.col_span = Min({cell.col + @, right + 1}) - cell.col]

\* fold_sheet_range: the sheet's cells in the hull of the chart's ranges, cut
\* at its edge and counted from its corner.
FoldSheetRange(m, chart) ==
  LET ranges == ToSet(chart.ranges)
      sheet == m.data[m.sheets[chart.page].table]
      top == Min({r.top : r \in ranges})
      left == Min({r.left : r \in ranges})
      bottom == Max({r.bottom : r \in ranges})
      right == Max({r.right : r \in ranges})
      inside == SelectSeq(sheet.cells, LAMBDA c : c.row \in top..bottom /\ c.col \in left..right)
      Out(c) == LET cut == Clipped(c, bottom, right)
                IN [cut EXCEPT !.row = @ - top, !.col = @ - left,
                               !.header = @ \/ (chart.headed /\ c.row = top)]
  IN IF ranges = {} \/ chart.page \notin DOMAIN m.sheets \/ bottom < top \/ right < left
     THEN Data(0, 0, <<>>)
     ELSE Data(bottom - top + 1, right - left + 1, AsTuple([i \in DOMAIN inside |-> Out(inside[i])]))

\* name_corner: the sheet's header cell names an unnamed corner.
NameCorner(m, data, chart) ==
  LET over == SelectSeq(m.data[m.sheets[chart.page].table].cells,
                LAMBDA c : c.row = chart.ranges[1].top /\ c.col = chart.ranges[1].left /\ c.text # <<>>)
  IN IF ~chart.headed \/ chart.ranges = <<>> \/ data.cells[1].text # <<>> THEN data
     ELSE IF chart.page \notin DOMAIN m.sheets THEN data
     ELSE IF over = <<>> THEN data
     ELSE [data EXCEPT !.cells[1].text = over[1].text]

\* mark_tabular_headers.
TabularHeaders(data) ==
  [data EXCEPT !.cells = AsTuple([i \in DOMAIN @ |-> [@[i] EXCEPT !.header = data.cells[i].row = 0]])]

\* bind_chart_data: the series, else the chart's own grid, else the range of
\* the sheet it names.
BindChartData(m, object, chart) ==
  CASE object # NoSheetChart /\ object.chart.series # <<>> ->
         IF chart = NoSheetChart THEN FoldSeries(object.chart)
         ELSE NameCorner(m, FoldSeries(object.chart), chart)
    [] object # NoSheetChart /\ object.chart.series = <<>> /\ object.chart.grid.cells # <<>> ->
         TabularHeaders(FoldTable(object.chart.grid))
    [] OTHER -> IF chart = NoSheetChart THEN Data(0, 0, <<>>) ELSE FoldSheetRange(m, chart)

\* emit(): the chart's picture, its data as a table under it, its title as its
\* caption.
AddCaption(m, picture, layer, title, prov) ==
  IF title = <<>> THEN m
  ELSE [AddItem(m, "texts", picture, "caption", layer, title, prov) EXCEPT
          !.doc.pictures[picture[2]].captions = Append(@, NewRef(m, "texts"))]
EmitChart(m, object, chart, parent, layer, prov) ==
  LET picture == NewRef(m, "pictures")
      placed == object # NoSheetChart
      drawn == [AddItem(m, "pictures", parent, "chart", layer, IF placed THEN object.text ELSE chart.text, prov)
                  EXCEPT !.attachments = IF placed THEN Append(@, picture) ELSE @]
  IN AddCaption(AddTable(drawn, picture, layer, <<>>, prov, BindChartData(m, object, chart)),
                picture, layer, IF placed THEN object.chart.title ELSE <<>>, prov)

-----------------------------------------------------------------------------
(* object_fold.cpp. *)

ObjectBox(m, e, span) ==
  IF e.anchor # <<>> THEN Prov(m, e.page, FALSE, Box(e.anchor, e.size), span)
  ELSE Prov(m, e.page, TRUE, Box(e.at, e.size), span)

\* emit(): a formula is a text, an inner sheet a table, another object a
\* picture; each is an attachment.
EmitObject(m, e, parent, layer) ==
  LET arena == CASE e.what = "formula" -> "texts" [] e.what = "spreadsheet" -> "tables"
                 [] OTHER -> "pictures"
      prov == ObjectBox(m, e, <<0, IF e.what = "formula" THEN 1 ELSE 0>>)
      noted == [m EXCEPT !.attachments = Append(@, NewRef(m, arena))]
  IN CASE arena = "texts" -> AddItem(noted, arena, parent, "formula", layer, e.text, prov)
       [] arena = "tables" -> AddTable(noted, parent, layer, e.text, prov, FoldTable(e.table))
       [] OTHER -> AddItem(noted, arena, parent, "picture", layer, e.text, prov)

\* An object of a text document streams ahead of the body it sits in: what it
\* adds to the body is placed once the body is in (docling_map.cpp).
Deferred(m, before) ==
  IF m.type # "text" THEN m
  ELSE [m EXCEPT !.deferred = @ \o SubSeq(m.doc.body, before + 1, Len(m.doc.body))]

OnEmbeddedObject(m, e) ==
  LET home == IF e.header THEN Furniture ELSE Body
      layer == IF e.header THEN "furniture" ELSE "body"
  IN CASE e.what = "chart" /\ m.type \in {"spreadsheet", "presentation"} ->
            [m EXCEPT !.charts = Hold(@, e)]
       [] e.what = "chart" /\ m.type \notin {"spreadsheet", "presentation"} ->
            Deferred(EmitChart(m, e, NoSheetChart, home, layer, ObjectBox(m, e, <<0, 0>>)),
                     Len(m.doc.body))
       [] e.what # "chart" /\ m.type = "presentation" -> [m EXCEPT !.objects = Hold(@, e)]
       [] OTHER -> Deferred(EmitObject(m, e, home, layer), Len(m.doc.body))

\* flush(): what no shape and no sheet chart claimed, page by page.
ByPage(pending) ==
  LET pages == SetToSortSeq(DOMAIN pending, <)
  IN FlattenSeq([i \in DOMAIN pages |-> pending[pages[i]]])
FlushObjects(m) ==
  LET Emit(acc, e) == EmitObject(acc, e, SlideGroup(acc, e.page), "body")
  IN [FoldLeft(Emit, m, ByPage(m.objects)) EXCEPT !.objects = <<>>]
FlushCharts(m) ==
  LET Emit(acc, e) ==
        LET sheet == e.page \in DOMAIN m.sheets
        IN EmitChart(acc, e, NoSheetChart,
                     IF sheet THEN m.sheets[e.page].group ELSE SlideGroup(m, e.page),
                     IF sheet THEN m.sheets[e.page].layer ELSE "body",
                     Prov(m, e.page, TRUE, Box(e.at, e.size), <<0, 0>>))
  IN [FoldLeft(Emit, m, ByPage(m.charts)) EXCEPT !.charts = <<>>]

-----------------------------------------------------------------------------
(* shape_fold.cpp. *)

OnSlide(m, e) ==
  [AddItem(m, "groups", Body, "slide", "body", <<>>, <<>>) EXCEPT
     !.slides = (e.page :> NewRef(m, "groups")) @@ @,
     !.first_slide = IF @ < 0 \/ e.page < @ THEN e.page ELSE @]

\* take_slide_picture: the graphic shape's picture the image fills in.
SlidePictureAt(m, e) ==
  {k \in DOMAIN m.slide_pictures : k[1] = e.page /\ SamePlace(k[2], e.anchor)}

\* on_embedded_image of a deck.
OnSlideImage(m, e) ==
  LET at == IF e.anchor = <<>> THEN {} ELSE SlidePictureAt(m, e)
      taken == CHOOSE k \in at : \A j \in at : k[2].x < j[2].x \/ (k[2].x = j[2].x /\ k[2].y <= j[2].y)
      parent == SlideGroup(m, e.page)
      prov == CASE e.anchor # <<>> -> Prov(m, e.page, TRUE, Box(e.anchor, e.size), <<0, 0>>)
                [] e.anchor = <<>> /\ e.lines # <<>> -> LineProv(m, e.lines, 0)
                [] OTHER -> <<>>
  IN IF at # {}
     THEN [m EXCEPT !.doc.pictures[m.slide_pictures[taken][2]].text = e.text,
                    !.slide_pictures = [k \in DOMAIN @ \ {taken} |-> @[k]]]
     ELSE AddItem(m, "pictures", parent, "picture", "body", e.text, prov)

OnEmbeddedImage(m, e) == IF m.type = "presentation" THEN OnSlideImage(m, e) ELSE OnWriterImage(m, e)

\* add_placeholder_picture: a graphic shape waits for its image.
AddPlaceholderPicture(m, e, parent, layer, prov) ==
  [AddItem(m, "pictures", parent, "picture", layer, <<>>, prov) EXCEPT
     !.slide_pictures = IF e.shape # "GraphicObjectShape" THEN @
                        ELSE (<<e.page, e.at>> :> NewRef(m, "pictures")) @@ @]

\* A shape's lines are those of its paragraphs that are not blank.  The deck's
\* title is the first title of its first slide.
AddShapeText(m, e, lines, parent, layer, prov) ==
  LET title == e.role = "title" /\ ~e.notes
      deck == title /\ ~m.deck_title /\ e.page = m.first_slide
      label == IF deck THEN "title" ELSE IF title THEN "section_header" ELSE "text"
  IN [AddItem(m, "texts", parent, label, layer, lines, prov) EXCEPT !.deck_title = @ \/ deck]

AddOutlineParagraphs(m, lines, parent, layer, prov) ==
  FoldLeft(LAMBDA acc, p : AddItem(acc, "texts", parent, "list_item", layer, <<p>>, prov), m, lines)

DrawnShapeTypes == {"GraphicObjectShape", "OLE2Shape", "TableShape", "MediaShape"}

\* A shape that takes a chart leaves an object that waits there alone.
OnSlideShape(m, e) ==
  LET parent == SlideGroup(m, e.page)
      layer == IF e.notes THEN "notes" ELSE "body"
      page == IF e.notes THEN -1 ELSE e.page
      Where(n) == Prov(m, page, TRUE, Box(e.at, e.size), <<0, n>>)
      lines == SelectSeq(e.text, LAMBDA p : p # "")
      chart == IF e.shape = "OLE2Shape" THEN Picked(m.charts, e.page, e.at) ELSE 0
      object == IF e.shape = "OLE2Shape" THEN Picked(m.objects, e.page, e.at) ELSE 0
  IN CASE e.empty_placeholder -> m
       [] ~e.empty_placeholder /\ e.table # <<>> ->
            AddTable(m, parent, layer, e.table.text, Where(0), FoldTable(e.table))
       [] ~e.empty_placeholder /\ e.table = <<>> /\ chart > 0 ->
            EmitChart([m EXCEPT !.charts = Taken(@, e.page, chart)], m.charts[e.page][chart],
                      NoSheetChart, parent, layer, Where(0))
       [] ~e.empty_placeholder /\ e.table = <<>> /\ chart = 0 /\ object > 0 ->
            EmitObject([m EXCEPT !.objects = Taken(@, e.page, object)], m.objects[e.page][object],
                       parent, layer)
       [] ~e.empty_placeholder /\ e.table = <<>> /\ chart = 0 /\ object = 0 /\ lines = <<>> ->
            IF e.shape \in DrawnShapeTypes THEN AddPlaceholderPicture(m, e, parent, layer, Where(0)) ELSE m
       [] OTHER ->
            IF e.role = "outline" THEN AddOutlineParagraphs(m, lines, parent, layer, Where(1))
            ELSE AddShapeText(m, e, lines, parent, layer, Where(2 * Len(lines) - 1))

\* One pass of neighbours: a shape wholly to the left of the one before it and
\* within half a line of its top comes first.
SwapRow(placed) ==
  LET Swap(s, i) ==
        LET a == s[i].box
            b == s[i + 1].box
        IN IF b.r <= a.l /\ 2 * (b.t - a.t) < Min({a.b - a.t, b.b - b.t})
           THEN [s EXCEPT ![i] = s[i + 1], ![i + 1] = s[i]] ELSE s
  IN FoldLeft(Swap, placed, [i \in 1..(Len(placed) - 1) |-> i])

\* order_slides: by top edge, rows left to right until nothing moves, what has
\* no box behind.  A pass moves a shape by one place or more, so as many
\* passes as there are pairs suffice.
ByTop(children, place) ==
  LET Above(c, d) == \/ place[c].box.t < place[d].box.t
                     \/ place[c].box.t = place[d].box.t /\ SeqIndex(children, c) < SeqIndex(children, d)
  IN SetToSortSeq(ToSet(children), Above)
InRows(sorted) ==
  LET n == Len(sorted)
  IN FoldLeft(LAMBDA s, i : SwapRow(s), sorted, [i \in 1..((n * (n - 1)) \div 2) |-> i])
OrderSlide(doc, group, place) ==
  LET children == At(doc, group).children
      placed == SelectSeq(children, LAMBDA c : Placed(place[c]))
      boxes == [i \in DOMAIN placed |-> [ref |-> ByTop(placed, place)[i], box |-> place[ByTop(placed, place)[i]].box]]
      unplaced == SelectSeq(children, LAMBDA c : ~Placed(place[c]))
      Refs(s) == [i \in DOMAIN s |-> s[i].ref]
  IN IF Len(placed) < 2 THEN doc
     ELSE WithChildren(doc, group, Refs(InRows(AsTuple(boxes))) \o unplaced)

OrderSlidesAt(m, place) ==
  LET Order(doc, group) == OrderSlide(doc, group, place)
  IN [m EXCEPT !.doc = FoldLeft(Order, @, SetToSeq({m.slides[i] : i \in DOMAIN m.slides}))]
OrderSlides(m) == OrderSlidesAt(m, Placements(m.doc))

OnDrawingShape(m, e) ==
  LET path == <<e.page, e.path>>
      parent == IF path \in DOMAIN m.draw_groups THEN m.draw_groups[path] ELSE Body
      prov == Prov(m, e.page, TRUE, Box(e.at, e.size), <<0, 0>>)
  IN CASE e.is_group ->
            [AddItem(m, "groups", parent, "picture_area", "body", <<>>, <<>>) EXCEPT
               !.draw_groups = (<<e.page, ChildPath(e)>> :> NewRef(m, "groups")) @@ @]
       [] ~e.is_group /\ ~Blank(e) -> AddItem(m, "texts", parent, "text", "body", e.text, prov)
       [] OTHER -> AddItem(m, "pictures", parent, "picture", "body", <<>>, prov)
=============================================================================
