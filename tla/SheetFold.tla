------------------------------ MODULE SheetFold ------------------------------
(***************************************************************************)
(* The sheets of a workbook (office_fold/sheet_fold.cpp): one group and one*)
(* table for each, rows, ranges, cell comments and charts, and the rows    *)
(* that head a sheet (sheet_header_band.cpp).                              *)
(***************************************************************************)
EXTENDS DeckFold

CONSTANT MaxHeaderBandRows   \* kMaxHeaderBandRows

SheetGroup(m, i) == IF i \in DOMAIN m.sheets THEN m.sheets[i].group ELSE Body
SheetLayer(m, i) == IF i \in DOMAIN m.sheets THEN m.sheets[i].layer ELSE "body"

OnSheet(m, e) ==
  LET group == NewRef(m, "groups")
      layer == IF e.visible THEN "body" ELSE "invisible"
      headed == AddItem(m, "groups", Body, "sheet", layer, <<>>, <<>>)
  IN [AddTable(headed, group, layer, e.text, PageProv(e.page, <<0, 0>>), Data(e.rows, e.cols, <<>>))
        EXCEPT !.sheets = (e.page :> [group |-> group, table |-> NewRef(m, "tables"),
                                      layer |-> layer, comments |-> NoRef, name |-> e.name]) @@ @]

\* The table grows to hold what the row places.
Grown(data, cells) ==
  [data EXCEPT !.cells = @ \o cells,
               !.rows = Max({@} \cup {c.row + c.row_span : c \in ToSet(cells)}),
               !.cols = Max({@} \cup {c.col + c.col_span : c \in ToSet(cells)})]

OnSheetRow(m, e) ==
  LET cells == AsTuple([i \in DOMAIN e.cells |-> CellAt(e.row, e.cells[i].col, e.cells[i])])
  IN IF e.page \notin DOMAIN m.sheets THEN m
     ELSE [m EXCEPT !.data[m.sheets[e.page].table] = Grown(@, cells)]

\* Named and database ranges; the sheet one names may come later.
OnRange(m, e) == [m EXCEPT !.ranges = Append(@, [e EXCEPT !.name = ""])]
OnNamedRange(m, e) == OnRange(m, [e EXCEPT !.headed = FALSE])
OnDatabaseRange(m, e) == OnRange(m, e)

\* One comment section for each sheet, and a link from the sheet's table.
OnCellComment(m, e) ==
  LET known == e.page \in DOMAIN m.sheets
      section == IF e.page \in DOMAIN m.comment_groups THEN m.comment_groups[e.page] ELSE NewRef(m, "groups")
      layer == SheetLayer(m, e.page)
      opened == IF e.page \in DOMAIN m.comment_groups THEN m
                ELSE [AddItem(m, "groups", SheetGroup(m, e.page), "comment_section", layer, <<>>, <<>>)
                        EXCEPT !.comment_groups = (e.page :> section) @@ @]
      ref == NewRef(m, "texts")
      added == AddItem(opened, "texts", section, "text", layer, e.text, PageProv(e.page, <<>>))
  IN IF ~known THEN added
     ELSE [added EXCEPT !.doc.tables[m.sheets[e.page].table[2]].captions = Append(@, ref)]

\* on_chart: the chart that waits on the sheet, first come first, or one that
\* only names a range.
OnSheetChart(m, e) ==
  LET waiting == Waiting(m.charts, e.page)
  IN EmitChart(IF waiting = <<>> THEN m ELSE [m EXCEPT !.charts = Taken(@, e.page, 1)],
               IF waiting = <<>> THEN NoSheetChart ELSE waiting[1], e,
               SheetGroup(m, e.page), SheetLayer(m, e.page),
               IF waiting = <<>> THEN PageProv(e.page, <<0, 0>>)
               ELSE Prov(m, e.page, TRUE, Box(waiting[1].at, waiting[1].size), <<0, 0>>))

OnPivotTable(m, e) == [m EXCEPT !.pivots = Append(@, e.text)]

-----------------------------------------------------------------------------
(* What is settled when every row is in. *)

SizeEmptyTables(m) ==
  [m EXCEPT !.data = [t \in DOMAIN @ |->
     IF (\E i \in DOMAIN m.sheets : m.sheets[i].table = t) /\ @[t].cells = <<>>
     THEN Data(0, 0, <<>>) ELSE @[t]]]

ResolveNamedRangeSheets(m) ==
  [m EXCEPT !.ranges = AsTuple([i \in DOMAIN @ |->
     IF @[i].page \in DOMAIN m.sheets THEN [@[i] EXCEPT !.name = m.sheets[m.ranges[i].page].name] ELSE @[i]])]

\* A row reduced to what the band rule reads.
LabelCell(c) == c.value = "none" /\ c.text # <<>>
QuantityCell(c) == c.value = "number"
FilledCell(c) == c.value # "none" \/ c.text # <<>>
RowShape(cells, row) ==
  LET mine == {i \in DOMAIN cells : cells[i].row = row /\ FilledCell(cells[i])}
      labels == {i \in mine : LabelCell(cells[i])}
  IN [index |-> row, labels |-> Cardinality(labels),
      quantities |-> Cardinality({i \in mine : QuantityCell(cells[i])}),
      coverage |-> MapThenSumSet(LAMBDA i : cells[i].col_span, mine),
      group_line |-> \E i \in labels : cells[i].col_span >= 2]
WideLabels(s, width) == s.labels >= 2 /\ s.quantities = 0 /\ s.coverage * 2 >= width

\* nearest_label_run: upwards from the data, the nearest unbroken run of wide
\* label rows.
NearestLabelRun(shapes, data, width) ==
  LET wide == {i \in 1..(data - 1) : WideLabels(shapes[i], width)}
      last == Max(wide)
      first == Min({i \in wide : \A j \in i..last : j \in wide /\
                      (j < last => shapes[j].index + 1 = shapes[j + 1].index)})
  IN IF wide = {} THEN <<>> ELSE SubSeq(shapes, first, last)

\* band_prefix: a line joins while it is denser than the line above or that is
\* a group line.
BandPrefix(run) ==
  LET Joins(i) == i = 1 \/ run[i].labels > run[i - 1].labels \/ run[i - 1].group_line
      stops == {i \in DOMAIN run : ~Joins(i) \/ i > MaxHeaderBandRows}
  IN IF stops = {} THEN run ELSE SubSeq(run, 1, Min(stops) - 1)

TextBand(shapes) ==
  LET width == Max({s.coverage : s \in ToSet(shapes)})
      first == shapes[1]
      second == Len(shapes) > 1 /\ shapes[2].index = first.index + 1 /\ WideLabels(shapes[2], width)
      band == BandPrefix(IF second THEN SubSeq(shapes, 1, 2) ELSE <<first>>)
      n == Len(band)
  IN IF /\ WideLabels(first, width) /\ first.coverage >= width
        /\ Len(shapes) >= n + 2
        /\ \A i \in 1..2 : shapes[n + i].labels >= 2 /\ shapes[n + i].index = Last(band).index + i
     THEN band ELSE <<>>

\* header_band_rows.
HeaderBand(shapes) ==
  LET width == Max({0} \cup {s.coverage : s \in {x \in ToSet(shapes) : x.quantities > 0}})
      data == SelectInSeq(shapes, LAMBDA s : s.quantities > 0 /\ s.coverage * 2 >= width)
      band == BandPrefix(NearestLabelRun(shapes, data, width))
      densest == Max({0} \cup {s.labels : s \in ToSet(band)})
  IN IF Len(shapes) < 2 THEN <<>>
     ELSE IF data = 0 THEN TextBand(shapes)
     ELSE IF densest > shapes[data].labels THEN band ELSE <<>>

\* mark_inferred_header: a lone label over the whole width on top is a section
\* row; the rule reads the rows under it.
InferredHeader(data) ==
  LET rows == SetToSortSeq({c.row : c \in ToSet(data.cells)}, <)
      top == {i \in DOMAIN data.cells : data.cells[i].row = rows[1]}
      lone == /\ Cardinality(top) = 1
              /\ \A i \in top : LabelCell(data.cells[i]) /\ data.cells[i].col_span >= 2 /\
                                data.cells[i].col_span >= data.cols
      read == IF lone THEN Tail(rows) ELSE rows
      shapes == SelectSeq(AsTuple([i \in DOMAIN read |-> RowShape(data.cells, read[i])]),
                          LAMBDA s : s.coverage > 0)
      band == HeaderBand(shapes)
      heads == {band[i].index : i \in DOMAIN band}
      Mark(c) == [c EXCEPT !.header = @ \/ c.row \in heads, !.section = lone /\ c.row = rows[1]]
  IN [data EXCEPT !.cells = AsTuple([i \in DOMAIN @ |-> Mark(@[i])])]

\* mark_header_rows: a database range that declares a header names the row,
\* and then nothing is inferred.
MarkHeaderRows(m) ==
  LET SheetOf(t) == {i \in DOMAIN m.sheets : m.sheets[i].table = t}
      Declared(t) == {r \in ToSet(m.ranges) : r.headed /\ r.page \in SheetOf(t)}
      Mark(t, c) == [c EXCEPT !.header = @ \/ \E r \in Declared(t) :
                                c.row = r.top /\ c.col \in r.left..r.right]
  IN [m EXCEPT !.data = [t \in DOMAIN @ |->
        IF SheetOf(t) = {} \/ @[t].cells = <<>> THEN @[t]
        ELSE IF Declared(t) = {} THEN InferredHeader(@[t])
        ELSE [@[t] EXCEPT !.cells = AsTuple([i \in DOMAIN @ |-> Mark(t, @[i])])]]]
=============================================================================
