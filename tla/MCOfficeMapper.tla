--------------------------- MODULE MCOfficeMapper ----------------------------
(***************************************************************************)
(* Small office documents: letters with pictures in blank lines and beside *)
(* their text, frames, header copies, notes and anchors; decks; workbooks; *)
(* drawings.  Pages are 10 wide and 100 high, one below the other.         *)
(***************************************************************************)
EXTENDS OfficeMapper

P(x, y) == [x |-> x, y |-> y]
Rects(n) == [i \in 1..n |-> [x |-> 0, y |-> 100 * (i - 1), w |-> 10, h |-> 100]]
Job(type, pages, parts, figures) ==
  [type |-> type, rects |-> Rects(pages), parts |-> parts, figures |-> figures]
NoFigures == <<>>
Region(l, t) == [l |-> l, t |-> t, r |-> l + 4, b |-> t + 8]
PageOfY(y) == y \div 100

Line(y) == [page |-> PageOfY(y), at |-> P(0, y), size |-> P(8, 6), from |-> 0, to |-> 4]
Para(name, y) ==
  [kind |-> "paragraph", page |-> PageOfY(y), start |-> P(0, y), end |-> P(8, y), text |-> <<name>>,
   style |-> "", outline |-> 0, list |-> -1, offset |-> y, length |-> 4, lines |-> <<Line(y)>>,
   refers |-> <<>>]
BlankLine(y) == [Para("", y) EXCEPT !.text = <<>>, !.lines = <<>>, !.length = 0]
Image(name, page, anchor) ==
  [kind |-> "image", page |-> page, anchor |-> anchor, size |-> P(4, 8), text |-> <<name>>,
   name |-> "", header |-> FALSE, path |-> <<>>, lines |-> <<>>]
Frame(name, y) ==
  [kind |-> "frame", name |-> name, text |-> <<name>>, size |-> P(4, 8), page |-> PageOfY(y),
   anchor |-> P(5, y), header |-> FALSE, length |-> 4, refers |-> <<>>]
DrawnShape(name, y) ==
  [kind |-> "shape", name |-> name, text |-> <<name>>, size |-> P(4, 8), page |-> PageOfY(y),
   anchor |-> P(5, y), header |-> FALSE, length |-> 4, refers |-> <<>>, path |-> <<>>, z |-> 1,
   is_group |-> FALSE, positioned |-> FALSE]
Cell(row, col, rows, cols, name) ==
  [row |-> row, col |-> col, anchor |-> [row |-> -1, col |-> -1], row_span |-> rows,
   col_span |-> cols, text |-> name, value |-> "none"]
Grid(rows, cols, cells) == [rows |-> rows, cols |-> cols, cells |-> cells, text |-> <<>>]
NoGrid == Grid(0, 0, <<>>)
TableAt(name, y) ==
  [kind |-> "table", page |-> PageOfY(y), start |-> P(0, y), end |-> P(8, y + 10), text |-> <<name>>,
   lines |-> <<[Line(y) EXCEPT !.size = P(8, 16)]>>,
   table |-> Grid(1, 2, <<Cell(0, 0, 1, 1, <<"a">>), [Cell(-1, -1, 1, 1, <<"b">>) EXCEPT
                                                       !.anchor = [row |-> 0, col |-> 1]],
                         Cell(-1, -1, 1, 1, <<"odd">>)>>)]
Note(kind, name, y) ==
  [kind |-> kind, page |-> PageOfY(y), anchor |-> P(0, y), text |-> <<name>>, length |-> 4]
Running(name, style, footer) ==
  [kind |-> "header_footer", text |-> <<name>>, style |-> style, footer |-> footer]
StyleOf(name) == [kind |-> "page_style", name |-> name]
Titled(title) == [kind |-> "metadata", title |-> title]
PageOf(page, style) == [kind |-> "page_image", page |-> page, style |-> style, height |-> 100]
Remark(name, to, start) ==
  [kind |-> "comment", text |-> <<name>>, page |-> 0, anchor |-> P(0, 0), name |-> name, to |-> to,
   start |-> start, end |-> start + 2]
Mark(kind, name, start) == [kind |-> kind, name |-> name, start |-> start, end |-> start + 2]
Field(name, label, y, start) ==
  [kind |-> "field", label |-> label, text |-> <<name>>, checkbox |-> FALSE, checked |-> FALSE,
   control |-> FALSE, page |-> PageOfY(y), anchor |-> P(0, y), size |-> P(4, 8), start |-> start,
   end |-> start + 2]
NoChart == [series |-> <<>>, categories |-> <<>>, x_title |-> <<>>, title |-> <<>>, grid |-> NoGrid]
Embedded(what, name, page, at_, anchor) ==
  [kind |-> "object", what |-> what, page |-> page, at |-> at_, anchor |-> anchor, size |-> P(4, 8),
   header |-> FALSE, text |-> <<name>>, table |-> Grid(1, 1, <<Cell(0, 0, 1, 1, <<"in">>)>>),
   chart |-> NoChart]

-----------------------------------------------------------------------------
(* Text documents. *)

Letter == <<Para("p1", 0), BlankLine(14), BlankLine(24), Para("p2", 40)>>
\* Pictures in blank lines, one beside a line, one in a table, and copies.
LetterPictures ==
  {<<Image("i1", 0, P(0, 10)), Image("i2", 0, P(0, 20))>>,
   <<Image("i2", 0, P(0, 20)), Image("i1", 0, P(0, 10))>>,
   <<Image("i1", 0, P(0, 0)), Image("i2", 0, P(0, 34))>>,
   <<Image("i1", 0, P(0, 10)), Image("i1", 0, P(0, 10)), Image("i2", 0, P(0, 20))>>,
   <<[Image("i1", 0, P(0, 4)) EXCEPT !.header = TRUE],
     [Image("i1", 1, P(0, 104)) EXCEPT !.header = TRUE]>>,
   <<Image("i1", 1, P(0, 30)), Image("i2", 0, <<>>)>>}
\* Pictures, frames and shapes stream behind the text, objects ahead of it or
\* in between.
LetterJobs ==
  {Job("text", 2, <<Letter \o pictures, <<Remark("c1", "", 1)>>, objects>>, NoFigures) :
     pictures \in LetterPictures,
     objects \in {<<>>, <<Embedded("other", "o1", 0, P(5, 16), P(5, 16))>>}}

Report == <<Para("p1", 0), TableAt("t1", 20), Para("p2", 50), Para("p3", 110)>>
ReportFloats ==
  {<<Frame("f1", 10), Frame("f2", 130)>>,
   <<Frame("f1", 60), Frame("f1", 60)>>,
   <<[Frame("f1", 2) EXCEPT !.header = TRUE], [Frame("f1", 102) EXCEPT !.header = TRUE], Frame("f2", 42)>>,
   <<[DrawnShape("s1", 10) EXCEPT !.is_group = TRUE, !.text = <<>>],
     [DrawnShape("s2", 42) EXCEPT !.path = <<1>>, !.positioned = TRUE],
     [DrawnShape("s3", 60) EXCEPT !.z = 2]>>,
   <<Image("i1", 0, P(0, 24)), DrawnShape("s1", 60)>>,
   <<[DrawnShape("s1", 2) EXCEPT !.header = TRUE], [DrawnShape("s1", 2) EXCEPT !.header = TRUE],
     [DrawnShape("s2", 60) EXCEPT !.path = <<4>>], [DrawnShape("s2", 60) EXCEPT !.path = <<4>>]>>}
ReportObjects ==
  {<<Embedded("chart", "c1", 0, P(0, 60), P(0, 60)), Embedded("formula", "o1", 0, P(0, 12), P(0, 12)),
     Embedded("other", "o2", 1, P(0, 20), P(0, 120))>>,
   <<[Embedded("spreadsheet", "o1", 0, P(0, 60), P(0, 60)) EXCEPT !.header = TRUE]>>}
ReportJobs ==
  {Job("text", 2, <<Report \o floats, objects>>, NoFigures) : floats \in ReportFloats, objects \in ReportObjects}

\* A table a frame holds, notes, an index, running heads, a form and a
\* detected figure.
FormJobs ==
  {Job("text", 2, <<<<Para("p1", 0), Note("footnote", "n1", 90), Note("index", "x1", 110),
                      [Frame("f1", 20) EXCEPT !.text = <<>>], TableAt("t1", 20)>>,
                    <<Running("h1", "first", FALSE), Running("h2", "rest", TRUE), Running("h3", "gone", FALSE)>>,
                    <<PageOf(0, "first"), PageOf(1, "rest")>> \o declared>>,
       1 :> {Region(0, 60), Region(2, 62)}) : declared \in {<<>>, <<StyleOf("first")>>}} \cup
  {Job("text", 1, <<<<Para("p1", 0), Para("p2", 40), Image("i1", 0, P(0, 60))>>,
                    <<Field("v1", <<"k1">>, 20, 41), Field("v2", <<>>, 60, -1)>>,
                    <<PageOf(0, ""), Titled(title)>>>>,
       1 :> {Region(1, 62), Region(0, 20)}) : title \in {"", "t"}}

\* Lines no layout measured, the last across two pages, and controls.
Unmeasured(name, y, end, style, outline, list) ==
  [Para(name, y) EXCEPT !.lines = <<>>, !.end = P(8, end), !.style = style, !.outline = outline, !.list = list]
OutlineJobs ==
  {Job("text", 2, <<<<Unmeasured("p1", 0, 6, "Title", 0, -1), Unmeasured("p2", 20, 26, "", 1, -1),
                      Unmeasured("p3", 40, 46, "", 0, 0), Unmeasured("p4", 60, 110, "", 0, -1),
                      Image("i1", 0, P(5, 30))>>,
                    <<[Field("v1", <<"k1">>, 70, -1) EXCEPT !.control = TRUE, !.checkbox = TRUE],
                      [Field("v2", <<>>, 80, -1) EXCEPT !.control = TRUE, !.checkbox = TRUE, !.checked = TRUE]>>>>,
       NoFigures)}

\* Anchors: comments, replies, bookmarks, changes and references come in
\* their own parts, ahead of the text or behind it.
AnchorJobs ==
  {Job("text", 1, <<<<[Para("p1", 0) EXCEPT !.refers = <<"b1">>], BlankLine(20), Para("p2", 40)>>,
                    <<Remark("c1", "", s), Remark("c2", "c1", -1)>>,
                    <<Mark("bookmark", "b1", 41), Mark("change", "d1", 3),
                      Mark("change", "d2", 22)>>,
                    <<Field("v1", <<"k1">>, 20, s)>>>>, NoFigures) : s \in {1, 4, 20, 42}}

-----------------------------------------------------------------------------
(* Decks and drawings. *)

SlideAt(page) == [kind |-> "slide", page |-> page]
ShapeOn(page, name, at_, shape, role) ==
  [kind |-> "slide_shape", page |-> page, at |-> at_, size |-> P(4, 8), shape |-> shape, role |-> role,
   notes |-> FALSE, empty_placeholder |-> FALSE, text |-> IF name = "" THEN <<>> ELSE <<name>>,
   table |-> <<>>]
DeckShapes ==
  {<<SlideAt(0), ShapeOn(0, "b1", P(5, 40), "Text", "outline"), ShapeOn(0, "b2", P(0, 42), "Text", ""),
     SlideAt(1), ShapeOn(1, "b3", P(0, 0), "Text", "title")>>,
   <<SlideAt(0), ShapeOn(0, "t1", P(0, 0), "Text", "title"),
     ShapeOn(0, "", P(0, 20), "GraphicObjectShape", ""), ShapeOn(0, "", P(5, 50), "OLE2Shape", "")>>,
   <<SlideAt(0), ShapeOn(0, "", P(0, 20), "OLE2Shape", ""),
     [ShapeOn(0, "n1", P(0, 50), "Text", "") EXCEPT !.notes = TRUE],
     [ShapeOn(0, "", P(0, 60), "TableShape", "") EXCEPT
        !.table = [Grid(1, 1, <<Cell(0, 0, 1, 1, <<"a">>)>>) EXCEPT !.text = <<"t1">>]]>>}
DeckObjects ==
  {<<Image("i1", 0, P(0, 20)), Embedded("chart", "c1", 0, P(5, 51), <<>>)>>,
   <<Embedded("other", "o1", 0, P(0, 20), <<>>), Embedded("other", "o2", 1, P(0, 20), <<>>)>>,
   <<Embedded("chart", "c1", 0, P(0, 20), <<>>), PageOf(0, ""), PageOf(1, "")>>}
DeckJobs ==
  {Job("presentation", 2, <<shapes, objects>>, 1 :> {Region(5, 70)}) : shapes \in DeckShapes, objects \in DeckObjects}

Drawn(name, path, z, is_group) ==
  [kind |-> "drawing", page |-> 0, path |-> path, z |-> z, at |-> P(0, 10 * z), size |-> P(4, 8),
   is_group |-> is_group, text |-> IF name = "" THEN <<>> ELSE <<name>>]
DrawingJobs ==
  {Job("drawing", 1, <<<<Drawn("", <<>>, 1, TRUE), Drawn("d1", <<1>>, 2, FALSE),
                         Drawn("", <<1>>, 3, TRUE), Drawn("d2", <<1, 3>>, 4, FALSE),
                         Drawn("", <<>>, 5, FALSE)>>>>, NoFigures)}

-----------------------------------------------------------------------------
(* Workbooks. *)

Number_(row, col) == [Cell(row, col, 1, 1, <<"9">>) EXCEPT !.value = "number"]
SheetAt(page, rows, cols, visible) ==
  [kind |-> "sheet", page |-> page, visible |-> visible, rows |-> rows, cols |-> cols,
   name |-> "s", text |-> <<"s", page>>]
RowAt(page, row, cells) == [kind |-> "row", page |-> page, row |-> row, cells |-> cells]
RangeAt(kind, page, headed) ==
  [kind |-> kind, page |-> page, name |-> "r", headed |-> headed, top |-> 0, left |-> 0,
   bottom |-> 1, right |-> 0]
ChartOf(page, headed) ==
  [kind |-> "sheet_chart", page |-> page, headed |-> headed, text |-> <<"c2">>,
   ranges |-> <<[top |-> 0, left |-> 0, bottom |-> 1, right |-> 0]>>]
Series == [NoChart EXCEPT !.series = <<[label |-> "y", values |-> <<"5", "6">>]>>,
                          !.categories = <<"q1">>, !.title = <<"ct">>]
Plot(name) == [Embedded("chart", name, 0, P(0, 0), <<>>) EXCEPT !.chart = Series]
Tabulated(name) ==
  [Plot(name) EXCEPT !.chart = [NoChart EXCEPT !.grid = Grid(2, 1, <<Cell(0, 0, 1, 1, <<"h">>),
                                                                     Number_(1, 0)>>)]]
CellRemark(name, page) == [kind |-> "cell_comment", page |-> page, text |-> <<name>>]
Rows == {<<RowAt(0, 0, <<Cell(0, 0, 1, 1, <<"l1">>), Cell(0, 1, 1, 1, <<"l2">>)>>),
           RowAt(0, 1, <<Cell(1, 0, 1, 1, <<"x">>), Number_(1, 1)>>)>>,
         <<RowAt(0, 0, <<Cell(0, 0, 1, 2, <<"over">>), Cell(0, 2, 1, 1, <<"l0">>)>>),
           RowAt(0, 1, <<Cell(1, 0, 1, 1, <<"l1">>), Cell(1, 1, 1, 1, <<"l2">>), Cell(1, 2, 1, 1, <<"l3">>)>>),
           RowAt(0, 2, <<Cell(2, 0, 1, 1, <<"x">>), Cell(2, 1, 1, 1, <<"y">>)>>),
           RowAt(0, 3, <<Cell(3, 0, 1, 1, <<"x">>), Cell(3, 1, 1, 1, <<"z">>)>>)>>,
         <<RowAt(0, 0, <<Cell(0, 0, 1, 3, <<"wide">>)>>), RowAt(0, 1, <<Number_(1, 0), Number_(1, 1)>>)>>,
         <<>>}
BookParts ==
  {<<Plot("c1"), ChartOf(0, TRUE)>>, <<Plot("c1"), Tabulated("c3")>>, <<ChartOf(0, FALSE), RangeAt("database_range", 0, TRUE)>>,
   <<CellRemark("m1", 0), CellRemark("m2", 0), [kind |-> "pivot", text |-> "pv"]>>,
   <<RangeAt("named_range", 1, TRUE), Image("i1", 1, <<>>)>>}
BookJobs ==
  {Job("spreadsheet", 0, <<<<SheetAt(0, 2, 2, TRUE)>> \o rows \o <<SheetAt(1, 1, 1, FALSE)>>, part>>, NoFigures) :
     rows \in Rows, part \in BookParts}

MCJobs == LetterJobs \cup ReportJobs \cup FormJobs \cup OutlineJobs \cup AnchorJobs \cup DeckJobs \cup DrawingJobs \cup BookJobs
=============================================================================
