----------------------------- MODULE StorageFold -----------------------------
(***************************************************************************)
(* The wiki storage handler of src/confluence: a pull parser that keeps    *)
(* going over damaged markup, and the fold of its node tree into a         *)
(* Document.  The fold's recursion is a stack of frames here, one frame    *)
(* for each container whose children are being walked.                     *)
(*                                                                         *)
(* A node's arg is the one attribute that matters on it (a href, a macro   *)
(* or language name, a resource), rows and cols a cell's spans.  Text is a *)
(* sequence of tokens: words, "sp" (blank), "nl" and "&amp;".              *)
(***************************************************************************)
EXTENDS CollectedDocument

CONSTANTS
  MaxDepth,       \* kMaxDepth
  MaxColumns,     \* kMaxColumns
  MaxSpan,        \* kMaxSpan
  MaxGridCells    \* kMaxGridCells

Root == [name |-> "#document", text |-> <<>>, arg |-> "", rows |-> 1, cols |-> 1, kids |-> <<>>]
TextNode(text) == [Root EXCEPT !.name = "#text", !.text = text]

-----------------------------------------------------------------------------
(* The parser. *)

NewParse == [nodes |-> <<Root>>, path |-> <<1>>, saw |-> FALSE, deep |-> FALSE,
             ended |-> FALSE, warnings |-> <<>>]
WarnStorage(s, text) == [s EXCEPT !.warnings = Append(@, text)]

DecodeEntities(text) == AsTuple([i \in DOMAIN text |-> IF text[i] = "&amp;" THEN "&" ELSE text[i]])

\* A node joins the innermost open element's children.
AddNode(p, node) ==
  [p EXCEPT !.nodes = Append([@ EXCEPT ![Last(p.path)].kids = Append(@, Len(p.nodes) + 1)], node)]

VoidElements == {"br", "hr", "img"}

\* How reading the attributes ends: at the ">" of an "open" or a "self" closing
\* tag, behind a "stray" slash, from where the body is read on as it stands, or
\* "cut" off by the end of the body.  The last two are reported alike.
OpensNothing(token) == token.ends # "open"
Unterminated(token) == token.ends \in {"stray", "cut"}

\* An element is kept always, and opened unless it is void, self-closed,
\* unterminated, or too deep.
ReadElement(p, token) ==
  LET shut == OpensNothing(token) \/ token.node.name \in VoidElements
      deep == ~shut /\ Len(p.path) > MaxDepth
      added == AddNode([p EXCEPT !.saw = TRUE], token.node)
      told == IF ~Unterminated(token) THEN added
              ELSE WarnStorage([added EXCEPT !.ended = token.ends = "cut"], "cut tag")
      flat == IF deep /\ ~p.deep THEN WarnStorage([told EXCEPT !.deep = TRUE], "flattened") ELSE told
  IN IF shut \/ deep THEN flat ELSE [flat EXCEPT !.path = Append(@, Len(flat.nodes))]

\* An end tag closes the innermost element of its name with all it holds.
CloseElement(p, name) ==
  LET at == {d \in 2..Len(p.path) : p.nodes[p.path[d]].name = name}
      cut == [p EXCEPT !.path = SubSeq(@, 1, Max(at) - 1)]
  IN CASE at = {} -> WarnStorage(p, "stray end tag")
       [] Max(at) # Len(p.path) -> WarnStorage(cut, "missing end tag")
       [] OTHER -> cut

\* One construct of the body: comments, instructions and doctypes go, CDATA
\* stays as written, an unclosed comment or CDATA takes the rest.
ReadConstruct(p, token) ==
  CASE token.type = "text" -> AddNode(p, TextNode(DecodeEntities(token.text)))
    [] token.type = "cdata" -> AddNode(p, TextNode(token.text))
    [] token.type = "skipped" -> p
    [] token.type = "cut_comment" -> WarnStorage([p EXCEPT !.ended = TRUE], "cut comment")
    [] token.type = "cut_cdata" ->
         WarnStorage([AddNode(p, TextNode(token.text)) EXCEPT !.ended = TRUE], "cut CDATA")
    [] token.type = "end" -> CloseElement(p, token.name)
    [] token.type = "start" -> ReadElement(p, token)

-----------------------------------------------------------------------------
(* Reading the node tree.  A child's index is above its parent's. *)

NamedBlocks == {"ac:structured-macro", "ac:task-list", "ac:image", "ac:layout", "h1", "h2", "p",
                "ul", "ol", "li", "table", "thead", "tbody", "tr", "td", "th", "div", "hr"}
Blocks(nodes) ==
  LET block[n \in DOMAIN nodes] ==
        nodes[n].name \in NamedBlocks \/ \E i \in DOMAIN nodes[n].kids : block[nodes[n].kids[i]]
  IN {n \in DOMAIN nodes : block[n]}
ContainsBlock(nodes, n) == ToSet(nodes[n].kids) \cap Blocks(nodes) # {}

RawText(nodes, n) ==
  LET raw[k \in DOMAIN nodes] ==
        IF nodes[k].name = "#text" THEN nodes[k].text
        ELSE FlattenSeq([i \in DOMAIN nodes[k].kids |-> raw[nodes[k].kids[i]]])
  IN raw[n]

Children(nodes, n, name) == SelectSeq(nodes[n].kids, LAMBDA k : nodes[k].name = name)

\* A run is text and the innermost link around it.
Run(text, link) == [text |-> text, link |-> link]
Linked(runs, link) ==
  AsTuple([i \in DOMAIN runs |-> IF runs[i].link = "" THEN Run(runs[i].text, link) ELSE runs[i]])

\* The runs below a node.  A link names its target by resource; its body is
\* plain, rich, or for want of one the target's own name.
InlineRuns(nodes, n) ==
  LET runs[k \in DOMAIN nodes] ==
        LET node == nodes[k]
            below(m) == FlattenSeq([i \in DOMAIN nodes[m].kids |-> runs[nodes[m].kids[i]]])
            targets == Children(nodes, k, "ri:page") \o Children(nodes, k, "ri:url")
            label == IF targets = <<>> THEN "" ELSE nodes[targets[1]].arg
            plain == Children(nodes, k, "ac:plain-text-link-body")
            rich == Children(nodes, k, "ac:link-body")
        IN CASE node.name = "#text" -> IF node.text = <<>> THEN <<>> ELSE <<Run(node.text, "")>>
             [] node.name = "a" -> Linked(below(k), node.arg)
             [] node.name = "br" -> <<Run(<<"nl">>, "")>>
             [] node.name = "ac:link" ->
                  (IF plain # <<>>
                   THEN LET text == RawText(nodes, plain[1]) IN
                        IF text = <<>> THEN <<>> ELSE <<Run(text, label)>>
                   ELSE IF rich # <<>> THEN Linked(below(rich[1]), label)
                   ELSE IF label = "" THEN <<>> ELSE <<Run(<<label>>, label)>>)
             [] OTHER -> below(k)
  IN runs[n]
ChildRuns(nodes, n) ==
  FlattenSeq([i \in DOMAIN nodes[n].kids |-> InlineRuns(nodes, nodes[n].kids[i])])

Space == {"sp", "nl"}
TrimLeft(text) ==
  LET kept == {i \in DOMAIN text : text[i] \notin Space}
  IN IF kept = {} THEN <<>> ELSE SubSeq(text, Min(kept), Len(text))
TrimRight(text) ==
  LET kept == {i \in DOMAIN text : text[i] \notin Space}
  IN IF kept = {} THEN <<>> ELSE SubSeq(text, 1, Max(kept))
Filled(runs) == SelectSeq(runs, LAMBDA r : r.text # <<>>)
\* Only the outermost runs lose their outer blanks.
TrimRuns(runs) ==
  LET some == Filled(runs)
      left == [some EXCEPT ![1].text = TrimLeft(@)]
  IN IF some = <<>> THEN <<>> ELSE Filled([left EXCEPT ![Len(some)].text = TrimRight(@)])
AppendParagraph(runs, paragraph) ==
  LET more == TrimRuns(paragraph) IN
  IF more = <<>> THEN runs
  ELSE (IF runs = <<>> THEN <<>> ELSE Append(runs, Run(<<"nl">>, ""))) \o more

RunsText(runs) == FlattenSeq(AsTuple([i \in DOMAIN runs |-> runs[i].text]))
\* Neighbouring runs of one link are one span.
LinkSpans(runs) ==
  LET Upto(i) == Len(RunsText(SubSeq(runs, 1, i)))
      starts == {i \in DOMAIN runs : runs[i].link # "" /\ (i = 1 \/ runs[i - 1].link # runs[i].link)}
      End(i) == Max({j \in i..Len(runs) : \A k \in i..j : runs[k].link = runs[i].link})
      order == SetToSortSeq(starts, <)
  IN AsTuple([i \in DOMAIN order |->
       [start |-> Upto(order[i] - 1), end |-> Upto(End(order[i])), href |-> runs[order[i]].link,
        target |-> NoRef]])

-----------------------------------------------------------------------------
(* Tables. *)

\* Every row below a table in order, and whether it is in the head.
TableRows(nodes, n) ==
  LET rows[k \in DOMAIN nodes, head \in BOOLEAN] ==
        CASE nodes[k].name = "tr" -> <<[node |-> k, head |-> head]>>
          [] nodes[k].name = "#text" -> <<>>
          [] OTHER -> LET inside == IF nodes[k].name = "thead" THEN TRUE
                                    ELSE IF nodes[k].name = "tbody" THEN FALSE ELSE head
                      IN FlattenSeq([i \in DOMAIN nodes[k].kids |-> rows[nodes[k].kids[i], inside]])
  IN FlattenSeq([i \in DOMAIN nodes[n].kids |-> rows[nodes[n].kids[i], FALSE]])

CellText(nodes, n) ==
  LET Add(runs, k) == IF nodes[k].name = "p" THEN AppendParagraph(runs, ChildRuns(nodes, k))
                      ELSE runs \o InlineRuns(nodes, k)
  IN RunsText(TrimRuns(FoldLeft(Add, <<>>, nodes[n].kids)))

CellSlots(row, col, rows, cols) == (row..(row + rows - 1)) \X (col..(col + cols - 1))
\* The first column of the row that no span from above has taken.
FreeColumn(taken, row, from) == Min({c \in from..(from + Cardinality(taken)) : <<row, c>> \notin taken})

\* One cell of a row: its spans are cut at the table's last row and at the
\* column ceiling, and past the ceiling the row stops.
PlaceCell(acc, nodes, n, row, numRows) ==
  LET col == FreeColumn(acc.taken, row, acc.col)
      rows == Min({nodes[n].rows, MaxSpan, numRows - row})
      cols == Min({nodes[n].cols, MaxSpan, MaxColumns - col})
      clamped == acc.clamped \/ rows # nodes[n].rows \/ cols # nodes[n].cols
      cell == [row |-> row, col |-> col, rows |-> rows, cols |-> cols, text |-> CellText(nodes, n)]
  IN CASE acc.full \/ nodes[n].name \notin {"td", "th"} -> acc
       [] col >= MaxColumns -> [acc EXCEPT !.full = TRUE, !.clamped = TRUE]
       [] OTHER -> [acc EXCEPT !.taken = @ \cup CellSlots(row, col, rows, cols), !.col = col + cols,
                      !.cells = Append(@, cell), !.clamped = clamped, !.width = Max({@, col + cols})]

PlaceTable(nodes, n) ==
  LET rows == TableRows(nodes, n)
      Row(acc, r) == FoldLeft(LAMBDA a, k : PlaceCell(a, nodes, k, r - 1, Len(rows)),
                              [acc EXCEPT !.col = 0, !.full = FALSE], nodes[rows[r].node].kids)
  IN FoldLeft(Row, [taken |-> {}, cells |-> <<>>, width |-> 0, clamped |-> FALSE, col |-> 0,
                     full |-> FALSE, rows |-> Len(rows)], [r \in DOMAIN rows |-> r])

\* A spanning cell fills every slot it covers, a later one over an earlier.
MaterializeGrid(cells, rows, cols) ==
  [s \in (0..(rows - 1)) \X (0..(cols - 1)) |->
     LET over == {i \in DOMAIN cells : s \in CellSlots(cells[i].row, cells[i].col, cells[i].rows, cells[i].cols)}
     IN IF over = {} THEN 0 ELSE Max(over)]

-----------------------------------------------------------------------------
(* The fold. *)

Frame(mode, todo, parent, stamps) ==
  [mode |-> mode, todo |-> todo, parent |-> parent, stamps |-> stamps, runs |-> <<>>,
   ordered |-> FALSE, folded |-> FALSE]
NewStorageFold(p) ==
  [nodes |-> p.nodes, doc |-> NewDocument, emitted |-> 0, warnings |-> p.warnings,
   work |-> <<Frame("blocks", p.nodes[1].kids, Body, <<>>)>>]

Top(s) == Last(s.work)
SetTop(s, frame) == [s EXCEPT !.work[Len(s.work)] = frame]
Advance(s) == SetTop(s, [Top(s) EXCEPT !.todo = Tail(@)])
PushFrame(s, frame) == [s EXCEPT !.work = Append(@, frame)]

\* Mutant of StampMeta: the first stamp of a key stays.
StampMetaFirst(stamps) ==
  {stamps[i] : i \in {j \in DOMAIN stamps : \A k \in 1..(j - 1) : stamps[k].key # stamps[j].key}}
\* stamp_meta: each stamp is written under its key, so that of the stamps with
\* one key the innermost stays.
StampMeta(stamps) ==
  {stamps[i] : i \in {j \in DOMAIN stamps :
                        \A k \in (j + 1)..Len(stamps) : stamps[k].key # stamps[j].key}}

\* An item, stamped with the macros around it; groups are not.
AddItem(s, arena, parent, label, payload, spans, stamps) ==
  LET doc == Put(s.doc, arena, parent, label, payload, spans)
  IN [s EXCEPT !.doc = [doc EXCEPT ![arena][Len(doc[arena])].sources = StampMeta(stamps)], !.emitted = @ + 1]
AddRuns(s, parent, label, runs, stamps) ==
  AddItem(s, "texts", parent, label, RunsText(runs), LinkSpans(runs), stamps)
\* Text item of the runs, if anything is left of them.
AddLoose(s, parent, runs, stamps) ==
  LET some == TrimRuns(runs) IN IF some = <<>> THEN s ELSE AddRuns(s, parent, "text", some, stamps)
FlushInline(s) ==
  LET top == Top(s)
  IN AddLoose(SetTop(s, [top EXCEPT !.runs = <<>>]), top.parent, top.runs, top.stamps)

EmitHeading(s, n, parent, stamps) ==
  LET runs == TrimRuns(ChildRuns(s.nodes, n))
  IN IF runs = <<>> THEN s ELSE AddRuns(s, parent, "section_header", runs, stamps)

EmitList(s, n, parent, stamps) ==
  LET ordered == s.nodes[n].name = "ol"
      group == NextRef(s.doc, "groups")
  IN PushFrame([s EXCEPT !.doc = Put(@, "groups", parent,
                                     IF ordered THEN "ordered_list" ELSE "list", <<>>, <<>>)],
               [Frame("list", s.nodes[n].kids, group, stamps) EXCEPT !.ordered = ordered])

\* An item's own text is its loose text and plain paragraphs; every block it
\* holds follows it under the list.
EmitListItem(s, n, parent, stamps) ==
  LET Add(acc, k) ==
        CASE s.nodes[k].name = "p" /\ ~ContainsBlock(s.nodes, k) ->
               [acc EXCEPT !.runs = AppendParagraph(@, ChildRuns(s.nodes, k))]
          [] k \in Blocks(s.nodes) -> [acc EXCEPT !.blocks = Append(@, k)]
          [] OTHER -> [acc EXCEPT !.runs = @ \o InlineRuns(s.nodes, k)]
      all == FoldLeft(Add, [runs |-> <<>>, blocks |-> <<>>], s.nodes[n].kids)
  IN PushFrame(AddRuns(s, parent, "list_item", TrimRuns(all.runs), stamps),
               Frame("emit", all.blocks, parent, stamps))

EmitTaskList(s, n, parent, stamps) ==
  LET group == NextRef(s.doc, "groups")
      Task(g, k) ==
        LET status == Children(s.nodes, k, "ac:task-status")
            body == Children(s.nodes, k, "ac:task-body")
            complete == status # <<>> /\ RawText(s.nodes, status[1]) = <<"complete">>
            runs == IF body = <<>> THEN <<>> ELSE TrimRuns(ChildRuns(s.nodes, body[1]))
        IN AddRuns(g, group, IF complete THEN "checked" ELSE "unchecked", runs, stamps)
  IN FoldLeft(Task, [s EXCEPT !.doc = Put(@, "groups", parent, "list", <<>>, <<>>)],
              Children(s.nodes, n, "ac:task"))

\* Past the ceiling the cells are kept and the grid is not made.
PutTable(s, placed, parent, stamps) ==
  LET rows == placed.rows
      cols == placed.width
      grid == IF rows = 0 \/ cols = 0 \/ rows * cols > MaxGridCells THEN <<>>
              ELSE MaterializeGrid(placed.cells, rows, cols)
      table == [rows |-> rows, cols |-> cols, cells |-> placed.cells, grid |-> grid]
      added == AddItem(s, "tables", parent, "table", table, <<>>, stamps)
  IN IF placed.clamped THEN WarnStorage(added, "clamped") ELSE added
EmitTable(s, n, parent, stamps) == PutTable(s, PlaceTable(s.nodes, n), parent, stamps)

EmitCodeMacro(s, n, parent, stamps) ==
  LET body == Children(s.nodes, n, "ac:plain-text-body")
  IN AddItem(s, "texts", parent, "code",
             IF body = <<>> THEN <<>> ELSE RawText(s.nodes, body[1]), <<>>, stamps)

Panels == {"info", "note", "warning", "tip", "panel"}
Stamp(name) == [key |-> IF name \in Panels THEN "panel" ELSE "macro", name |-> name]
EmitMacro(s, n, parent, stamps) ==
  LET name == s.nodes[n].arg
  IN IF name = "code" THEN EmitCodeMacro(s, n, parent, stamps)
     ELSE PushFrame(s, Frame("macro", s.nodes[n].kids, parent,
                             IF name = "" THEN stamps ELSE Append(stamps, Stamp(name))))

EmitImage(s, n, parent, stamps) ==
  LET sources == Children(s.nodes, n, "ri:attachment") \o Children(s.nodes, n, "ri:url")
  IN AddItem(s, "pictures", parent, "picture",
             IF sources = <<>> THEN <<>> ELSE <<s.nodes[sources[1]].arg>>, <<>>, stamps)

\* Every other element is a transparent container.
EmitBlock(s, n, parent, stamps) ==
  LET name == s.nodes[n].name
  IN CASE name = "ac:structured-macro" -> EmitMacro(s, n, parent, stamps)
       [] name = "ac:task-list" -> EmitTaskList(s, n, parent, stamps)
       [] name = "ac:image" -> EmitImage(s, n, parent, stamps)
       [] name \in {"h1", "h2"} -> EmitHeading(s, n, parent, stamps)
       [] name \in {"ul", "ol"} -> EmitList(s, n, parent, stamps)
       [] name = "table" -> EmitTable(s, n, parent, stamps)
       [] name = "hr" -> s
       [] OTHER -> PushFrame(s, Frame("blocks", s.nodes[n].kids, parent, stamps))

-----------------------------------------------------------------------------
(* One child of the innermost container. *)

\* Bug: a block is emitted ahead of the text before it.
BlocksChildUnflushed(s) ==
  LET n == Head(Top(s).todo) IN
  IF n \in Blocks(s.nodes) THEN EmitBlock(Advance(s), n, Top(s).parent, Top(s).stamps)
  ELSE SetTop(Advance(s), [Top(Advance(s)) EXCEPT !.runs = @ \o InlineRuns(s.nodes, n)])

\* fold_blocks: text gathers until a block or the end flushes it.
BlocksChild(s) ==
  LET n == Head(Top(s).todo) IN
  IF n \in Blocks(s.nodes) THEN EmitBlock(FlushInline(Advance(s)), n, Top(s).parent, Top(s).stamps)
  ELSE SetTop(Advance(s), [Top(Advance(s)) EXCEPT !.runs = @ \o InlineRuns(s.nodes, n)])

\* emit_list: items, sublists beside them, loose text, and any other block.
ListChild(s) ==
  LET n == Head(Top(s).todo)
      name == s.nodes[n].name
      parent == Top(s).parent
      stamps == Top(s).stamps
  IN CASE name = "li" -> EmitListItem(Advance(s), n, parent, stamps)
       [] name = "#text" -> AddLoose(Advance(s), parent, <<Run(s.nodes[n].text, "")>>, stamps)
       [] OTHER -> EmitBlock(Advance(s), n, parent, stamps)

EmitChild(s) == EmitBlock(Advance(s), Head(Top(s).todo), Top(s).parent, Top(s).stamps)

\* emit_macro: its bodies, under the parent the macro has.
MacroChild(s) ==
  LET n == Head(Top(s).todo)
      top == Top(s)
      folded == SetTop(s, [top EXCEPT !.todo = Tail(@), !.folded = TRUE])
  IN CASE s.nodes[n].name = "ac:rich-text-body" ->
            PushFrame(folded, Frame("blocks", s.nodes[n].kids, top.parent, top.stamps))
       [] s.nodes[n].name = "ac:plain-text-body" ->
            AddLoose(folded, top.parent, <<Run(RawText(s.nodes, n), "")>>, top.stamps)
       [] OTHER -> Advance(s)

PopFrame(s) ==
  LET top == Top(s)
      flushed == FlushInline(s)
      popped == [flushed EXCEPT !.work = Front(@)]
  IN IF top.mode = "macro" /\ ~top.folded THEN WarnStorage(popped, "bodiless macro") ELSE popped

=============================================================================
