----------------------------- MODULE OfficeArena -----------------------------
(***************************************************************************)
(* What the folds of an office stream share (office_fold/arena.cpp and     *)
(* anchor_index.cpp): the growing Document, where an item of the layout    *)
(* lands on its page, and the index of the body's characters that anchors  *)
(* are resolved against once the stream is in.                             *)
(*                                                                         *)
(* The mapper is one record m that every fold's handler maps to the next:  *)
(* m.doc is the Document, the other fields are what the folds remember.    *)
(* An item's payload (its text, its bytes) is a sequence of at most one    *)
(* name; page indices start at 0 as on the office wire, and the Document's *)
(* pages at 1.                                                             *)
(***************************************************************************)
EXTENDS DocumentTree, TLC

EmptyDocument ==
  [groups |-> <<>>, texts |-> <<>>, pictures |-> <<>>, tables |-> <<>>, forms |-> <<>>,
   body |-> <<>>, furniture |-> <<>>, pages |-> <<>>, anchors |-> <<>>]

NewRef(m, arena) == <<arena, Len(m.doc[arena]) + 1>>

\* link_into_item_arena, then group_by_ref: what is no container is the body.
LinkChild(doc, parent, ref) ==
  CASE parent[1] \in Arenas \ {"texts"} /\ parent \in Slots(doc) ->
         [doc EXCEPT ![parent[1]][parent[2]].children = Append(@, ref)]
    [] parent = Furniture -> [doc EXCEPT !.furniture = Append(@, ref)]
    [] OTHER -> [doc EXCEPT !.body = Append(@, ref)]

\* add_group, add_text, add_picture, add_table: append and link.
AddItem(m, arena, parent, label, layer, payload, prov) ==
  LET ref == NewRef(m, arena)
      item == [Item(ref, parent, label) EXCEPT !.layer = layer, !.text = payload, !.prov = prov,
                 !.sources = IF arena = "groups" THEN {} ELSE {"libreoffice"}]
  IN [m EXCEPT !.doc = LinkChild([@ EXCEPT ![arena] = Append(@, item)], parent, ref)]

WithChildren(doc, r, children) ==
  CASE r = Body -> [doc EXCEPT !.body = children]
    [] r = Furniture -> [doc EXCEPT !.furniture = children]
    [] OTHER -> [doc EXCEPT ![r[1]][r[2]].children = children]

\* The child behind the anchor, or at the front when the anchor is not there.
MoveChildAfter(doc, parent, child, after) ==
  LET children == ChildrenOf(doc, parent)
      rest == SelectSeq(children, LAMBDA c : c # child)
      at == SelectInSeq(rest, LAMBDA c : c = after)
  IN IF child \notin ToSet(children) THEN doc
     ELSE WithChildren(doc, parent, InsertAt(rest, at + 1, child))

WithoutBox(p) == [p EXCEPT !.l = 0, !.t = 0, !.r = 0, !.b = 0]

\* The moved item alone changes its layer: a bug the walk below must not have.
MoveToFurnitureShallow(doc, ref) ==
  LET parent == At(doc, ref).parent
      from == WithChildren(doc, parent, SelectSeq(ChildrenOf(doc, parent), LAMBDA c : c # ref))
      under == {ref}
      Op(n) == IF n.self \notin under THEN n
               ELSE [n EXCEPT !.layer = "furniture",
                              !.prov = AsTuple([i \in DOMAIN @ |-> WithoutBox(@[i])])]
  IN LinkChild([MapItems(from, Op) EXCEPT ![ref[1]][ref[2]].parent = Furniture], Furniture, ref)

\* The item leaves its parent for the furniture, and everything in the groups
\* under it follows into the furniture layer and loses its boxes.
MoveToFurniture(doc, ref) ==
  LET parent == At(doc, ref).parent
      from == WithChildren(doc, parent, SelectSeq(ChildrenOf(doc, parent), LAMBDA c : c # ref))
      under == Below(doc, ref)
      Op(n) == IF n.self \notin under THEN n
               ELSE [n EXCEPT !.layer = "furniture",
                              !.prov = AsTuple([i \in DOMAIN @ |-> WithoutBox(@[i])])]
  IN LinkChild([MapItems(from, Op) EXCEPT ![ref[1]][ref[2]].parent = Furniture], Furniture, ref)

-----------------------------------------------------------------------------
(* Provenance. *)

Box(at, size) == [l |-> at.x, t |-> at.y, r |-> at.x + size.x, b |-> at.y + size.y]
NoBox == [l |-> 0, t |-> 0, r |-> 0, b |-> 0]
ClampTo(x, high) == IF x < 0 THEN 0 ELSE IF x > high THEN high ELSE x
Entry(page, box, span) ==
  [page |-> page + 1, l |-> box.l, t |-> box.t, r |-> box.r, b |-> box.b, charspan |-> span]

\* add_prov.  A document-absolute box is reduced to its page; one that does not
\* begin on its page was built from another page's caret and is not claimed;
\* what hangs off the page is cut away.  A page without a rectangle keeps the
\* numbers as they came.
Moved(box, dx, dy) == [l |-> box.l - dx, t |-> box.t - dy, r |-> box.r - dx, b |-> box.b - dy]
CutTo(box, rect) ==
  [l |-> ClampTo(box.l, rect.w), t |-> ClampTo(box.t, rect.h),
   r |-> ClampTo(box.r, rect.w), b |-> ClampTo(box.b, rect.h)]
BeginsOn(box, rect) == box.l \in 0..(rect.w - 1) /\ box.t \in 0..(rect.h - 1)
OwnBox(box) == IF HasArea(box) THEN box ELSE NoBox
OnPageBox(rect, page_local, box) ==
  IF page_local THEN OwnBox(CutTo(box, rect))
  ELSE IF BeginsOn(Moved(box, rect.x, rect.y), rect) THEN OwnBox(CutTo(Moved(box, rect.x, rect.y), rect))
  ELSE NoBox
Prov(m, page, page_local, box, span) ==
  IF page < 0 THEN <<>>
  ELSE <<Entry(page, IF page < Len(m.rects) THEN OnPageBox(m.rects[page + 1], page_local, box) ELSE box, span)>>

\* The page alone.
PageProv(page, span) == IF page < 0 THEN <<>> ELSE <<Entry(page, NoBox, span)>>

\* A measured line narrows the span to its own characters.
LineProv(m, lines, length) ==
  LET Span(n) == IF n.from >= 0 /\ n.to > n.from
                 THEN IF length > 0 THEN <<Min({n.from, length}), Min({n.to, length})>>
                      ELSE <<n.from, n.to>>
                 ELSE <<0, length>>
  IN FlattenSeq([i \in DOMAIN lines |->
       Prov(m, lines[i].page, FALSE, Box(lines[i].at, lines[i].size), Span(lines[i]))])

\* page_for_y and page_for_point, -1 for none.
PageForY(m, y) ==
  LET on == {i \in DOMAIN m.rects : m.rects[i].y <= y /\ y < m.rects[i].y + m.rects[i].h}
  IN IF on = {} THEN -1 ELSE Min(on) - 1
PageForPoint(m, x, y) ==
  LET on == {i \in DOMAIN m.rects : /\ m.rects[i].y <= y /\ y < m.rects[i].y + m.rects[i].h
                                    /\ m.rects[i].x <= x /\ x < m.rects[i].x + m.rects[i].w}
  IN IF on = {} THEN -1 ELSE Min(on) - 1

\* A span between carets on two pages has one box on each page it crosses.
AcrossPages(m, box, first, last, length) ==
  LET On(p) == [box EXCEPT !.t = IF p = first THEN @ ELSE m.rects[p + 1].y,
                           !.b = IF p = last THEN @ ELSE m.rects[p + 1].y + m.rects[p + 1].h]
  IN FlattenSeq([i \in 1..(last - first + 1) |->
       Prov(m, first + i - 1, FALSE, On(first + i - 1), <<0, length>>)])
BoxProv(m, page, box, first, last, length) ==
  IF first < 0 \/ last <= first THEN Prov(m, page, FALSE, box, <<0, length>>)
  ELSE AcrossPages(m, box, first, last, length)
CaretProv(m, page, start, end, length) ==
  BoxProv(m, page, [l |-> Min({start.x, end.x}), t |-> Min({start.y, end.y}),
                    r |-> Max({start.x, end.x}), b |-> Max({start.y, end.y})],
          PageForY(m, Min({start.y, end.y})), PageForY(m, Max({start.y, end.y})), length)

-----------------------------------------------------------------------------
(* Tables.  A cell is where it begins, how far it spans, what it shows, the  *)
(* kind of its value and whether it heads its column.                        *)

Data(rows, cols, cells) == [rows |-> rows, cols |-> cols, cells |-> cells, loose |-> {}]
CellAt(row, col, cell) == [row |-> row, col |-> col, row_span |-> Max({1, cell.row_span}),
                           col_span |-> Max({1, cell.col_span}), text |-> cell.text,
                           value |-> cell.value, header |-> FALSE, section |-> FALSE]

\* fold_table: a cell without a place of its own goes where its name anchors;
\* one whose name anchors nowhere is kept beside the grid.
FoldTable(table) ==
  LET Row(c) == IF c.row < 0 \/ c.col < 0 THEN c.anchor.row ELSE c.row
      Col(c) == IF c.row < 0 \/ c.col < 0 THEN c.anchor.col ELSE c.col
      placed == SelectSeq(table.cells, LAMBDA c : Row(c) >= 0 /\ Col(c) >= 0)
      out == [i \in DOMAIN placed |-> CellAt(Row(placed[i]), Col(placed[i]), placed[i])]
  IN [Data(table.rows, table.cols, AsTuple(out)) EXCEPT
        !.loose = {c.text : c \in {x \in ToSet(table.cells) : Row(x) < 0 \/ Col(x) < 0}}]

AddTable(m, parent, layer, payload, prov, data) ==
  LET ref == NewRef(m, "tables") IN
  [AddItem(m, "tables", parent, "table", layer, payload, prov) EXCEPT !.data = (ref :> data) @@ @]

-----------------------------------------------------------------------------
(* anchor_index.cpp. *)

NoIndex == [spans |-> <<>>, comments |-> <<>>, names |-> <<>>, replies |-> <<>>,
            references |-> <<>>, bookmarks |-> <<>>, changes |-> <<>>, fields |-> <<>>]

NoTarget == [ref |-> NoRef, from |-> 0, to |-> 0]
\* The last body item that starts at or before the offset, unless the offset
\* lies past its end: an upper bound over spans in arrival order.
Resolve(spans, start, end) ==
  LET at == Len(SelectSeq(spans, LAMBDA s : s.start <= start))
      span == spans[at]
      length == span.end - span.start
      Local(x) == Min({x - span.start, length})
  IN IF start < 0 \/ at = 0 \/ (start >= span.end /\ start # span.start)
     THEN NoTarget
     ELSE [ref |-> span.ref, from |-> Local(start),
           to |-> Local(IF end > start THEN end ELSE start)]

\* resolve(): replies name the comment they answer, the commented item gains a
\* link back, a field its span and a change its target, and a reference the place
\* its anchor names.  The links are m.links; a change that finds no target keeps
\* its record.
ResolveAnchors(m) ==
  LET ix == m.index
      At_(p) == Resolve(ix.spans, p.start, p.end)
      answered == SelectSeq(ix.replies, LAMBDA p : p.to \in DOMAIN ix.names)
      Held(pending) == SelectSeq(pending, LAMBDA p : At_(p).ref # NoRef)
      named == [i \in DOMAIN ix.bookmarks |-> At_(ix.bookmarks[i])]
      \* a later bookmark of the same name that resolves wins
      Target(name) ==
        LET is == {i \in DOMAIN named : ix.bookmarks[i].name = name /\ named[i].ref # NoRef}
        IN IF is = {} THEN NoRef ELSE named[Max(is)].ref
      Op(n) == [n EXCEPT !.spans = [i \in DOMAIN @ |->
                  LET mine == {p \in ToSet(ix.references) : p.item = n.self /\ p.span = i}
                  IN IF mine = {} \/ Target((CHOOSE p \in mine : TRUE).name) = NoRef THEN @[i]
                     ELSE [@[i] EXCEPT !.target = Target((CHOOSE p \in mine : TRUE).name)]]]
  IN [m EXCEPT !.doc = [MapItems(@, Op) EXCEPT !.anchors = AsTuple([i \in DOMAIN named |-> named[i].ref])],
               !.links = [replies |-> {<<p.from, ix.names[p.to]>> : p \in ToSet(answered)},
                          comments |-> {<<p.ref, At_(p)>> : p \in ToSet(Held(ix.comments))},
                          fields |-> {<<p.field, At_(p)>> : p \in ToSet(Held(ix.fields))},
                          changes |-> [i \in DOMAIN ix.changes |->
                                         [id |-> ix.changes[i].id, target |-> At_(ix.changes[i])]]]]
=============================================================================
