----------------------------- MODULE WriterFold ------------------------------
(***************************************************************************)
(* The body of a text document (office_fold/writer_fold.cpp), its comments *)
(* and bookmarks (annotation_fold.cpp) and its form (form_fold.cpp).       *)
(*                                                                         *)
(* Paragraphs come in reading order.  Pictures, frames, shapes and objects *)
(* come before or after them and find their place by where they sit: in a  *)
(* blank paragraph they are anchored in, behind the paragraph whose caret  *)
(* they share, or, once the stream is in, by geometry.  An object of a     *)
(* page header comes once for every page that shows it and is kept once.   *)
(***************************************************************************)
EXTENDS OfficeArena

CONSTANT LineSlack   \* how far below its picture a caret may sit

Blank(e) == e.text = <<>>
SeqIndex(s, x) == SelectInSeq(s, LAMBDA y : y = x)
LastChild(doc) == IF doc.body = <<>> THEN NoRef ELSE Last(doc.body)
InFurniture(doc, r) == r = Furniture \/ (r[1] = "groups" /\ At(doc, r).layer = "furniture")

-----------------------------------------------------------------------------
(* Copies of one object. *)

\* The identity of an object: where it is counts, unless it says it is a
\* header's.
HeaderKey(kind, e) == <<kind, e.name, e.text, e.size>>
PlacedKey(kind, path, e) == <<kind, path, e.name, e.text, e.size, e.page, e.anchor>>

\* repeats_placed_object on the second copy: the first moves to the furniture,
\* once; this and every later copy is dropped.
RepeatsPlacedObject(m, key) ==
  LET first == m.placed[key] IN
  IF first \in m.repeated THEN m
  ELSE [m EXCEPT !.doc = MoveToFurniture(@, first), !.repeated = @ \cup {first}]

-----------------------------------------------------------------------------
(* The body text. *)

ParagraphLabel(e) ==
  CASE e.style = "Title" -> "title"
    [] e.style # "Title" /\ e.outline >= 1 -> "section_header"
    [] e.style # "Title" /\ e.outline < 1 /\ e.list >= 0 -> "list_item"
    [] OTHER -> "text"

\* record_empty_paragraph: a blank line is no item, it is a place.
RecordEmptyParagraph(m, e) ==
  [m EXCEPT !.slots = Append(@, [page |-> e.page, y |-> e.start.y, after |-> LastChild(m.doc)])]

\* fill_from_runs: a run that refers to an anchor is a span whose target is
\* filled in when every anchor is known.
WithReferences(m, ref, e) ==
  IF e.refers = <<>> THEN m
  ELSE [m EXCEPT !.doc.texts[ref[2]].spans =
                   <<[start |-> 0, end |-> 1, word |-> e.text[1], target |-> NoRef]>>,
                 !.index.references = Append(@, [item |-> ref, span |-> 1, name |-> e.refers[1]])]

OnParagraph(m, e) ==
  LET ref == NewRef(m, "texts")
      prov == IF e.lines # <<>> THEN LineProv(m, e.lines, e.length)
              ELSE CaretProv(m, e.page, e.start, e.end, e.length)
      added == AddItem(m, "texts", Body, ParagraphLabel(e), "body", e.text, prov)
  IN IF Blank(e) THEN RecordEmptyParagraph(m, e)
     ELSE [WithReferences(added, ref, e) EXCEPT
             !.starts = (<<e.page, e.start>> :> ref) @@ @,
             !.index.spans = IF e.offset < 0 THEN @
                             ELSE Append(@, [start |-> e.offset, end |-> e.offset + e.length,
                                             ref |-> ref])]

\* A table behind the frames is one a frame holds; lines that end above its
\* first caret are not its own.
OnTable(m, e) ==
  LET ref == NewRef(m, "tables")
      lines == SelectSeq(e.lines, LAMBDA n : n.at.y + n.size.y >= e.start.y)
      prov == IF lines # <<>> THEN LineProv(m, lines, 0) ELSE CaretProv(m, e.page, e.start, e.end, 0)
  IN [AddTable(m, Body, "body", e.text, prov, FoldTable(e.table)) EXCEPT
        !.floating = IF m.frames_seen THEN @ \cup {ref} ELSE @,
        !.table_spans = Append(@, <<e.start.y, e.end.y>>)]

OnFootnote(m, e) ==
  IF Blank(e) THEN m
  ELSE AddItem(m, "texts", Body, "footnote", "body", e.text, CaretProv(m, e.page, e.anchor, e.anchor, e.length))

OnDocumentIndex(m, e) ==
  AddItem(m, "texts", Body, "document_index", "body", e.text,
          CaretProv(m, e.page, e.anchor, e.anchor, e.length))

-----------------------------------------------------------------------------
(* Pictures. *)

\* take_anchor_slot: the highest blank line of the page the picture reaches,
\* the first of equals; 0 for none.
TakeAnchorSlot(m, e) ==
  LET fits == {i \in DOMAIN m.slots : /\ m.slots[i].page = e.page
                                      /\ m.slots[i].y >= e.anchor.y
                                      /\ m.slots[i].y <= e.anchor.y + e.size.y + LineSlack}
      top == Min({m.slots[i].y : i \in fits})
  IN IF fits = {} THEN 0 ELSE Min({i \in fits : m.slots[i].y = top})

\* The later blank lines go on waiting behind the item the picture went
\* behind: a bug slot_inline_picture must not have.
SlotInlinePictureWaits(m, e, ref) ==
  LET start == <<e.page, e.anchor>>
      in_table == \E i \in DOMAIN m.table_spans :
                    m.table_spans[i][1] <= e.anchor.y /\ e.anchor.y <= m.table_spans[i][2]
      slot == IF in_table THEN 0 ELSE TakeAnchorSlot(m, e)
  IN IF start \in DOMAIN m.starts
     THEN [m EXCEPT !.doc = MoveChildAfter(@, Body, ref, m.starts[start])]
     ELSE IF slot = 0 THEN [m EXCEPT !.floating = @ \cup {ref}]
     ELSE [m EXCEPT !.doc = MoveChildAfter(@, Body, ref, m.slots[slot].after),
                    !.slots = RemoveAt(@, slot)]

\* slot_inline_picture: behind the paragraph it starts with, in the place of
\* the blank line it is anchored in, or left to be judged against the body.
\* The lines that waited behind the same item now wait behind the picture.
SlotInlinePicture(m, e, ref) ==
  LET start == <<e.page, e.anchor>>
      in_table == \E i \in DOMAIN m.table_spans :
                    m.table_spans[i][1] <= e.anchor.y /\ e.anchor.y <= m.table_spans[i][2]
      slot == IF in_table THEN 0 ELSE TakeAnchorSlot(m, e)
      after == m.slots[slot].after
      Wait(i) == IF i > slot /\ m.slots[i].after = after THEN [m.slots[i] EXCEPT !.after = ref]
                 ELSE m.slots[i]
  IN IF start \in DOMAIN m.starts
     THEN [m EXCEPT !.doc = MoveChildAfter(@, Body, ref, m.starts[start])]
     ELSE IF slot = 0 THEN [m EXCEPT !.floating = @ \cup {ref}]
     ELSE [m EXCEPT !.doc = MoveChildAfter(@, Body, ref, after),
                    !.slots = RemoveAt(AsTuple([i \in DOMAIN @ |-> Wait(i)]), slot)]

\* on_embedded_image outside a deck: a header's picture is kept once in the
\* furniture; another is compared with what is placed already.
OnWriterImage(m, e) ==
  LET ref == NewRef(m, "pictures")
      sheet == IF m.type # "spreadsheet" \/ e.page \notin DOMAIN m.sheets THEN Body
               ELSE m.sheets[e.page].group
      home == IF m.type = "spreadsheet" THEN sheet
              ELSE IF e.path \in DOMAIN m.writer_groups THEN m.writer_groups[e.path] ELSE Body
      parent == IF e.header /\ home = Body THEN Furniture ELSE home
      layer == IF e.header \/ InFurniture(m.doc, parent) THEN "furniture" ELSE "body"
      anchored == e.anchor # <<>>
      prov == CASE anchored -> Prov(m, e.page, FALSE, Box(e.anchor, e.size), <<0, 0>>)
                [] ~anchored /\ e.lines # <<>> -> LineProv(m, e.lines, 0)
                [] ~anchored /\ e.lines = <<>> /\ m.type = "spreadsheet" -> PageProv(e.page, <<0, 0>>)
                [] OTHER -> <<>>
      known == IF e.header THEN m
               ELSE [m EXCEPT !.placed = (PlacedKey("image", <<>>, e) :> ref) @@ @]
      noted == [known EXCEPT !.header_objects = IF e.header THEN @ \cup {HeaderKey("image", e)} ELSE @]
      added == AddItem(noted, "pictures", parent, "picture", layer, e.text, prov)
  IN CASE e.header /\ HeaderKey("image", e) \in m.header_objects -> m
       [] ~e.header /\ PlacedKey("image", <<>>, e) \in DOMAIN m.placed ->
            RepeatsPlacedObject(m, PlacedKey("image", <<>>, e))
       [] OTHER -> IF parent = Body /\ anchored THEN SlotInlinePicture(added, e, ref) ELSE added

-----------------------------------------------------------------------------
(* Frames and shapes: a group that holds one text. *)

AddBoxedText(m, parent, layer, e, prov) ==
  LET group == NewRef(m, "groups")
      ref == NewRef(m, "texts")
      boxed == AddItem(AddItem(m, "groups", parent, "unspecified", layer, <<>>, <<>>),
                       "texts", group, "text", layer, e.text, prov)
  IN [WithReferences(boxed, ref, e) EXCEPT
        !.floating = IF parent = Body THEN @ \cup {group} ELSE @]

OnTextFrame(m, e) ==
  LET seen == [m EXCEPT !.frames_seen = TRUE]
      prov == IF e.anchor = <<>> THEN <<>>
              ELSE Prov(m, e.page, FALSE, Box(e.anchor, e.size), <<0, e.length>>)
  IN CASE Blank(e) -> seen
       [] ~Blank(e) /\ e.header ->
            IF HeaderKey("frame", e) \in m.header_objects THEN seen
            ELSE AddBoxedText([seen EXCEPT !.header_objects = @ \cup {HeaderKey("frame", e)}],
                              Furniture, "furniture", e, prov)
       [] OTHER ->
            IF PlacedKey("frame", <<>>, e) \in DOMAIN m.placed
            THEN RepeatsPlacedObject(seen, PlacedKey("frame", <<>>, e))
            ELSE AddBoxedText([seen EXCEPT !.placed =
                                 (PlacedKey("frame", <<>>, e) :> NewRef(m, "groups")) @@ @],
                              Body, "body", e, prov)

\* The path the children of a group carry.
ChildPath(e) == Append(e.path, e.z)

\* A group's children find it by their path; only a shape that is no child
\* can say it sits in a header.
OnShape(m, e) ==
  LET home == IF e.path \in DOMAIN m.writer_groups THEN m.writer_groups[e.path] ELSE Body
      header == home = Body /\ e.header
      parent == IF header THEN Furniture ELSE home
      layer == IF InFurniture(m.doc, parent) THEN "furniture" ELSE "body"
      key == PlacedKey("shape", e.path, e)
      page == IF e.positioned THEN PageForPoint(m, e.anchor.x + e.size.x \div 2, e.anchor.y + e.size.y \div 2)
              ELSE e.page
      prov == IF e.anchor = <<>> THEN <<>>
              ELSE Prov(m, page, FALSE, Box(e.anchor, e.size), <<0, e.length>>)
      group == NewRef(m, "groups")
  IN CASE e.is_group ->
            [AddItem(m, "groups", parent, "picture_area", layer, <<>>, <<>>) EXCEPT
               !.writer_groups = (ChildPath(e) :> group) @@ @,
               !.floating = IF parent = Body THEN @ \cup {group} ELSE @]
       [] ~e.is_group /\ Blank(e) -> m
       [] ~e.is_group /\ ~Blank(e) /\ header ->
            IF HeaderKey("shape", e) \in m.header_objects THEN m
            ELSE AddBoxedText([m EXCEPT !.header_objects = @ \cup {HeaderKey("shape", e)}],
                              parent, layer, e, prov)
       [] OTHER ->
            IF key \in DOMAIN m.placed THEN RepeatsPlacedObject(m, key)
            ELSE AddBoxedText([m EXCEPT !.placed = (key :> group) @@ @], parent, layer, e, prov)

-----------------------------------------------------------------------------
(* Headers and footers wait until every page is in. *)

OnHeaderFooter(m, e) == [m EXCEPT !.blocks = Append(@, e)]

\* A block sits on the pages of its style and on the pages of no known style;
\* one that is on no page of a paged document is left out.
PlaceHeadersFooters(m) ==
  LET pages == DOMAIN m.doc.pages
      PagesOf(b) == {p \in pages : m.page_style[p] \in {"", b.style}}
      shown == SelectSeq(m.blocks, LAMBDA b : ~Blank(b) /\ (PagesOf(b) # {} \/ pages = {}))
      Lines(b) == LET order == SetToSortSeq(PagesOf(b), <)
                  IN [i \in DOMAIN order |-> Entry(order[i] - 1, NoBox, <<0, 1>>)]
      Add(acc, b) == AddItem(acc, "texts", Furniture, IF b.footer THEN "page_footer" ELSE "page_header",
                             "furniture", b.text, Lines(b))
  IN [FoldLeft(Add, m, shown) EXCEPT !.blocks = <<>>]

-----------------------------------------------------------------------------
(* Floating items find their place once the body is in. *)

Earlier(p, q) == p.page < q.page \/ (p.page = q.page /\ p.box.t < q.box.t)

\* deferred_floating_: what streamed ahead of the text goes behind it.
DeferToEnd(m) ==
  LET late == SelectSeq(m.deferred, LAMBDA r : r \in ToSet(m.doc.body))
      rest == SelectSeq(m.doc.body, LAMBDA c : c \notin ToSet(late))
  IN [m EXCEPT !.doc.body = rest \o late, !.floating = @ \cup ToSet(late)]

\* anchor_pictures_by_provenance (document_reading_order.cpp): the movers leave
\* the container and are put back, by page and top edge, beside the kept item
\* they overlap or before the first kept item of the page that starts no
\* higher; the slots are chosen against the kept items alone.
Beside(mine, box) ==
  /\ Min({box.b, mine.b}) > Max({box.t, mine.t})
  /\ 2 * mine.t >= 2 * box.t - Min({box.b - box.t, mine.b - mine.t})
Near(x, y) == x - y \in -1..1

AnchorSlot(mine, kept) ==
  LET n == Len(kept)
      OnPage(i) == Placed(kept[i]) /\ kept[i].page = mine.page
      on == {i \in 1..n : OnPage(i)}
      beside == {i \in on : Beside(mine.box, kept[i].box)}
      below == {i \in on : kept[i].box.t >= mine.box.t}
      later == {i \in 1..n : Placed(kept[i]) /\ kept[i].page > mine.page}
      Same(i) == i < n /\ OnPage(i + 1) /\ Near(kept[i + 1].box.t, kept[i].box.t)
                       /\ Near(kept[i + 1].box.b, kept[i].box.b)
      Above(i) == i < n /\ OnPage(i + 1) /\ kept[i + 1].box.t < mine.box.t
      \* the end of the run that begins at i
      RunEnd(i, goes) == Min({j \in i..n : j \notin goes})
  IN CASE beside # {} ->
            RunEnd(RunEnd(Min(beside), {i \in 1..n : Same(i)}), {i \in 1..n : Above(i)}) + 1
       [] beside = {} /\ below # {} -> Min(below)
       [] beside = {} /\ below = {} /\ on # {} -> Max(on) + 1
       [] beside = {} /\ on = {} /\ later # {} -> Min(later)
       [] OTHER -> n + 1

\* Where every item sits.
Placements(doc) ==
  LET heights == DocumentPageHeights(doc)
  IN [r \in Slots(doc) |-> ItemPlacement(doc, r, heights)]

MoversFirst(place, movers, c, d) ==
  LET p == place[c]
      q == place[d]
  IN \/ Earlier(p, q)
     \/ p.page = q.page /\ p.box.t = q.box.t /\ p.box.l < q.box.l
     \/ /\ p.page = q.page /\ p.box.t = q.box.t /\ p.box.l = q.box.l
        /\ SeqIndex(movers, c) < SeqIndex(movers, d)
Sorted(place, movers) == SetToSortSeq(ToSet(movers), LAMBDA c, d : MoversFirst(place, movers, c, d))

\* The kept items with, before each and behind the last, the movers whose slot
\* that is.
WithMovers(kept, movers, slot) ==
  LET In(i) == SelectSeq(movers, LAMBDA c : slot[c] = i)
  IN FlattenSeq([i \in 1..(Len(kept) + 1) |-> IF i > Len(kept) THEN In(i) ELSE Append(In(i), kept[i])])

PlaceMovers(place, kept, movers) ==
  WithMovers(kept, Sorted(place, movers),
             [c \in ToSet(movers) |-> AnchorSlot(place[c], AsTuple([i \in DOMAIN kept |-> place[kept[i]]]))])

AnchorPicturesAt(doc, place, moving, container) ==
  LET children == ChildrenOf(doc, container)
      kept == SelectSeq(children, LAMBDA c : c \notin moving)
      movers == SelectSeq(children, LAMBDA c : c \in moving /\ Placed(place[c]))
      trailing == SelectSeq(children, LAMBDA c : c \in moving /\ ~Placed(place[c]))
  IN WithChildren(doc, container, PlaceMovers(place, kept, movers) \o trailing)
AnchorPictures(doc, moving, container) == AnchorPicturesAt(doc, Placements(doc), moving, container)

\* place_page_only_pictures: a picture that knows its page and no box goes
\* before the first item of the page, behind the pictures there.
PageKnown(doc, place, r) ==
  CASE Placed(place[r]) -> place[r].page
    [] ~Placed(place[r]) /\ r[1] = "pictures" -> FirstPageOf(At(doc, r).prov)
    [] OTHER -> 0
MovePageOnly(doc, only, page, r) ==
  LET rest == SelectSeq(doc.body, LAMBDA c : c # r)
      Stops(c) == page[c] > page[r] \/ (page[c] = page[r] /\ c \notin only /\ c[1] # "pictures")
      at == SelectInSeq(rest, Stops)
  IN IF at = 0 THEN doc ELSE MoveChildAfter(doc, Body, r, IF at = 1 THEN NoRef ELSE rest[at - 1])
PlacePageOnlyPictures(doc, floating, place) ==
  LET PageOnly(r) == r[1] = "pictures" /\ r \in floating /\ ~Placed(place[r]) /\ PageKnown(doc, place, r) >= 1
      only == SelectSeq(doc.body, PageOnly)
      Move(d, r) == MovePageOnly(d, ToSet(only), [c \in ToSet(doc.body) |-> PageKnown(doc, place, c)], r)
  IN FoldLeft(Move, doc, only)

\* anchor_trailing_pictures: a floating item that sits above what came before
\* it trails; the others floating on its page move with it.
Trailing(body, floating, place) ==
  LET Walk(acc, c) ==
        IF ~Placed(place[c]) THEN acc
        ELSE IF c \in floating /\ Placed(acc.last) /\ Earlier(place[c], acc.last)
             THEN [acc EXCEPT !.trailing = @ \cup {c}]
             ELSE [acc EXCEPT !.last = place[c]]
  IN FoldLeft(Walk, [trailing |-> {}, last |-> Nowhere], body).trailing
WithPageMates(body, floating, place, trailing) ==
  trailing \cup {r \in ToSet(body) \cap floating :
                   Placed(place[r]) /\ \E t \in trailing : place[t].page = place[r].page}
AnchorTrailing(doc, floating, place) ==
  PlacePageOnlyPictures(
    AnchorPicturesAt(doc, place,
                     WithPageMates(doc.body, floating, place, Trailing(doc.body, floating, place)), Body),
    floating, place)
AnchorTrailingPictures(m) ==
  IF m.type # "text" \/ m.floating = {} THEN m
  ELSE [m EXCEPT !.doc = AnchorTrailing(@, m.floating, Placements(@))]

-----------------------------------------------------------------------------
(* annotation_fold.cpp: comments, changes and bookmarks. *)

\* A comment may come before the paragraph it is about.
OnComment(m, e) ==
  LET opened == IF m.comments_group # NoRef THEN m
                ELSE [AddItem(m, "groups", Furniture, "comment_section", "furniture", <<>>, <<>>)
                        EXCEPT !.comments_group = NewRef(m, "groups")]
      ref == NewRef(m, "texts")
      added == AddItem(opened, "texts", opened.comments_group, "text", "furniture", e.text,
                       CaretProv(m, e.page, e.anchor, e.anchor, 1))
  IN [added EXCEPT
        !.index.names = IF e.name = "" THEN @ ELSE (e.name :> ref) @@ @,
        !.index.replies = IF e.to = "" THEN @ ELSE Append(@, [from |-> ref, to |-> e.to]),
        !.index.comments = IF e.start < 0 THEN @
                           ELSE Append(@, [ref |-> ref, start |-> e.start, end |-> e.end])]

\* Bug: the target is looked for in what has streamed so far.
OnTrackedChangeEarly(m, e) ==
  LET known == Resolve(m.index.spans, e.start, e.end).ref # NoRef
  IN [m EXCEPT !.index.changes =
        Append(@, [id |-> e.name, start |-> IF known THEN e.start ELSE -1, end |-> e.end])]

\* A record of the document; where it stands resolves with the status.
OnTrackedChange(m, e) ==
  [m EXCEPT !.index.changes = Append(@, [id |-> e.name, start |-> e.start, end |-> e.end])]
OnBookmark(m, e) ==
  [m EXCEPT !.index.bookmarks = Append(@, [name |-> e.name, start |-> e.start, end |-> e.end])]

-----------------------------------------------------------------------------
(* form_fold.cpp: one region and one form, each field a key and a value. *)

EnsureFormArena(m) ==
  IF m.doc.forms # <<>> THEN m
  ELSE LET region == AddItem(m, "forms", Body, "field_region", "body", <<>>, <<>>)
       IN AddItem(region, "forms", Body, "form", "body", <<>>, <<>>)
FieldRegion == <<"forms", 1>>

AddFieldKey(m, e, field) ==
  IF e.label = <<>> THEN m
  ELSE [AddItem(m, "texts", field, "field_key", "body", e.label, <<>>) EXCEPT
          !.graph = [cells |-> Append(@.cells, NewRef(m, "texts")),
                     links |-> Append(@.links, <<Len(@.cells) + 1, Len(@.cells) + 2>>)]]
AddFieldValue(m, e, field, prov) ==
  [AddItem(m, "texts", field,
           CASE e.checkbox /\ e.checked -> "checkbox_selected"
             [] e.checkbox /\ ~e.checked -> "checkbox_unselected"
             [] OTHER -> "field_value",
           "body", IF e.text = <<>> /\ ~e.checkbox THEN e.label ELSE e.text, prov) EXCEPT
     !.graph.cells = Append(@, NewRef(m, "texts")),
     !.index.fields = IF e.start < 0 THEN @
                      ELSE Append(@, [field |-> field, start |-> e.start, end |-> e.end])]
AddField(m, e, prov) ==
  AddFieldValue(AddFieldKey(AddItem(m, "forms", FieldRegion, "field_item", "body", <<>>, prov),
                            e, NewRef(m, "forms")),
                e, NewRef(m, "forms"), prov)
OnFormField(m, e) ==
  AddField(EnsureFormArena(m), e,
           IF e.control THEN Prov(m, e.page, FALSE, Box(e.anchor, e.size), <<0, 0>>)
           ELSE CaretProv(m, e.page, e.anchor, e.anchor, 0))

\* place_form: the region and the form are on the pages of their fields.
PlaceForm(m) ==
  LET forms == m.doc.forms
      pages == UNION {{p.page : p \in ToSet(forms[i].prov)} : i \in DOMAIN forms}
      order == SetToSortSeq(pages, <)
      prov == AsTuple([i \in DOMAIN order |-> Entry(order[i] - 1, NoBox, <<>>)])
  IN IF forms = <<>> THEN m
     ELSE [m EXCEPT !.doc.forms[1].prov = prov, !.doc.forms[2].prov = prov]
=============================================================================
