--------------------------- MODULE DocumentRepair ---------------------------
(***************************************************************************)
(* The repairs repair_document runs over a finished document, each taking  *)
(* and returning the document and its renumberings: running headers and    *)
(* footers demoted, run-in headings and form rows split, heading levels    *)
(* inferred, continuations merged, hyphenated words rejoined.              *)
(***************************************************************************)
EXTENDS ReadingOrder

CONSTANTS
  GeometryCollectors,      \* geometry_collectors, {"pdf"} in the code
  LineJoinedCollectors,    \* line_joined_collectors
  MinimumRepeatPages,      \* 3 in the code
  MaximumFurnitureWords,   \* 12
  MaximumMerges            \* 256

IsProse(n) == n.self[1] = "texts" /\ n.label \in {"text", "paragraph"}
FromCollectors(n, collectors) == n.sources # {} /\ n.sources \subseteq collectors
\* The body positions a rule looks at: prose, and with the furniture tree
\* migrated nothing on the furniture layer.
BodyProse(doc, migrate) ==
  {i \in DOMAIN doc.body : /\ doc.body[i] \in Slots(doc) /\ IsProse(At(doc, doc.body[i]))
                           /\ ~(migrate /\ At(doc, doc.body[i]).layer = "furniture")}

-----------------------------------------------------------------------------
(* demote_running_furniture *)

PageCount(doc) ==
  IF doc.pages # <<>> THEN Cardinality(DOMAIN doc.pages)
  ELSE Cardinality(UNION {{e.page : e \in ToSet(doc.texts[i].prov)} : i \in DOMAIN doc.texts} \ {0})

\* Twelve hundredths of the page at either end.
BandOf(extent, height) ==
  CASE extent.t < 0 \/ extent.b > height -> "none"
    [] 100 * extent.b <= 12 * height -> "top"
    [] 100 * extent.t >= 88 * height -> "bottom"
    [] OTHER -> "none"

\* The extent of the block of lines a box belongs to: boxes that overlap
\* horizontally and sit within the shorter one's height of each other.
BlockExtent(boxes, box) ==
  LET Overlap(a, c) == Min({a.r, c.r}) > Max({a.l, c.l})
      Gap(a, c) == Max({0, c.t - a.b, a.t - c.b})
      Near(a, c) == Overlap(a, c) /\ Gap(a, c) <= Min({a.b - a.t, c.b - c.t})
      block[n \in 0..Cardinality(boxes)] ==
        IF n = 0 THEN {box} ELSE {c \in boxes : \E a \in block[n - 1] : a = c \/ Near(a, c)}
  IN Hull(block[Cardinality(boxes)])

\* The pages a pattern must recur on: 4/10 of them, and no fewer than the
\* minimum.
RepeatThreshold(pages) == Max({MinimumRepeatPages, (4 * pages + 9) \div 10})

\* A direct body child that is prose with a page and a box, whose whole block
\* lies in a band, and whose text recurs or numbers the page.
FurnitureLines(doc, heights, where) ==
  LET Beside(i) == {where[j].box : j \in {k \in DOMAIN where : where[k].page = where[i].page}}
      Line(i, text) == [at |-> i, page |-> where[i].page, text |-> text, pattern |-> NormalizeRunningText(text),
                        band |-> BandOf(BlockExtent(Beside(i), where[i].box), heights[where[i].page])]
  IN {c \in {Line(i, At(doc, doc.body[i]).text) : i \in DOMAIN where} :
        c.band # "none" /\ c.pattern # <<>> /\ WordCount(c.text) <= MaximumFurnitureWords}
Demoted(lines, pages) ==
  {c \in lines : \/ Cardinality({d.page : d \in {x \in lines : x.pattern = c.pattern}}) >= RepeatThreshold(pages)
                 \/ IsPageNumber(c.text, pages)}
\* They leave the body for the furniture root in page order.
ToFurniture(doc, lines) ==
  LET at == {c.at : c \in lines}
      Line(i) == CHOOSE c \in lines : c.at = i
      order == SortSeq(Indices(Len(doc.body), at),
                       LAMBDA i, j : LexLess(<<Line(i).page, i>>, <<Line(j).page, j>>))
      Relabel(n) == LET own == {c \in lines : doc.body[c.at] = n.self}
                        top == (CHOOSE c \in own : TRUE).band = "top"
                    IN IF own = {} THEN n
                       ELSE [n EXCEPT !.label = IF top THEN "page_header" ELSE "page_footer",
                                      !.layer = "furniture", !.parent = Furniture]
  IN [MapItems(doc, Relabel) EXCEPT
        !.body = Pick(@, Indices(Len(doc.body), DOMAIN doc.body \ at)),
        !.furniture = @ \o Pick(doc.body, order)]
DemoteRunningFurniture(work, migrate) ==
  LET doc == work.doc
      heights == DocumentPageHeights(doc)
      Where(i) == ProvenancePlacement(At(doc, doc.body[i]).prov, heights)
      placed == {i \in BodyProse(doc, migrate) : At(doc, doc.body[i]).children = <<>> /\ Placed(Where(i))}
      lines == FurnitureLines(doc, heights, [i \in placed |-> Where(i)])
  IN IF PageCount(doc) < 2 THEN work
     ELSE [work EXCEPT !.doc = ToFurniture(doc, Demoted(lines, PageCount(doc)))]

-----------------------------------------------------------------------------
(* split_text_item *)

\* The share [from, to) of a box's height out of total, in whole points.
StripOf(e, from, to, total) ==
  [e EXCEPT !.t = e.t + ((e.b - e.t) * from) \div total,
            !.b = e.t + ((e.b - e.t) * to) \div total]

\* A span of the piece that begins at from, after the trim took lead tokens.
MoveSpan(span, from, lead, size) ==
  [span EXCEPT !.start = Max({@ - from - lead, 0}), !.end = Min({Max({@ - from - lead, 0}), size})]

\* The pieces of text i cut before the positions `cuts`: the first keeps the
\* item, each other one is a new item listed right after it.
PieceOf(n, from, to) ==
  LET raw == SubSeq(n.text, from + 1, to)
      slice == Trim(raw)
      lead == IF slice = <<>> THEN 0 ELSE Len(Prefix(raw, IsSpace))
      Strip(e) == [StripOf(e, from, to, Len(n.text)) EXCEPT !.charspan = IF @ = <<>> THEN @ ELSE <<0, Len(slice)>>]
      own == SelectSeq(n.spans, LAMBDA s : s.start >= from /\ s.start < to)
  IN [n EXCEPT !.text = slice, !.prov = [j \in DOMAIN @ |-> Strip(@[j])],
               !.spans = [j \in DOMAIN own |-> MoveSpan(own[j], from, lead, Len(slice))]]
SplitTextItem(doc, i, cuts) ==
  LET n == doc.texts[i]
      size == Len(n.text)
      at == Indices(size, {1} \cup {c \in cuts : c > 1 /\ c <= size})
      edge == Append(at, size + 1)
      fresh == [k \in 1..(Len(at) - 1) |-> <<"texts", Len(doc.texts) + k>>]
      Named(k, piece) == IF k = 1 THEN piece
                         ELSE [Item(fresh[k - 1], n.parent, n.label) EXCEPT
                                 !.layer = n.layer, !.sources = n.sources, !.text = piece.text,
                                 !.prov = piece.prov, !.spans = piece.spans]
      pieces == [k \in DOMAIN at |-> Named(k, PieceOf(n, edge[k] - 1, edge[k + 1] - 1))]
      After(refs) == LET p == Min({j \in DOMAIN refs : refs[j] = n.self})
                     IN SubSeq(refs, 1, p) \o fresh \o From(refs, p + 1)
      Holds(r) == n.self \in ToSet(ChildrenOf(doc, r))
      holders == {r \in {n.parent} \cap Slots(doc) : r[1] # "groups" /\ Holds(r)}
      groups == {r \in {"groups"} \X DOMAIN doc.groups : Holds(r)}
      split == [doc EXCEPT !.texts = [@ EXCEPT ![i] = pieces[1]] \o Tail(pieces)]
  IN CASE holders # {} -> [split EXCEPT ![n.parent[1]][n.parent[2]].children = After(@)]
       [] holders = {} /\ Holds(Body) -> [split EXCEPT !.body = After(@)]
       [] holders = {} /\ ~Holds(Body) /\ Holds(Furniture) -> [split EXCEPT !.furniture = After(@)]
       [] holders = {} /\ ~Holds(Body) /\ ~Holds(Furniture) /\ groups # {} ->
            [split EXCEPT !.groups[Min({r[2] : r \in groups})].children = After(@)]
       [] OTHER -> split

IsBodyProse(n) == IsProse(n) /\ n.layer = "body" /\ n.children = <<>>
\* Every original text is tried once; a run-in heading changes label.
SplitRunInHeadings(work) ==
  LET Step(doc, i) ==
        LET n == doc.texts[i]
            cuts == RunInHeadingEnd(n.text)
        IN IF IsBodyProse(n) /\ FromCollectors(n, GeometryCollectors) /\ cuts # {}
           THEN [SplitTextItem(doc, i, cuts) EXCEPT !.texts[i].label = "section_header"] ELSE doc
  IN [work EXCEPT !.doc = FoldLeft(Step, @, [i \in DOMAIN work.doc.texts |-> i])]
SplitFormRows(work) ==
  LET Step(doc, i) ==
        LET n == doc.texts[i]
            cuts == FormRowStarts(n.text)
        IN IF IsBodyProse(n) /\ FromCollectors(n, GeometryCollectors) /\ cuts # {}
           THEN SplitTextItem(doc, i, cuts) ELSE doc
  IN [work EXCEPT !.doc = FoldLeft(Step, @, [i \in DOMAIN work.doc.texts |-> i])]

-----------------------------------------------------------------------------
(* rejoin_hyphenation *)

\* A position moves past what was removed before it.
PositionRemap(removed, position) == position - Cardinality({i \in removed : i <= position})

RejoinHyphenation(work) ==
  LET Rejoined(n, done) ==
        LET Move(p) == PositionRemap(done.removed, p)
        IN IF ~IsProse(n) \/ done.removed = {} THEN n
           ELSE [n EXCEPT !.text = done.out,
                  !.spans = [k \in DOMAIN @ |-> [@[k] EXCEPT !.start = Move(@), !.end = Move(@)]],
                  !.prov = [k \in DOMAIN @ |->
                              [@[k] EXCEPT !.charspan = [j \in DOMAIN @ |-> Move(@[j])]]]]
      Rejoin(n) == Rejoined(n, RejoinHyphenatedWords(n.text, FromCollectors(n, LineJoinedCollectors)))
  IN [work EXCEPT !.doc = MapItems(@, Rejoin)]

-----------------------------------------------------------------------------
(* merge_continuations *)

\* The lowest box of the last page, or the highest of the first; Nowhere when
\* there is none.
EdgeOn(prov, page, heights, lowest) ==
  LET on == {i \in DOMAIN prov : prov[i].page = page}
      best == {i \in on : \A j \in on : IF lowest THEN prov[i].b >= prov[j].b ELSE prov[i].t <= prov[j].t}
  IN IF page \notin DOMAIN heights \/ on = {} THEN Nowhere
     ELSE [page |-> page, box |-> LET e == prov[Min(best)]
                                  IN [l |-> e.l, t |-> e.t, r |-> e.r, b |-> e.b]]

\* Whether the layout explains the split: the head ran into the lower half of
\* the page before, or the tail starts a column further and a line higher.
Continues(head, tail, heights) ==
  LET end == EdgeOn(head.prov, LastPageOf(head.prov), heights, TRUE)
      start == EdgeOn(tail.prov, FirstPageOf(tail.prov), heights, FALSE)
      line == Max({end.box.b - end.box.t, 1})
  IN /\ head.children = <<>> /\ tail.children = <<>>
     /\ EndsOpen(head.text) /\ StartsLowercase(tail.text)
     /\ ReadsAsContinuation(head.text, tail.text)
     /\ Placed(end) /\ Placed(start)
     /\ \/ start.page = end.page + 1 /\ 2 * end.box.b >= heights[end.page]
        \/ start.page = end.page /\ start.box.t <= end.box.t - line /\ start.box.l >= end.box.r

\* The tail's spans move by what now precedes its text; its provenance is
\* carried over as it is.
Absorb(head, tail) ==
  LET joined == JoinedText(head.text, tail.text)
      shift == Len(joined) - Len(tail.text)
  IN [head EXCEPT !.text = joined, !.prov = @ \o tail.prov, !.sources = @ \cup tail.sources,
                  !.spans = @ \o [k \in DOMAIN tail.spans |-> [tail.spans[k] EXCEPT
                                    !.start = @ + shift, !.end = @ + shift]]]

\* One walk over the body: the last prose absorbs what continues it; anything
\* but prose ends the paragraph, migrated furniture is looked past.
MergeContinuations(work, migrate) ==
  LET heights == DocumentPageHeights(work.doc)
      prose == BodyProse(work.doc, migrate)
      past == {i \in DOMAIN work.doc.body : migrate /\ work.doc.body[i] \in Slots(work.doc) /\
                                            At(work.doc, work.doc.body[i]).layer = "furniture"}
      Step(acc, i) ==
        LET r == work.doc.body[i]
            head == At(acc.doc, acc.anchor)
            joins == /\ acc.anchor # NoRef /\ Cardinality(DOMAIN acc.absorbed) < MaximumMerges
                     /\ Continues(head, At(acc.doc, r), heights)
        IN CASE i \in past -> acc
             [] i \notin past \cup prose -> [acc EXCEPT !.anchor = NoRef]
             [] i \in prose /\ joins ->
                  [acc EXCEPT !.doc = SetItem(@, acc.anchor, Absorb(head, At(acc.doc, r))),
                              !.absorbed = [x \in DOMAIN @ \cup {r} |->
                                              IF x = r THEN acc.anchor ELSE @[x]]]
             [] OTHER -> [acc EXCEPT !.anchor = r]
      Close(acc) == RetireTextItems([work EXCEPT !.doc = acc.doc], acc.absorbed)
  IN Close(FoldLeft(Step, [doc |-> work.doc, anchor |-> NoRef, absorbed |-> <<>>],
                    [i \in DOMAIN work.doc.body |-> i]))
=============================================================================
