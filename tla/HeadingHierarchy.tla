-------------------------- MODULE HeadingHierarchy --------------------------
(***************************************************************************)
(* infer_heading_hierarchy of heading_hierarchy.cpp: geometry headings     *)
(* that read as prose go back to text, the title block is folded and       *)
(* promoted, and every heading without a producer's own level gets one     *)
(* from its numbering, its section word or its height.  Font styles,       *)
(* bookmarks and requested numbering schemes are left out.                 *)
(***************************************************************************)
EXTENDS DocumentRepair

MaximumLevel == 6
\* A height is visibly smaller below 85/100 of another.
VisiblySmaller(h, than) == 100 * h < 85 * than

MedianOf(values) ==
  IF values = <<>> THEN 0 ELSE SortSeq(values, LAMBDA a, b : a < b)[(Len(values) \div 2) + 1]

DemoteProseHeadings(doc) ==
  LET Op(n) == IF /\ n.self[1] = "texts" /\ n.label = "section_header"
                  /\ FromCollectors(n, GeometryCollectors) /\ HeadingReadsAsProse(n.text)
               THEN [n EXCEPT !.label = "text", !.level = 0] ELSE n
  IN MapItems(doc, Op)

\* The headings to decide: no level yet, or one a geometry collector guessed.
Candidates(doc) ==
  LET heights == DocumentPageHeights(doc)
      Heading(i) == doc.texts[i].label = "section_header" /\
                    (doc.texts[i].level = 0 \/ FromCollectors(doc.texts[i], GeometryCollectors))
      Header(i) ==
        LET n == doc.texts[i]
            at == ProvenancePlacement(n.prov, heights)
            tall == SelectSeq([k \in DOMAIN n.prov |-> n.prov[k].b - n.prov[k].t], LAMBDA h : h > 0)
        IN [ref |-> <<"texts", i>>, text |-> n.text, height |-> MedianOf(tall), top |-> at.box.t,
            bottom |-> at.box.b, page |-> IF Placed(at) THEN at.page ELSE FirstPageOf(n.prov)]
      found == Indices(Len(doc.texts), {i \in DOMAIN doc.texts : Heading(i)})
  IN [k \in DOMAIN found |-> Header(found[k])]

\* The lines of the title: the unnumbered block that opens the first page,
\* when every other heading is visibly smaller.
OpeningBlock(opening) ==
  LET Stops(k) == \/ HeadingNumberingDepth(opening[k].text) > 0 \/ opening[k].height = 0
                  \/ k > 1 /\ LET a == opening[k - 1]
                                  b == opening[k]
                              IN \/ b.top - a.bottom > Max({a.height, b.height})
                                 \/ 100 * Min({a.height, b.height}) < 70 * Max({a.height, b.height})
  IN SubSeq(opening, 1, Min({k \in DOMAIN opening : Stops(k)} \cup {Len(opening) + 1}) - 1)
TitleBlock(headers, block) ==
  LET tallest == Max({block[k].height : k \in DOMAIN block})
      others == {h \in ToSet(headers) \ ToSet(block) : h.height > 0}
  IN IF block # <<>> /\ others # {} /\ \A h \in others : VisiblySmaller(h.height, tallest)
     THEN [k \in DOMAIN block |-> block[k].ref] ELSE <<>>
TitleLines(headers) ==
  LET pages == {headers[i].page : i \in DOMAIN headers} \ {0}
      opening == SortSeq(SelectSeq(headers, LAMBDA h : h.page = Min(pages)),
                         LAMBDA a, b : a.top < b.top)
  IN IF pages = {} THEN <<>> ELSE TitleBlock(headers, OpeningBlock(opening))

\* The tail's spans move past the head's text and the joining space, less the
\* whitespace trimmed from the tail.
FoldTitleLine(head, tail) ==
  LET h == TrimRight(head.text)
      t == TrimLeft(tail.text)
      shift == Len(h) + 1 - (Len(tail.text) - Len(t))
  IN [head EXCEPT !.text = h \o <<" ">> \o t, !.prov = @ \o tail.prov,
                  !.spans = @ \o [k \in DOMAIN tail.spans |-> [tail.spans[k] EXCEPT
                                    !.start = @ + shift, !.end = @ + shift]]]

\* The lines that follow the first one directly in the body fold into it.
MergeTitleLines(work, lines) ==
  LET doc == work.doc
      head == lines[1]
      first == Min({i \in DOMAIN doc.body : doc.body[i] = head} \cup {Len(doc.body) + 1})
      follows(k) == first + k - 1 <= Len(doc.body) /\ doc.body[first + k - 1] = lines[k]
      last == Min({k \in 2..Len(lines) : ~follows(k)} \cup {Len(lines) + 1}) - 1
      Fold(d, r) == SetItem(d, head, FoldTitleLine(At(d, head), At(d, r)))
      folded == FoldLeft(Fold, doc, SubSeq(lines, 2, last))
  IN RetireTextItems([work EXCEPT !.doc = folded],
                     [r \in ToSet(SubSeq(lines, 2, last)) |-> head])

-----------------------------------------------------------------------------
(* Levels. *)

\* Tallest first, a heading visibly smaller than the one that founded the
\* current depth founds the next.
ClusterByHeight(headers) ==
  LET sorted == SortSeq(SelectSeq(headers, LAMBDA h : h.height > 0), LAMBDA a, b : a.height > b.height)
      Step(acc, h) == IF acc.depth = 0 \/ VisiblySmaller(h.height, acc.founding)
                      THEN [depth |-> acc.depth + 1, founding |-> h.height,
                            of |-> [r \in DOMAIN acc.of \cup {h.ref} |->
                                      IF r = h.ref THEN acc.depth + 1 ELSE acc.of[r]]]
                      ELSE [acc EXCEPT !.of = [r \in DOMAIN @ \cup {h.ref} |->
                                                 IF r = h.ref THEN acc.depth ELSE @[r]]]
  IN FoldLeft(Step, [depth |-> 0, founding |-> 0, of |-> <<>>], sorted).of

\* The depth of the numbered headings of the nearest median height.
DepthByNearestCluster(height, medians) ==
  LET depths == DOMAIN medians
      Far(d) == IF medians[d] > height THEN medians[d] - height ELSE height - medians[d]
      near == {d \in depths : \A e \in depths : Far(d) <= Far(e)}
  IN CASE height = 0 \/ VisiblySmaller(medians[Min(depths)], height) -> 1
       [] height > 0 /\ VisiblySmaller(height, medians[Max(depths)]) -> Max(depths) + 1
       [] OTHER -> Min(near)

\* The depth a heading states: its numbering's, else 1 for a section word.
StatedDepth(text, numbering) == IF numbering = 0 /\ IsSectionWordHeading(text) THEN 1 ELSE numbering
LevelsBeside(headers, title, stated) ==
  LET Stated(h) == stated[h.ref]
      rest == SelectSeq(headers, LAMBDA h : h.ref \notin title)
      open == SelectSeq(rest, LAMBDA h : Stated(h) = 0)
      depths == {Stated(h) : h \in {x \in ToSet(rest) : x.height > 0}} \ {0}
      medians == [d \in depths |-> LET of == SelectSeq(rest, LAMBDA h : Stated(h) = d /\ h.height > 0)
                                   IN MedianOf([k \in DOMAIN of |-> of[k].height])]
      clusters == ClusterByHeight(open)
      Depth(h) == CASE h.ref \in title -> 1
                    [] h.ref \notin title /\ Stated(h) > 0 -> Stated(h)
                    [] h.ref \notin title /\ Stated(h) = 0 /\ depths # {} ->
                         DepthByNearestCluster(h.height, medians)
                    [] OTHER -> IF h.ref \in DOMAIN clusters THEN clusters[h.ref] ELSE 1
  IN [r \in {h.ref : h \in ToSet(headers)} |->
        Min({MaximumLevel, Depth(CHOOSE h \in ToSet(headers) : h.ref = r)})]

InferHeadingLevels(headers) ==
  LevelsBeside(headers, ToSet(TitleLines(headers)),
               [r \in {h.ref : h \in ToSet(headers)} |->
                  LET text == (CHOOSE h \in ToSet(headers) : h.ref = r).text
                  IN StatedDepth(text, HeadingNumberingDepth(text))])

\* A document with a title of its own keeps its heading lines apart.
Titled(doc) == \E i \in DOMAIN doc.texts : doc.texts[i].label = "title"
FoldLines(work, lines) ==
  IF ~Titled(work.doc) /\ Len(lines) > 1 THEN MergeTitleLines(work, lines) ELSE work
Promote(work, title) ==
  IF Titled(work.doc) \/ Len(title) # 1 THEN work
  ELSE [work EXCEPT !.doc.texts[title[1][2]] = [@ EXCEPT !.label = "title", !.level = 0]]
SetLevels(doc, levels) ==
  LET Level(n) == IF n.self \in DOMAIN levels THEN [n EXCEPT !.level = levels[n.self]] ELSE n
  IN MapItems(doc, Level)
InferHeadingHierarchy(work) ==
  LET Folded(w) == FoldLines(w, TitleLines(Candidates(w.doc)))
      Promoted(w) == Promote(w, TitleLines(Candidates(w.doc)))
      Levelled(w) == [w EXCEPT !.doc = SetLevels(@, InferHeadingLevels(Candidates(@)))]
  IN Levelled(Promoted(Folded([work EXCEPT !.doc = DemoteProseHeadings(@)])))
=============================================================================
