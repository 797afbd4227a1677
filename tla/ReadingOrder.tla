----------------------------- MODULE ReadingOrder -----------------------------
(***************************************************************************)
(* The recursive whitespace cut of reading_order.cpp, and the body order   *)
(* document_reading_order.cpp derives with it: list groups split around a  *)
(* float, chains of body children, captions bound to their float.          *)
(***************************************************************************)
EXTENDS DocumentText

\* Shares are pairs <<n, d>> for n/d.  Items are paragraphs, so a band must be
\* twice the gutter to split rows first.
ItemCutPolicy == [band_over_gutter |-> 2, side_share |-> <<1, 2>>, parallel_share |-> <<1, 4>>]
AtLeast(x, share, y) == x * share[2] >= share[1] * y

\* The widest whitespace no span crosses, the first of equals; width 0 when
\* there is none.
WidestGap(spans) ==
  LET gaps == {g \in {[at |-> a[2], width |-> b[1] - a[2]] : a \in spans, b \in spans} :
                 g.width > 0 /\ \A s \in spans : s[2] <= g.at \/ s[1] >= g.at + g.width}
      widest == {g \in gaps : \A h \in gaps : h.width <= g.width}
  IN IF gaps = {} THEN [at |-> 0, width |-> 0]
     ELSE CHOOSE g \in widest : \A h \in widest : g.at <= h.at

\* The unit rows a set of boxes covers.
Rows(boxes) == UNION {x.t..(x.b - 1) : x \in boxes}
Extent(boxes) == Max({x.b : x \in boxes}) - Min({x.t : x \in boxes})

\* A vertical gap is a gutter when both sides are tall enough and run beside
\* each other.
IsGutter(boxes, gap, policy) ==
  LET before == {x \in boxes : x.l <= gap.at}
      after == boxes \ before
      shorter == Min({Cardinality(Rows(before)), Cardinality(Rows(after))})
  IN /\ AtLeast(Extent(before), policy.side_share, Extent(boxes))
     /\ AtLeast(Extent(after), policy.side_share, Extent(boxes))
     /\ AtLeast(Cardinality(Rows(before) \cap Rows(after)), policy.parallel_share, shorter)

\* The members of a sequence in the order given by their positions.
Pick(s, order) == [i \in DOMAIN order |-> s[order[i]]]
Indices(n, keep) == SelectSeq([i \in 1..n |-> i], LAMBDA i : i \in keep)

\* Bug: only gutters are cut, and what none separates stays as it came.
XYCutGutterFirst(boxes, policy) ==
  LET order[M \in SUBSET DOMAIN boxes] ==
        LET members == {boxes[i] : i \in M}
            x == WidestGap({<<c.l, c.r>> : c \in members})
            first == {i \in M : boxes[i].l <= x.at}
        IN IF Cardinality(M) <= 1 \/ x.width = 0 THEN Indices(Len(boxes), M)
           ELSE order[first] \o order[M \ first]
  IN order[DOMAIN boxes]

\* Cut at the widest gap on either axis, the policy arbitrating; where nothing
\* separates the members, top to bottom and left to right.
XYCutOrder(boxes, policy) ==
  LET order[M \in SUBSET DOMAIN boxes] ==
        LET members == {boxes[i] : i \in M}
            y == WidestGap({<<c.t, c.b>> : c \in members})
            x == WidestGap({<<c.l, c.r>> : c \in members})
            gutter == x.width > 0 /\ IsGutter(members, x, policy)
            bands == y.width > 0 /\ (~gutter \/ y.width >= policy.band_over_gutter * x.width)
            first == {i \in M : IF bands THEN boxes[i].t <= y.at ELSE boxes[i].l <= x.at}
            Geometric(i, j) == LexLess(<<boxes[i].t, boxes[i].l, i>>, <<boxes[j].t, boxes[j].l, j>>)
        IN CASE Cardinality(M) <= 1 -> Indices(Len(boxes), M)
             [] Cardinality(M) > 1 /\ (bands \/ gutter) -> order[first] \o order[M \ first]
             [] OTHER -> SortSeq(Indices(Len(boxes), M), Geometric)
  IN order[DOMAIN boxes]

-----------------------------------------------------------------------------
(* Chains: a placed body child and the unplaced ones that follow it. *)

FurnitureLabels == {"page_header", "page_footer"}
FloatLabels == {"table", "picture"}

\* An unplaced child rides with the main text before it, never with a footnote
\* or furniture; unplaced children before any main text form a chain of their
\* own.
BuildChains(doc, heights) ==
  LET Step(acc, pos) ==
        LET at == ItemPlacement(doc, doc.body[pos], heights)
            label == ItemLabel(doc, doc.body[pos])
            new == Append(acc.chains, [at |-> at, label |-> label, positions |-> <<pos>>])
            n == Len(acc.chains)
            Ride(k) == [acc EXCEPT !.chains[k].positions = Append(@, pos)]
        IN CASE Placed(at) ->
                  [chains |-> new, main |-> IF label \in FurnitureLabels \cup {"footnote"}
                                            THEN acc.main ELSE n + 1]
             [] ~Placed(at) /\ acc.main > 0 -> Ride(acc.main)
             [] ~Placed(at) /\ acc.main = 0 /\ n > 0 /\ ~Placed(acc.chains[n].at) -> Ride(n)
             [] OTHER -> [acc EXCEPT !.chains = new]
  IN FoldLeft(Step, [chains |-> <<>>, main |-> 0], [i \in DOMAIN doc.body |-> i]).chains

\* Half of a page's items must be placed for the cut to mean anything.
EnoughGeometry(chains, members) ==
  LET items == MapThenSumSet(LAMBDA i : Len(chains[i].positions), members)
  IN items > 0 /\ 2 * Cardinality({i \in members : Placed(chains[i].at)}) >= items

\* The nearest float a caption labels: 3/10 of its width over the float, at
\* most 3/2 of its height away; 0 when none.
CaptionTarget(chains, caption, floats) ==
  LET c == chains[caption].at.box
      Box(f) == chains[f].at.box
      Over(f) == Min({c.r, Box(f).r}) - Max({c.l, Box(f).l})
      Gap(f) == Max({0, c.t - Box(f).b, Box(f).t - c.b})
      near == {f \in floats : 10 * Over(f) >= 3 * (c.r - c.l) /\ 2 * Gap(f) <= 3 * (c.b - c.t)}
      best == {f \in near : \A g \in near : Gap(f) <= Gap(g)}
  IN IF best = {} THEN 0 ELSE Min(best)

CutOrder(chains, members) ==
  Pick(members, XYCutOrder([i \in DOMAIN members |-> chains[members[i]].at.box], ItemCutPolicy))

\* One page: main text by the cut with each caption after its float, then the
\* footnotes, then the furniture.
OrderPage(chains, members) ==
  LET Of(P(_)) == SelectSeq(members, P)
      Label(i) == chains[i].label
      furniture == Of(LAMBDA i : Label(i) \in FurnitureLabels)
      footnotes == Of(LAMBDA i : Label(i) = "footnote")
      captions == Of(LAMBDA i : Label(i) = "caption")
      text == Of(LAMBDA i : Label(i) \notin FurnitureLabels \cup {"footnote", "caption"})
      floats == {i \in ToSet(text) : Label(i) \in FloatLabels}
      Target(c) == CaptionTarget(chains, c, floats)
      main == text \o SelectSeq(captions, LAMBDA c : Target(c) = 0)
      Bind(out, i) == Append(out, i) \o SelectSeq(captions, LAMBDA c : Target(c) = i)
  IN FoldLeft(Bind, <<>>, FoldLeft(LAMBDA out, part : out \o CutOrder(chains, part), <<>>,
                                   <<main, footnotes, furniture>>))

\* Unplaced leading chains come first, as page 0.
PageOrder(chains, p, members) ==
  IF p # 0 /\ EnoughGeometry(chains, ToSet(members)) THEN OrderPage(chains, members) ELSE members
OrderChains(chains) ==
  LET last == Max({chains[i].at.page : i \in DOMAIN chains} \cup {0})
      Members(p) == Indices(Len(chains), {i \in DOMAIN chains : chains[i].at.page = p})
  IN FlattenSeq([p \in 1..(1 + last) |-> PageOrder(chains, p - 1, Members(p - 1))])
PositionsOf(chains) ==
  FoldLeft(LAMBDA out, i : out \o chains[i].positions, <<>>, OrderChains(chains))
BodyReadingOrder(doc) == PositionsOf(BuildChains(doc, DocumentPageHeights(doc)))

-----------------------------------------------------------------------------
(* split_groups_around_floats *)

\* The first placed child at or below the float's top, when one before it
\* starts above, all are texts on the float's page, and the float overlaps
\* them horizontally; 0 when the float does not split the group.
SplitPosition(kids, places, float) ==
  LET on == {i \in DOMAIN kids : Placed(places[i])}
      low == {i \in on : places[i].box.t >= float.box.t}
      hull == Hull({places[i].box : i \in on})
  IN IF /\ \A i \in DOMAIN kids : kids[i][1] = "texts"
        /\ \A i \in on : places[i].page = float.page
        /\ low # {} /\ \E i \in on : i < Min(low)
        /\ Min({hull.r, float.box.r}) > Max({hull.l, float.box.l})
     THEN Min(low) ELSE 0

\* The children from split on move to a new group right after the old one.
SplitGroup(doc, pos, g, split) ==
  LET new == <<"groups", Len(doc.groups) + 1>>
      kids == At(doc, g).children
      tail == [At(doc, g) EXCEPT !.self = new, !.children = SubSeq(kids, split, Len(kids))]
      head == [At(doc, g) EXCEPT !.children = SubSeq(kids, 1, split - 1)]
      moved == [SetItem(doc, g, head) EXCEPT
        !.texts = AsTuple([i \in DOMAIN @ |->
          IF <<"texts", i>> \in ToSet(tail.children) /\ @[i].label # "code"
          THEN [@[i] EXCEPT !.parent = new] ELSE @[i]])]
  IN [moved EXCEPT !.groups = Append(@, tail), !.body = InsertAt(@, pos + 1, new)]

\* The first float that sits inside a group, and the first group it splits.
SplitFirst(doc, cuts) ==
  LET first == CHOOSE c \in cuts : \A x \in cuts : c = x \/ LexLess(c, x)
  IN IF cuts = {} THEN doc ELSE SplitGroup(doc, first[2], doc.body[first[2]], first[3])
SplitOne(doc, heights) ==
  LET Place(r) == ItemPlacement(doc, r, heights)
      floats == {p \in DOMAIN doc.body : ItemLabel(doc, doc.body[p]) \in FloatLabels /\ Placed(Place(doc.body[p]))}
      groups == {q \in DOMAIN doc.body : doc.body[q] \in Slots(doc) /\ doc.body[q][1] = "groups"}
      Cut(kids, float) == SplitPosition(kids, [i \in DOMAIN kids |-> Place(kids[i])], float)
      cuts == {<<p, q, Cut(At(doc, doc.body[q]).children, Place(doc.body[p]))>> : p \in floats, q \in groups}
  IN SplitFirst(doc, {c \in cuts : c[3] > 0})

SplitGroupsAroundFloats(doc) ==
  LET heights == DocumentPageHeights(doc)
      split[n \in 0..Len(doc.texts)] == IF n = 0 THEN doc ELSE SplitOne(split[n - 1], heights)
  IN split[Len(doc.texts)]

InReadingOrder(doc) == [doc EXCEPT !.body = Pick(doc.body, BodyReadingOrder(doc))]
\* Only a document every item of which came from the geometry collectors is
\* reordered; every other producer's order stands.
OrderBodyByGeometry(work, collectors) ==
  IF ~ProducedOnlyBy(work.doc, collectors) THEN work
  ELSE [work EXCEPT !.doc = InReadingOrder(SplitGroupsAroundFloats(work.doc))]
=============================================================================
