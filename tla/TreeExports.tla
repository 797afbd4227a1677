---------------------------- MODULE TreeExports ----------------------------
(***************************************************************************)
(* The exports that work out beforehand which items belong to another one  *)
(* and that follow a text's children: Markdown, LaTeX and DocLang.         *)
(***************************************************************************)
EXTENDS ExportWalk

\* exported_label: items the Markdown and LaTeX vocabularies leave out.
UnexportedLabels == {"chart", "grading_scale", "field_region", "field_item"}
ExcludedRefs(doc) ==
  {r \in Below(doc, Body) \cap Slots(doc) :
     r[1] # "groups" /\ ~ExcludedLayer(At(doc, r)) /\ At(doc, r).label \in UnexportedLabels}

\* collect_walk: the body-layer nodes below root in pre-order; of a picture's
\* children only its captions.
CollectWalk(doc, root) ==
  LET Into(r) == IF r[1] # "pictures" THEN NodeChildren(doc, r)
                 ELSE SelectSeq(NodeChildren(doc, r), LAMBDA c : c \in ToSet(At(doc, r).captions))
  IN SelectSeq(PreOrder(doc, root, Into), LAMBDA r : r \in Roots \/ ~ExcludedLayer(At(doc, r)))

InlineGroup(doc, r) == r[1] = "groups" /\ r \in Slots(doc) /\ At(doc, r).label = "inline"
\* A text with nothing of its own but one inline group.
OnlyInline(doc, n) == n.text = <<>> /\ Len(n.children) = 1 /\ InlineGroup(doc, n.children[1])
Headed == {"list_item", "title", "section_header"}

\* One job per position of a layout; the last entry counts how often its cell
\* has come up, this time included.
CellJobs(r, layout) ==
  LET all == Positions(layout)
      Nth(k) == Cardinality({j \in 1..k : layout.grid[all[j]] = layout.grid[all[k]]})
  IN AsTuple([k \in DOMAIN all |-> Job("cell", "cell", r, all[k] \o <<layout.grid[all[k]], Nth(k)>>)])
CellOf(doc, job) == At(doc, job.ref).data.cells[job.at[3]]
RichCell(doc, job) == job.at[3] # 0 /\ CellOf(doc, job).ref # NoRef

-----------------------------------------------------------------------------
(* Markdown (markdown_walk.cpp, markdown_renderer.cpp). *)

\* A set that forgets the captions of code: the walk would repeat them.
MarkdownClaimsNoCode(doc) ==
  UNION {ToSet(At(doc, s).captions \o At(doc, s).footnotes) : s \in {x \in Slots(doc) : x[1] # "texts"}}

\* collect_reference_sets: every caption and footnote some item names.
MarkdownClaims(doc) ==
  UNION {ToSet(At(doc, s).captions \o At(doc, s).footnotes) :
           s \in {x \in Slots(doc) : x[1] # "texts" \/ IsCode(doc, x)}}

\* first_prov_page and first_prov_page_within, 0 when there is none.
OwnPage(doc, r) == IF r \in Roots \/ r[1] = "groups" THEN 0 ELSE FirstPage(At(doc, r))
PageWithin(doc, r) ==
  LET paged == SelectSeq(CollectWalk(doc, r), LAMBDA c : c # r /\ OwnPage(doc, c) > 0)
  IN IF paged = <<>> THEN 0 ELSE OwnPage(doc, paged[1])
PartPage(doc, r) ==
  IF r \in Slots(doc) /\ r[1] = "groups" /\ (ListGroup(At(doc, r)) \/ At(doc, r).label = "inline")
  THEN PageWithin(doc, r) ELSE OwnPage(doc, r)

\* One get_parts call: its root, its scope, the page it is on and the next of
\* the refs below it.
Loop(scope, root, page, next) == Job("loop", scope, root, <<page, next>>)

\* A turn that leaves the ref for later: the parts would come out of order.
MarkdownLoopDefers(doc, breaks, w, job) ==
  LET refs == CollectWalk(doc, job.ref)
      r == refs[job.at[2]]
      rest == IF job.at[2] = Len(refs) THEN <<>> ELSE <<Loop(job.tag, job.ref, job.at[1], job.at[2] + 1)>>
  IN Push(Consume(w, {r}), rest \o (IF r \in w.used THEN <<>> ELSE <<Job("serialize", job.tag, r, <<>>)>>))

\* One turn of get_parts: a break when the page moves on, then the ref itself
\* unless it was serialized before.
MarkdownLoop(doc, breaks, w, job) ==
  LET refs == CollectWalk(doc, job.ref)
      r == refs[job.at[2]]
      page == PartPage(doc, r)
      moved == page > job.at[1]
      rest == IF job.at[2] = Len(refs) THEN <<>>
              ELSE <<Loop(job.tag, job.ref, IF moved THEN page ELSE job.at[1], job.at[2] + 1)>>
      on == IF breaks /\ moved /\ job.at[1] # 0 THEN Put(w, <<Token("break", "page", r, <<page>>)>>) ELSE w
  IN Push(Consume(on, {r}), (IF r \in w.used THEN <<>> ELSE <<Job("serialize", job.tag, r, <<>>)>>) \o rest)

\* serialize_captions and serialize_footnotes read their texts and consume
\* nothing: the reference sets keep the walk from writing them again.
Satellites(doc, tag, refs) ==
  Texts(tag, SelectSeq(refs, LAMBDA r : IsText(doc, r) /\ r \notin ExcludedRefs(doc)))

\* caption_goes_after under the layout placement: every caption has a box on
\* the item's page and is centred below the item, else the item's own order.
CaptionsAfter(doc, n, layout, standard) ==
  LET On(c) == SelectSeq(At(doc, c).prov, LAMBDA e : e.page = FirstPage(n))
      captions == {c \in ToSet(n.captions) : IsText(doc, c)}
      known == n.prov # <<>> /\ captions # {} /\ \A c \in captions : On(c) # <<>>
  IN IF layout /\ known
     THEN \A c \in captions : On(c)[1].t + On(c)[1].b > n.prov[1].t + n.prov[1].b
     ELSE standard

\* An item between its captions and its footnotes, in the order the export
\* gives them.
Surrounded(doc, n, layout, standard, own) ==
  LET captions == Satellites(doc, "caption", n.captions)
      notes == Satellites(doc, "footnote", n.footnotes)
  IN IF CaptionsAfter(doc, n, layout, standard) THEN own \o notes \o captions
     ELSE captions \o own \o notes

MarkdownText(doc, layout, w, r) ==
  LET n == At(doc, r)
      inner == n.children[1]
      group == IF inner \in w.used THEN <<>> ELSE <<Job("serialize", "block", inner, <<>>)>>
  IN IF r \in MarkdownClaims(doc) \cup ExcludedRefs(doc) THEN w
     ELSE IF n.label = "code" THEN Put(w, Surrounded(doc, n, layout, TRUE, <<Text("code", r)>>))
     ELSE IF OnlyInline(doc, n)
     THEN Push(Consume(IF n.label \in Headed THEN Put(w, <<Mark(n.label, r)>>) ELSE w, {inner}), group)
     ELSE IF n.text = <<>> /\ n.label \notin Headed THEN w
     ELSE Put(w, <<Text(n.label, r)>>)

\* Captions, cells, footnotes; the cells come one by one, for a rich cell
\* serializes what it points at.
MarkdownTable(doc, options, w, r) ==
  LET n == At(doc, r)
      layout == DerivedTableGrid(IF r \in ExcludedRefs(doc) THEN NoTable ELSE n.data, w.budget)
      captions == Satellites(doc, "caption", n.captions)
      notes == Satellites(doc, "footnote", n.footnotes)
      after == CaptionsAfter(doc, n, options.layout, FALSE)
      tail == IF after THEN notes \o captions ELSE notes
  IN [Push(Put(w, IF after THEN <<>> ELSE captions),
           CellJobs(r, layout) \o <<Job("put", "notes", r, tail)>>) EXCEPT !.budget = layout.budget]

\* rich_cell_text and table_rows: the item a cell points at, serialized at the
\* cell's first position and again at its second, where a repeat is paid for.
MarkdownCell(doc, w, job) ==
  LET cell == CellOf(doc, job)
      ref == cell.ref
      nth == job.at[4]
      size == CASE ref[1] = "texts" -> Len(At(doc, ref).text)
                [] ref[1] = "tables" -> FoldLeft(LAMBDA n, c : n + c.bytes, 0, At(doc, ref).data.cells)
                [] OTHER -> 0
      below == PreOrder(doc, ref, LAMBDA r : IF r \in w.used THEN <<>> ELSE NodeChildren(doc, r))
      paid == CanRepeat(w.budget, 1, size)
      spent == IF nth > 1 /\ paid THEN [w EXCEPT !.budget = SpendRepeats(@, 1, size)] ELSE w
  IN IF ~RichCell(doc, job) THEN Put(w, <<Token("cell", "td", job.ref, SubSeq(job.at, 1, 3))>>)
     ELSE IF nth > 1 /\ ~paid THEN w
     ELSE IF ref[1] = "tables"
     THEN Put(Consume(spent, ToSet(below)), <<Mark("flattened", ref)>>)
     ELSE IF nth > 2 THEN Put(spent, <<Mark("repeat", ref)>>)
     ELSE Push(Consume(spent, {ref}), <<Job("serialize", "block", ref, <<>>)>>)

MarkdownSerialize(doc, options, w, job) ==
  LET r == job.ref
      n == At(doc, r)
      own == IF r \in ExcludedRefs(doc) THEN <<>> ELSE <<Mark(n.label, r)>>
  IN CASE r[1] = "texts" -> MarkdownText(doc, options.layout, w, r)
       [] r[1] = "tables" -> MarkdownTable(doc, options, w, r)
       [] r[1] = "pictures" -> Put(w, Surrounded(doc, n, options.layout, FALSE, own))
       [] r[1] = "groups" ->
            IF ListGroup(n) THEN BetweenPruned(w, "list", <<Loop(job.tag, r, 0, 1)>>)
            ELSE IF n.label = "inline" THEN BetweenPruned(w, "inline", <<Loop("inline", r, 0, 1)>>)
            ELSE Push(w, <<Loop("block", r, 0, 1)>>)
       [] OTHER -> Put(w, own)

MarkdownStep(doc, options, w, job) ==
  CASE job.do = "loop" -> MarkdownLoop(doc, options.breaks, w, job)
    [] job.do = "cell" -> MarkdownCell(doc, w, job)
    [] job.do = "put" -> Put(w, job.at)
    [] OTHER -> MarkdownSerialize(doc, options, w, job)

-----------------------------------------------------------------------------
(* LaTeX (latex_renderer.cpp). *)

LatexClaims(doc) ==
  UNION {ToSet(At(doc, s).captions) :
           s \in {x \in Slots(doc) : x[1] \in {"tables", "pictures"} \/ IsCode(doc, x)}}

LatexText(doc, w, r) ==
  LET n == At(doc, r)
      captions == Texts("caption", CaptionTexts(doc, n.captions))
      inner == <<Job("serialize", "inline", n.children[1], <<>>)>>
  IN IF r \in LatexClaims(doc) THEN w
     ELSE IF n.label = "code"
     THEN Put(Consume(w, Claimed(doc, n.captions)), <<Text("code", r)>> \o captions)
     ELSE IF OnlyInline(doc, n)
     THEN IF n.label \in Headed THEN Between(w, n.label, inner) ELSE Push(w, inner)
     ELSE IF n.label \in Headed THEN Put(w, <<Open(n.label), Text(n.label, r), Close(n.label)>>)
     ELSE IF n.text = <<>> THEN w ELSE Put(w, <<Text(n.label, r)>>)

Tabular(doc, w, r) ==
  LET layout == DerivedTableGrid(At(doc, r).data, w.budget)
  IN [Push(w, CellJobs(r, layout)) EXCEPT !.budget = layout.budget]

LatexFloat(doc, w, r, own) ==
  LET n == At(doc, r)
  IN Put(Consume(w, Claimed(doc, n.captions)), own \o Texts("caption", CaptionTexts(doc, n.captions)))

\* serialize: an unexported item writes nothing, its captions included.
LatexSerialize(doc, w, r, scope) ==
  LET n == At(doc, r)
      inside == IF n.label = "inline" THEN "inline" ELSE scope
  IN IF r \in ExcludedRefs(doc) THEN w
     ELSE CASE r[1] = "texts" -> LatexText(doc, w, r)
            [] r[1] = "tables" -> Tabular(doc, LatexFloat(doc, w, r, <<>>), r)
            [] r[1] = "pictures" -> LatexFloat(doc, w, r, <<Mark("figure", r)>>)
            [] r[1] = "groups" ->
                 IF ListGroup(n) THEN BetweenPruned(w, "list", Visits(scope, n.children))
                 ELSE Push(w, Visits(inside, n.children))
            [] OTHER -> IF n.label \in {"key_value", "form"} THEN Put(w, <<Mark("missing", r)>>) ELSE w

\* The blocks of a rich cell: a nested table is a bare tabular, a heading only
\* its text.
LatexBlock(doc, w, r) ==
  LET n == At(doc, r) IN
  IF r[1] = "groups"
  THEN IF ListGroup(n) THEN BetweenPruned(w, "list", Visits("block", n.children))
       ELSE Push(w, Visits("cell", n.children))
  ELSE IF r[1] = "tables" THEN Tabular(doc, w, r)
  ELSE IF n.label \in {"title", "section_header"} THEN Put(w, <<Text("bare", r)>>)
  ELSE LatexSerialize(doc, w, r, "block")

LatexCell(doc, w, job) ==
  LET ref == CellOf(doc, job).ref IN
  IF ~RichCell(doc, job) THEN Put(w, <<Token("cell", "tabular", job.ref, SubSeq(job.at, 1, 3))>>)
  ELSE IF ref \in w.used THEN w
  ELSE IF ref[1] = "groups" THEN LatexBlock(doc, Consume(w, {ref}), ref)
  ELSE LatexSerialize(doc, Consume(w, {ref}), ref, "block")

\* hoist_title: the first title moves ahead of the body and every title
\* leaves it.
HoistTitle(w) ==
  LET Take(acc, t) ==
        IF t = Open("title") THEN [acc EXCEPT !.inside = TRUE, !.titles = @ + 1]
        ELSE IF t = Close("title") THEN [acc EXCEPT !.inside = FALSE]
        ELSE IF ~acc.inside THEN [acc EXCEPT !.body = Append(@, t)]
        ELSE IF acc.titles = 1 THEN [acc EXCEPT !.title = Append(@, t)] ELSE acc
      split == FoldLeft(Take, [inside |-> FALSE, titles |-> 0, title |-> <<>>, body |-> <<>>], w.out)
  IN [w EXCEPT !.out = split.title \o split.body]

\* A child is consumed before its layer is looked at.
LatexStep(doc, w, job) ==
  LET r == job.ref
      c == Consume(w, {r})
  IN CASE job.do = "hoist" -> HoistTitle(w)
       [] job.do = "cell" -> LatexCell(doc, w, job)
       [] job.do = "serialize" -> LatexSerialize(doc, c, r, job.tag)
       [] OTHER -> IF r \in w.used THEN w
                   ELSE IF ExcludedLayer(At(doc, r)) THEN c
                   ELSE IF job.tag = "cell" THEN LatexBlock(doc, c, r)
                   ELSE LatexSerialize(doc, c, r, job.tag)

-----------------------------------------------------------------------------
(* DocLang (doclang_renderer.cpp). *)

\* claim_satellites: the text captions and footnotes of every body-layer
\* float, and everything below them.
DoclangSatellites(doc) ==
  UNION {Claimed(doc, At(doc, s).captions \o At(doc, s).footnotes) :
           s \in {x \in Slots(doc) : x[1] \in {"tables", "pictures"} /\ ~ExcludedLayer(At(doc, x))}}
DoclangNested(doc) ==
  UNION {Below(doc, c) : c \in UNION {ToSet(At(doc, s).children) : s \in DoclangSatellites(doc)}}

\* inside: whether a satellite is open.
LeftToFloat(doc, r, inside) ==
  r \in DoclangSatellites(doc) \/ (~inside /\ r \in DoclangNested(doc))

DoclangVisits(context, refs, inside) ==
  AsTuple([i \in DOMAIN refs |-> Job("visit", context, refs[i], <<inside>>)])

\* append_inline over a flow: the runs it joins, what stays a block, and what
\* it consumed.
AppendInline(doc, used, flow) ==
  LET Fold(f) ==
        LET r == Head(f.todo)
            n == At(doc, r)
            rest == [f EXCEPT !.todo = Tail(@)]
            taken == [rest EXCEPT !.used = @ \cup {r}]
        IN IF f.todo = <<>> THEN f
           ELSE IF r[1] \notin {"texts", "groups"} \/ (r[1] = "groups" /\ ListGroup(n))
           THEN [rest EXCEPT !.blocks = Append(@, r)]
           ELSE IF r \in f.used THEN rest
           ELSE IF ExcludedLayer(n) THEN taken
           ELSE [taken EXCEPT !.todo = n.children \o @,
                              !.runs = IF n.text = <<>> THEN @ ELSE Append(@, r)]
      links == 1 + Len(flow) + MapThenSumSet(LAMBDA s : Len(At(doc, s).children), Slots(doc))
      folded[k \in 0..links] ==
        IF k = 0 THEN [todo |-> flow, runs |-> <<>>, blocks |-> <<>>, used |-> used] ELSE Fold(folded[k - 1])
  IN folded[links]

\* render_host: an item's own text and the runs of its first inline group on
\* its element; its other children inside the element or after it.
RenderHost(doc, w, r, tag, nest, skip, inside) ==
  LET n == At(doc, r)
      inlined == n.children # <<>> /\ InlineGroup(doc, n.children[1])
      flow == AppendInline(doc, w.used, IF inlined THEN <<n.children[1]>> ELSE <<>>)
      blocks == DoclangVisits("block", flow.blocks \o (IF inlined THEN Tail(n.children) ELSE n.children), inside)
      within == nest = "always" \/ (nest = "when_bare" /\ n.text = <<>> /\ ~inlined)
      said == (IF n.text = <<>> THEN <<>> ELSE <<Text(tag, r)>>) \o Texts("run", flow.runs)
      close == IF skip THEN PruneJob(tag) ELSE CloseJob(tag)
      on == Put([w EXCEPT !.used = flow.used], <<Open(tag)>> \o said)
  IN Push(on, IF within THEN blocks \o <<close>> ELSE <<close>> \o blocks)

DoclangText(doc, w, r, inside) ==
  LET n == At(doc, r) IN
  IF ExcludedLayer(n) THEN w
  ELSE CASE n.label \in {"code", "title", "section_header", "formula", "footnote", "reference", "caption"} ->
              RenderHost(doc, w, r, n.label, "when_bare", FALSE, inside)
         [] n.label = "list_item" -> RenderHost(doc, w, r, n.label, "never", FALSE, inside)
         [] OTHER -> RenderHost(doc, w, r, "paragraph", "never", TRUE, inside)

DoclangGroup(doc, w, r, inside) ==
  LET n == At(doc, r)
      flow == AppendInline(doc, w.used, n.children)
  IN IF ExcludedLayer(n) THEN w
     ELSE IF ListGroup(n) THEN Between(w, "list", DoclangVisits("list", n.children, inside))
     ELSE IF n.label = "inline"
     THEN Push(Put([w EXCEPT !.used = flow.used], <<Open("paragraph")>> \o Texts("run", flow.runs)),
               <<PruneJob("paragraph")>> \o DoclangVisits("block", flow.blocks, inside))
     ELSE Push(w, DoclangVisits("block", n.children, inside))

\* render_satellites: each caption or footnote once, by the first float that
\* comes to it.
SatelliteJobs(tag, refs) == AsTuple([i \in DOMAIN refs |-> Job("satellite", tag, refs[i], <<TRUE>>)])
DoclangSatellite(doc, w, job) ==
  LET r == job.ref
      c == Consume(w, {r})
  IN IF ~IsText(doc, r) \/ r \in w.used THEN w
     ELSE IF IsCode(doc, r) \/ ExcludedLayer(At(doc, r)) THEN c
     ELSE RenderHost(doc, c, r, job.tag, "always", TRUE, TRUE)

DoclangFloat(doc, w, r, own) ==
  LET n == At(doc, r) IN
  IF ExcludedLayer(n) THEN w
  ELSE Push(w, SatelliteJobs("caption", n.captions) \o <<own>> \o SatelliteJobs("footnote", n.footnotes))

\* render_grid: the cells no span covers, one job each.
DoclangGrid(doc, w, job) ==
  LET n == At(doc, job.ref)
      layout == TableGrid(n.data, w.budget)
      at == SpannedPositions(layout, n.data.cells)
      cells == AsTuple([k \in DOMAIN at |->
                 Job("cell", "td", job.ref, at[k] \o <<layout.grid[at[k]], IF job.at[1] THEN 1 ELSE 0>>)])
  IN IF layout.rows = 0 THEN w
     ELSE [Between(w, "table", cells) EXCEPT !.budget = layout.budget]

\* render_cell_blocks: the group a rich cell names renders inside the cell,
\* unless it rendered before.
DoclangCell(doc, w, job) ==
  LET ref == CellOf(doc, job).ref
      plain == Token("cell", "td", job.ref, SubSeq(job.at, 1, 3))
  IN IF ~RichCell(doc, job) \/ ref[1] # "groups" \/ ref \in w.used THEN Put(w, <<plain>>)
     ELSE IF ExcludedLayer(At(doc, ref)) THEN Put(Consume(w, {ref}), <<plain>>)
     ELSE DoclangGroup(doc, Between(Consume(w, {ref}), "td", <<>>), ref, job.at[4] = 1)

DoclangVisit(doc, w, job) ==
  LET r == job.ref
      n == At(doc, r)
      inside == job.at[1]
      c == Consume(w, {r})
      list == job.tag = "list"
  IN IF LeftToFloat(doc, r, inside) \/ r \in w.used THEN w
     ELSE CASE r[1] = "texts" ->
                 IF ~list THEN DoclangText(doc, c, r, inside)
                 ELSE IF IsCode(doc, r) \/ ExcludedLayer(n) THEN c
                 ELSE RenderHost(doc, c, r, "list_item", "never", FALSE, inside)
            [] r[1] = "tables" -> DoclangFloat(doc, c, r, Job("grid", "table", r, <<inside>>))
            [] r[1] = "pictures" -> DoclangFloat(doc, c, r, Job("mark", "picture", r, <<>>))
            [] r[1] = "groups" ->
                 IF list /\ ListGroup(n) THEN Between(c, "list", DoclangVisits("list", n.children, inside))
                 ELSE DoclangGroup(doc, c, r, inside)
            [] OTHER -> IF n.label \in {"key_value", "form"} THEN Put(c, <<Mark("omitted", r)>>)
                        ELSE Push(c, DoclangVisits("block", n.children, inside))

DoclangStep(doc, w, job) ==
  CASE job.do = "satellite" -> DoclangSatellite(doc, w, job)
    [] job.do = "grid" -> DoclangGrid(doc, w, job)
    [] job.do = "cell" -> DoclangCell(doc, w, job)
    [] job.do = "mark" -> Put(w, <<Mark(job.tag, job.ref)>>)
    [] OTHER -> DoclangVisit(doc, w, job)
=============================================================================
