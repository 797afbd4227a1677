----------------------------- MODULE ExportWalk -----------------------------
(***************************************************************************)
(* What the exports share.  First, the cell layouts they build from a      *)
(* table.  Next, what the Markdown, LaTeX and canonical JSON ones do to    *)
(* their copy of a document before they walk it                            *)
(* (render/load_normalization.cpp): ordered list groups become list        *)
(* groups, boxes are clamped to their page, and each run of list items     *)
(* outside a list group moves into a new one.  The move deletes the items  *)
(* from the text arena, so every reference the body tree holds is          *)
(* renumbered.                                                             *)
(*                                                                         *)
(* Last, the walk (render/renderer_base) of the body tree, which names the *)
(* items it has consumed, and the output it writes.  The renderers         *)
(* recurse; here the recursion is a stack of jobs.  A job visits one       *)
(* reference in a context, closes an element, or prunes one: an element    *)
(* with nothing in it is not written at all.  The output is a sequence of  *)
(* tokens: an item's text, a table cell, a mark that stands for an item, a *)
(* page break, and the opening and closing of elements.                    *)
(***************************************************************************)
EXTENDS DocumentTree

CONSTANTS
  MaxGridPositions,   \* positions one table may keep, 2^22 in the code
  DocumentPositions,  \* positions the tables of a document may keep, 2^23
  RepeatPositions,    \* extra positions of spanned cells, 2^23
  RepeatBytes         \* text those extra positions repeat, 2^26

ASSUME GridBoundsAssumption ==
  {MaxGridPositions, DocumentPositions, RepeatPositions, RepeatBytes} \subseteq Nat

----------------------------------------------------------------------------
(* Cell layouts (render/renderer_base and table_markdown.cpp).  A table is *)
(* a declared size, a flat list of cells with half-open row and column     *)
(* offsets, and possibly a wire grid of rows of cell numbers.  A layout    *)
(* gives each kept position the number of its cell, 0 where no cell        *)
(* reaches.  Sizes are untrusted, so every layout spends from one budget   *)
(* per document.                                                           *)

\* A cell: its offsets, its spans as the wire states them, the size of its
\* text, and the item it points at when it is rich.
NoTable == [rows |-> 0, cols |-> 0, cells |-> <<>>, wire |-> <<>>]
FullBudget == [left |-> DocumentPositions, repeats |-> RepeatPositions, bytes |-> RepeatBytes]

Spend(budget, positions) == [budget EXCEPT !.left = @ - Min({positions, @})]
\* spend_repeats: whether both pools can pay, and what is left when they do.
CanRepeat(budget, repeats, bytes) ==
  repeats <= 0 \/ (repeats <= budget.repeats /\ (bytes > 0 => repeats <= budget.bytes \div bytes))
SpendRepeats(budget, repeats, bytes) ==
  IF repeats <= 0 THEN budget
  ELSE [budget EXCEPT !.repeats = @ - repeats, !.bytes = @ - repeats * bytes]

\* The leading rows and columns that fit what the table and the document
\* may still keep.
KeptDimensions(rows, cols, budget) ==
  LET allowance == Min({MaxGridPositions, budget.left})
      kept == Min({cols, allowance})
  IN IF rows * cols <= allowance THEN <<rows, cols>>
     ELSE <<IF kept = 0 THEN 0 ELSE allowance \div kept, kept>>

Range0(first, end) == first..(end - 1)
Reach(wrapped, direct) ==
  [all |-> wrapped \cup direct, count |-> Cardinality(wrapped) + Cardinality(direct),
   first |-> IF wrapped # {} THEN Min(wrapped) ELSE IF direct # {} THEN Min(direct) ELSE 0]

\* place_cell: at every position its offsets reach, or at the first one only
\* when the budget cannot pay for the repeats.
PlaceCell(layout, i, cell, rows, cols) ==
  LET covered == rows.count * cols.count
      paid == CanRepeat(layout.budget, covered - 1, cell.bytes)
      spots == IF paid THEN rows.all \X cols.all ELSE {<<rows.first, cols.first>>}
  IN IF covered = 0 THEN layout
     ELSE [layout EXCEPT
             !.grid = [p \in DOMAIN @ |-> IF p \in spots THEN i ELSE @[p]],
             !.budget = IF paid THEN SpendRepeats(@, covered - 1, cell.bytes) ELSE @]

EmptyLayout(size, budget) ==
  [rows |-> size[1], cols |-> size[2], budget |-> Spend(budget, size[1] * size[2]),
   lengths |-> [r \in Range0(0, size[1]) |-> size[2]],
   grid |-> [p \in Range0(0, size[1]) \X Range0(0, size[2]) |-> 0]]

\* table_grid: the wire grid when there is one, else each cell at its offsets,
\* at least one position wide, cut to what is kept.
TableGrid(data, budget) ==
  LET widest == Max({Len(row) : row \in ToSet(data.wire)} \cup {0})
      size == IF data.wire # <<>> THEN KeptDimensions(Len(data.wire), widest, budget)
              ELSE IF data.rows <= 0 \/ data.cols <= 0 THEN <<0, 0>>
              ELSE KeptDimensions(data.rows, data.cols, budget)
      blank == EmptyLayout(size, budget)
      Along(first, end, kept) == Reach({}, Range0(Max({0, first}), Min({kept, Max({end, first + 1})})))
      Place(layout, i) ==
        LET cell == data.cells[i] IN
        PlaceCell(layout, i, cell, Along(cell.r0, cell.r1, size[1]), Along(cell.c0, cell.c1, size[2]))
  IN IF data.wire # <<>>
     THEN [blank EXCEPT
             !.lengths = [r \in DOMAIN @ |-> Min({Len(data.wire[r + 1]), size[2]})],
             !.grid = [p \in DOMAIN @ |->
               IF p[2] < Len(data.wire[p[1] + 1]) THEN data.wire[p[1] + 1][p[2] + 1] ELSE 0]]
     ELSE FoldLeft(Place, blank, [i \in DOMAIN data.cells |-> i])

\* derived_table_grid: the wire grid is not read; a negative offset counts
\* back from the declared size.
DerivedTableGrid(data, budget) ==
  LET rows == Max({data.rows, 0})
      cols == Max({data.cols, 0})
      size == KeptDimensions(rows, cols, budget)
      Along(first, end, declared, kept) ==
        LET e == Min({end, declared})
            b == Min({first, declared})
        IN Reach({x + declared : x \in Range0(Max({b, -declared}), Min({e, 0, kept - declared}))},
                 Range0(Max({b, 0}), Min({e, kept})))
      Place(layout, i) ==
        LET cell == data.cells[i] IN
        PlaceCell(layout, i, cell, Along(cell.r0, cell.r1, rows, size[1]),
                  Along(cell.c0, cell.c1, cols, size[2]))
  IN FoldLeft(Place, EmptyLayout(size, budget), [i \in DOMAIN data.cells |-> i])

\* The positions of a layout, row by row.
Positions(layout) ==
  [k \in 1..(layout.rows * layout.cols) |->
     <<(k - 1) \div layout.cols, (k - 1) % layout.cols>>]

\* Where the markup exports write a cell: at each position its row has that no
\* cell written before it spans.
SpannedPositions(layout, cells) ==
  LET Spans(p) == LET i == layout.grid[p] IN
        IF i = 0 THEN {p}
        ELSE {q \in DOMAIN layout.grid : /\ q[1] \in Range0(p[1], p[1] + Max({cells[i].rowspan, 1}))
                                         /\ q[2] \in Range0(p[2], p[2] + Max({cells[i].colspan, 1}))}
      Write(acc, p) ==
        IF p \in acc.covered THEN acc
        ELSE [at |-> Append(acc.at, p),
              covered |-> IF layout.grid[p] = 0 THEN acc.covered ELSE acc.covered \cup Spans(p)]
  IN FoldLeft(Write, [at |-> <<>>, covered |-> {}],
              SelectSeq(Positions(layout), LAMBDA p : p[2] < layout.lengths[p[1]])).at

----------------------------------------------------------------------------
(* Load normalization. *)

\* An item the exports read: a DocumentTree item with its footnotes kept
\* apart, its table, and the cue a transcript text belongs to (0: none).
RenderItem(self, parent, label) ==
  Item(self, parent, label) @@ [footnotes |-> <<>>, data |-> NoTable, cue |-> 0]

RelabelOrderedListGroups(doc) ==
  [doc EXCEPT !.groups = AsTuple([i \in DOMAIN @ |->
     [@[i] EXCEPT !.label = IF @ = "ordered_list" THEN "list" ELSE @]])]

\* clamp_document: a page states one height here, so a box is clamped to it.
ClampDocument(doc) ==
  LET Into(v, page) == Min({Max({v, 0}), Max({doc.pages[page], 0})})
      Clamp(e) == IF e.page \in DOMAIN doc.pages
                  THEN [e EXCEPT !.t = Into(@, e.page), !.b = Into(@, e.page)] ELSE e
      Op(n) == [n EXCEPT !.prov = AsTuple([i \in DOMAIN @ |-> Clamp(@[i])])]
  IN MapItems(doc, Op)

IsListEntry(doc, r) == r \in Slots(doc) /\ r[1] = "texts" /\ At(doc, r).label = "list_item"
ListParent(doc, r) == r \in Slots(doc) /\ r[1] = "groups" /\ At(doc, r).label = "list"
HasMisplacedListItems(doc) ==
  \E i \in DOMAIN doc.texts : /\ IsListEntry(doc, <<"texts", i>>)
                              /\ doc.texts[i].parent # NoRef
                              /\ ~ListParent(doc, doc.texts[i].parent)

\* The nodes below root in pre-order, each once; Into(r) are the children the
\* walk follows from r.
PreOrder(doc, root, Into(_)) ==
  LET Step(w) ==
        IF w.todo = <<>> THEN w
        ELSE LET r == Head(w.todo) IN
             IF r \in w.seen THEN [w EXCEPT !.todo = Tail(@)]
             ELSE [todo |-> Into(r) \o Tail(w.todo), seen |-> w.seen \cup {r}, out |-> Append(w.out, r)]
      links == 1 + Len(doc.body) + Len(doc.furniture) + MapThenSumSet(LAMBDA s : Len(At(doc, s).children), Slots(doc))
      walk[n \in 0..links] ==
        IF n = 0 THEN [todo |-> <<root>>, seen |-> {}, out |-> <<>>] ELSE Step(walk[n - 1])
  IN walk[links].out
NodeChildren(doc, r) == IF r \in Roots \cup Slots(doc) THEN ChildrenOf(doc, r) ELSE <<>>

\* RunCollector: a misplaced list item joins the run before it when the node
\* the walk visited just before is a list item right under the body.
MisplacedRuns(doc) ==
  LET visited == PreOrder(doc, Body, LAMBDA r : NodeChildren(doc, r))
      Joins(k) == /\ k > 1
                  /\ IsListEntry(doc, visited[k - 1])
                  /\ At(doc, visited[k - 1]).parent \in {Body, NoRef}
      Visit(runs, k) ==
        LET r == visited[k] IN
        IF ~IsListEntry(doc, r) \/ At(doc, r).parent = NoRef \/ ListParent(doc, At(doc, r).parent)
        THEN runs
        ELSE IF Joins(k) /\ runs # <<>>
             THEN [runs EXCEPT ![Len(runs)] = Append(@, r)]
             ELSE Append(runs, <<r>>)
  IN FoldLeft(Visit, <<>>, [k \in DOMAIN visited |-> k])

\* A reference shifts down by the entries deleted from its arena at or below
\* it; gone are the deleted slots.
Renumbered(r, gone) ==
  IF r[1] \in Arenas THEN <<r[1], r[2] - Cardinality({g \in gone : g[1] = r[1] /\ g[2] <= r[2]})>> ELSE r

\* A renumbering that leaves the captions alone.
DeleteSubtreesKeepsCaptions(doc, run, gone) ==
  LET Kept(refs) == SelectSeq(refs, LAMBDA r : r \notin ToSet(run))
      Shift(refs) == [i \in DOMAIN Kept(refs) |-> Renumbered(Kept(refs)[i], gone)]
      reached == Below(doc, Body)
      Op(n) == IF n.self \notin reached THEN n
               ELSE [n EXCEPT !.self = Renumbered(@, gone), !.parent = Renumbered(@, gone),
                              !.children = Shift(@)]
      shifted == MapItems(doc, Op)
      Left(a) == SelectSeq([i \in DOMAIN shifted[a] |-> IF <<a, i>> \in gone THEN 0 ELSE i], LAMBDA i : i # 0)
  IN [WithArenas(shifted, [a \in Arenas |-> AsTuple([i \in DOMAIN Left(a) |-> shifted[a][Left(a)[i]]])])
        EXCEPT !.body = AsTuple(Shift(@))]

\* delete_run_subtrees: the deleted nodes leave their parents and arenas, and
\* what the body tree still reaches is renumbered; captions and footnotes
\* that name the run are dropped, a rich cell's reference only shifts.  What
\* the body does not reach keeps the references it had.
DeleteSubtrees(doc, run, gone) ==
  LET unlinked == [MapItems(doc, LAMBDA n : [n EXCEPT !.children = SelectSeq(@, LAMBDA c : c \notin gone)])
                     EXCEPT !.body = SelectSeq(@, LAMBDA c : c \notin gone)]
      Kept(refs) == SelectSeq(refs, LAMBDA r : r \notin ToSet(run))
      Shift(refs) == AsTuple([i \in DOMAIN Kept(refs) |-> Renumbered(Kept(refs)[i], gone)])
      reached == Below(unlinked, Body)
      Cell(c) == [c EXCEPT !.ref = Renumbered(@, gone)]
      Op(n) == IF n.self \notin reached THEN n
               ELSE [n EXCEPT !.self = Renumbered(@, gone), !.parent = Renumbered(@, gone),
                              !.children = Shift(@), !.captions = Shift(@), !.footnotes = Shift(@),
                              !.data.cells = AsTuple([i \in DOMAIN @ |-> Cell(@[i])])]
      shifted == MapItems(unlinked, Op)
      Left(a) == SelectSeq([i \in DOMAIN shifted[a] |-> IF <<a, i>> \in gone THEN 0 ELSE i], LAMBDA i : i # 0)
  IN [WithArenas(shifted, [a \in Arenas |-> AsTuple([i \in DOMAIN Left(a) |-> shifted[a][Left(a)[i]]])])
        EXCEPT !.body = Shift(@)]

\* One run: a list group takes the place of its first item, the items and all
\* below them are deleted, and copies of the items, without their children,
\* are appended under the group.
MoveRun(doc, run) ==
  LET parent == At(doc, run[1]).parent
      group == <<"groups", Len(doc.groups) + 1>>
      Into(children) == LET at == Min({i \in DOMAIN children : children[i] = run[1]} \cup {Len(children) + 1})
                        IN SubSeq(children, 1, at - 1) \o <<group>> \o SubSeq(children, at, Len(children))
      added == [doc EXCEPT !.groups = Append(@, RenderItem(group, parent, "list"))]
      placed == IF parent = Body THEN [added EXCEPT !.body = Into(@)]
                ELSE [added EXCEPT ![parent[1]][parent[2]].children = Into(@)]
      gone == UNION {Below(placed, r) : r \in ToSet(run)} \cap Slots(placed)
      cut == DeleteSubtrees(placed, run, gone)
      home == <<"groups", Len(cut.groups)>>
      New(k) == <<"texts", Len(cut.texts) + k>>
      Copy(k) == [RenderItem(New(k), home, "list_item") EXCEPT
                    !.layer = At(doc, run[k]).layer, !.text = At(doc, run[k]).text,
                    !.enumerated = At(doc, run[k]).enumerated,
                    !.prov = SubSeq(At(doc, run[k]).prov, 1, Min({1, Len(At(doc, run[k]).prov)}))]
  IN [cut EXCEPT !.texts = @ \o [k \in DOMAIN run |-> Copy(k)],
                 !.groups[Len(cut.groups)].children = [k \in DOMAIN run |-> New(k)]]

\* The last run moves first; the runs before it shift with the deletion.
MigrateMisplacedListItems(doc) ==
  LET runs == MisplacedRuns(doc)
      Gone(d, run) == UNION {Below(d, r) : r \in ToSet(run)} \cap Slots(d)
      Move(acc, k) ==
        LET run == [i \in DOMAIN runs[k] |->
                      FoldLeft(LAMBDA r, gone : Renumbered(r, gone), runs[k][i], acc.gone)]
        IN [doc |-> MoveRun(acc.doc, run), gone |-> Append(acc.gone, Gone(acc.doc, run))]
  IN FoldLeft(Move, [doc |-> doc, gone |-> <<>>], [i \in DOMAIN runs |-> Len(runs) - i + 1]).doc

----------------------------------------------------------------------------
(* The walk and its output. *)

Token(kind, tag, ref, at) == [kind |-> kind, tag |-> tag, ref |-> ref, at |-> at]
Open(tag) == Token("open", tag, NoRef, <<>>)
Close(tag) == Token("close", tag, NoRef, <<>>)
Text(tag, r) == Token("text", tag, r, <<>>)
Mark(tag, r) == Token("mark", tag, r, <<>>)

Job(do, tag, ref, at) == [do |-> do, tag |-> tag, ref |-> ref, at |-> at]
Visit(context, r) == Job("visit", context, r, <<>>)
Visits(context, refs) == AsTuple([i \in DOMAIN refs |-> Visit(context, refs[i])])
CloseJob(tag) == Job("close", tag, NoRef, <<>>)
PruneJob(tag) == Job("prune", tag, NoRef, <<>>)

\* todo and out drive the walk; used is consumed_, budget grid_budget_.  The
\* rest is what one format or another remembers: the page it is on, the lists
\* it opened, the pictures it left placeholders for, how many elements the
\* body holds.
StartWalk(jobs) ==
  [todo |-> jobs, used |-> {}, out |-> <<>>, budget |-> FullBudget,
   page |-> 0, lists |-> <<>>, held |-> <<>>, ordinal |-> 0]

Put(w, tokens) == [w EXCEPT !.out = @ \o tokens]
Push(w, jobs) == [w EXCEPT !.todo = jobs \o @]
Consume(w, refs) == [w EXCEPT !.used = @ \cup refs]
Between(w, tag, jobs) == Push(Put(w, <<Open(tag)>>), Append(jobs, CloseJob(tag)))
BetweenPruned(w, tag, jobs) == Push(Put(w, <<Open(tag)>>), Append(jobs, PruneJob(tag)))

\* A closing job: the element is written, or taken back when it is empty and
\* may be pruned.
Finish(w, job) ==
  IF job.do = "prune" /\ Last(w.out) = Open(job.tag)
  THEN [w EXCEPT !.out = Front(@)]
  ELSE Put(w, <<Close(job.tag)>>)

ExcludedLayer(n) == n.layer # "body"
IsText(doc, r) == r[1] = "texts" /\ r \in Slots(doc)
IsCode(doc, r) == IsText(doc, r) /\ At(doc, r).label = "code"
\* text_base: a code item has none.
HasBase(doc, r) == IsText(doc, r) /\ At(doc, r).label # "code"
Empty(doc, r) == At(doc, r).text = <<>>
ListGroup(n) == n.label \in {"list", "ordered_list"}
FirstPage(n) == IF n.prov = <<>> THEN 0 ELSE n.prov[1].page

\* caption_bases and caption_texts: what a float claims, and what of it has
\* text; a reference to no text is passed over.
Claimed(doc, refs) == {r \in ToSet(refs) : IsText(doc, r)}
CaptionBases(doc, refs) == SelectSeq(refs, LAMBDA r : HasBase(doc, r))
CaptionTexts(doc, refs) == SelectSeq(refs, LAMBDA r : HasBase(doc, r) /\ ~Empty(doc, r))
Texts(tag, refs) == AsTuple([i \in DOMAIN refs |-> Text(tag, refs[i])])

\* ordered_list: the label decides, else the group's first list item.
OrderedList(doc, n) ==
  LET items == SelectSeq(n.children, LAMBDA c : IsListEntry(doc, c))
  IN n.label = "ordered_list" \/ (items # <<>> /\ At(doc, items[1]).enumerated)

\* One token per cell a markup table writes, row by row.
GridCells(r, layout, cells) ==
  LET at == SpannedPositions(layout, cells)
  IN AsTuple([k \in DOMAIN at |-> Token("cell", "td", r, Append(at[k], layout.grid[at[k]]))])
=============================================================================
