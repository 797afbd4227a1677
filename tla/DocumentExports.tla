-------------------------- MODULE DocumentExports --------------------------
(***************************************************************************)
(* One export of one document: the copy it reads is normalised when its    *)
(* format calls for that, the walk runs to the end of its jobs, and what   *)
(* it wrote is the payload.  Documents is every document an export may be  *)
(* asked for, OptionSets the request's Markdown options.                   *)
(***************************************************************************)
EXTENDS MarkupExports, TreeExports

CONSTANTS Documents, OptionSets

VARIABLES doc, format, options, copy, walk, phase

vars == <<doc, format, options, copy, walk, phase>>

Markup == {"html", "html_split", "doctags", "gdocs", "vtt"}
Formats == Markup \cup {"markdown", "latex", "doclang", "canonical_json"}
DefaultOptions == [breaks |-> FALSE, layout |-> FALSE]

Init ==
  /\ doc \in Documents
  /\ format \in Formats
  /\ options \in IF format = "markdown" THEN OptionSets ELSE {DefaultOptions}
  /\ copy = doc
  /\ walk = StartWalk(<<>>)
  /\ phase = "load"

HasOrderedListGroups(d) == \E i \in DOMAIN d.groups : d.groups[i].label = "ordered_list"

\* What each entry point does to the document before it walks: Markdown
\* copies when either normalisation applies, LaTeX only for a misplaced item.
Normalized(d, f) ==
  CASE f = "canonical_json" ->
         MigrateMisplacedListItems(RelabelOrderedListGroups(ClampDocument(d)))
    [] \/ f = "markdown" /\ (HasMisplacedListItems(d) \/ HasOrderedListGroups(d))
       \/ f = "latex" /\ HasMisplacedListItems(d) ->
         MigrateMisplacedListItems(RelabelOrderedListGroups(d))
    [] OTHER -> d

\* Where the walk starts: the children of the body, or one get_parts over it.
StartOf(d, f) ==
  CASE f = "markdown" -> Consume(StartWalk(<<Loop("block", Body, 0, 1)>>), {Body})
    [] f = "latex" ->
         StartWalk(Append(Visits("block", SelectSeq(CollectWalk(d, Body), LAMBDA r : r # Body)),
                          Job("hoist", "title", NoRef, <<>>)))
    [] f = "doclang" -> StartWalk(DoclangVisits("block", d.body, FALSE))
    [] f = "canonical_json" -> StartWalk(<<>>)
    [] OTHER -> StartWalk(Visits("block", d.body))

Load ==
  /\ phase = "load"
  /\ copy' = Normalized(doc, format)
  /\ walk' = StartOf(copy', format)
  /\ phase' = "walk"
  /\ UNCHANGED <<doc, format, options>>

\* One job of the walk, in the formats fs.
Turn(fs) ==
  /\ phase = "walk"
  /\ format \in fs
  /\ walk.todo # <<>>
  /\ UNCHANGED <<doc, format, options, copy, phase>>

Rest == [walk EXCEPT !.todo = Tail(@)]
Next1 == Head(walk.todo)
Closing == Next1.do \in {"close", "prune"}

CloseElement == Turn(Formats) /\ Closing /\ walk' = Finish(Rest, Next1)
RenderHtml == Turn({"html", "html_split"}) /\ ~Closing /\ walk' = HtmlVisit(copy, Rest, Next1)
RenderDocTags == Turn({"doctags"}) /\ ~Closing /\ walk' = DocTagsVisit(copy, Rest, Next1)
RenderGdocs == Turn({"gdocs"}) /\ ~Closing /\ walk' = GdocsVisit(copy, Rest, Next1)
RenderVtt == Turn({"vtt"}) /\ ~Closing /\ walk' = VttVisit(copy, Rest, Next1)
RenderMarkdown == Turn({"markdown"}) /\ ~Closing /\ walk' = MarkdownStep(copy, options, Rest, Next1)
RenderLatex == Turn({"latex"}) /\ ~Closing /\ walk' = LatexStep(copy, Rest, Next1)
RenderDoclang == Turn({"doclang"}) /\ ~Closing /\ walk' = DoclangStep(copy, Rest, Next1)

\* The walk is over: the payload is what it wrote, per page when HTML is split.
Deliver ==
  /\ phase = "walk"
  /\ walk.todo = <<>>
  /\ walk' = IF format = "html_split" THEN SplitPages(copy, walk) ELSE walk
  /\ phase' = "done"
  /\ UNCHANGED <<doc, format, options, copy>>

Next ==
  \/ Load \/ CloseElement \/ RenderHtml \/ RenderDocTags \/ RenderGdocs \/ RenderVtt
  \/ RenderMarkdown \/ RenderLatex \/ RenderDoclang \/ Deliver

Spec == Init /\ [][Next]_vars

-----------------------------------------------------------------------------
(* What the payload must hold. *)

Done == phase = "done"
\* How often the text of an item, or the mark that stands for it, was written.
Writings(r) ==
  Cardinality({i \in DOMAIN walk.out : walk.out[i].kind \in {"text", "mark"} /\ walk.out[i].ref = r})
TreeOrder(d) == PreOrder(d, Body, LAMBDA r : NodeChildren(d, r))
PlaceIn(order, r) == Min({i \in DOMAIN order : order[i] = r} \cup {Len(order) + 1})
FloatsOf(d, r) == {s \in Slots(d) : r \in ToSet(At(d, s).captions \o At(d, s).footnotes)}
TablesOf(d) == {s \in Slots(d) : s[1] = "tables"}
RichRefs(d) == {c.ref : c \in UNION {ToSet(At(d, s).data.cells) : s \in TablesOf(d)}} \cap Slots(d)

\* The body-layer items a format follows the tree to: no export goes through
\* a picture or a table nested in a cell, DocLang only through groups and
\* texts, and not through code right in a list.
InCodeOfList(d, r) ==
  IsCode(d, r) /\ At(d, r).parent[1] = "groups" /\ ListGroup(At(d, At(d, r).parent))
ShownIn(d, f) ==
  LET Through(r) == /\ ~ExcludedLayer(At(d, r))
                    /\ r[1] # "pictures"
                    /\ ~(r[1] = "tables" /\ r \in RichRefs(d))
                    /\ f = "doclang" => r[1] \in {"groups", "texts"} /\ ~InCodeOfList(d, r)
      Into(r) == IF r = Body \/ Through(r) THEN ChildrenOf(d, r) ELSE <<>>
  IN {r \in ToSet(PreOrder(d, Body, Into)) \ {Body} : ~ExcludedLayer(At(d, r))}

\* No export writes an item twice, however often captions, footnotes, inline
\* flows, rich cells and the tree lead to it.  Two cases do repeat: the markup
\* exports write a caption the tree links ahead of its float where it stands
\* and again in the float, and Markdown writes a rich cell that spans several
\* positions once per position.
RenderedOnce ==
  Done => \A r \in Slots(copy) :
    \/ Writings(r) <= 1
    \/ /\ format \in {"html", "html_split", "doctags", "gdocs"}
       /\ \E f \in FloatsOf(copy, r) : PlaceIn(TreeOrder(copy), r) < PlaceIn(TreeOrder(copy), f)
    \/ format = "markdown" /\ \E cell \in RichRefs(copy) : r \in Below(copy, cell)

\* The exports that keep items back for the float that claims them lose none:
\* every body text with words they reach is in the payload, a caption or a
\* footnote when the float that claims it is shown.  LaTeX keeps one title,
\* and DocLang passes over code right in a list.
NothingLost ==
  Done /\ format \in {"markdown", "latex", "doclang"} =>
    LET shown == ShownIn(copy, format) IN
    \A r \in shown :
      \/ ~IsText(copy, r)
      \/ Empty(copy, r)
      \/ Writings(r) >= 1
      \/ FloatsOf(copy, r) # {} /\ \A f \in FloatsOf(copy, r) :
           f \notin shown \/ f[1] = "forms" \/ f \in ExcludedRefs(copy)
      \/ format = "latex" /\ At(copy, r).label = "title"
      \/ format = "doclang" /\ InCodeOfList(copy, r)

\* A walk that remembers what it wrote (consumed_, visited_) leaves out what
\* another path writes, and only that.
RenderedWhole == RenderedOnce /\ NothingLost

\* What is not a caption or a footnote is written in the order of the tree,
\* within a page when the HTML is split into pages.  Below a table the cells
\* give the order, and LaTeX writes what is below a text after its group.
RenderedInOrder ==
  Done =>
    LET order == TreeOrder(copy)
        Apart(s) == s[1] = "tables" \/ (format = "latex" /\ s[1] = "texts")
        elsewhere == UNION {Below(copy, s) \ {s} : s \in {x \in Slots(copy) : Apart(x)}}
        said == SelectSeq(walk.out, LAMBDA t :
                  /\ t.kind = "text"
                  /\ t.ref \notin elsewhere
                  /\ FloatsOf(copy, t.ref) = {}
                  /\ format = "latex" => At(copy, t.ref).label # "title")
    IN \A i, j \in DOMAIN said :
         /\ i < j
         /\ format = "html_split" => said[i].at[1] = said[j].at[1]
         => PlaceIn(order, said[i].ref) < PlaceIn(order, said[j].ref)

\* The Google Docs body and the registries beside it agree: the element a
\* picture placeholder points at is that picture's paragraph, one placeholder
\* per picture written, and every bullet names a list and a nesting level the
\* registry declares.
RegistriesHold ==
  Done /\ format = "gdocs" =>
    LET elements == SelectSeq(walk.out, LAMBDA t : t.kind = "open") IN
    /\ \A h \in ToSet(walk.held) : h.at + 1 \in DOMAIN elements /\ elements[h.at + 1].tag = "picture"
    /\ Len(walk.held) = Len(SelectSeq(elements, LAMBDA t : t.tag = "picture"))
    /\ \A t \in ToSet(elements) : t.tag = "bullet" =>
         /\ t.at[1] \in DOMAIN walk.lists
         /\ t.at[2] \in Range0(0, Min({Len(walk.lists[t.at[1]]), MaxNestingLevel + 1}))

\* The cells written for a table, as <<row, column, cell>>.
CellsWritten(r) ==
  LET of == SelectSeq(walk.out, LAMBDA t : t.kind = "cell" /\ t.ref = r)
  IN AsTuple([i \in DOMAIN of |-> SubSeq(of[i].at, Len(of[i].at) - 2, Len(of[i].at))])
Within(cell, size) == Max({cell.r0, 0}) < size[1] /\ Max({cell.c0, 0}) < size[2]

\* Untrusted table sizes never make an export write more positions than a
\* table or a document may keep, or repeat spanned cells past the document's
\* repeat budget; the markup exports write each cell once, and all of them
\* when the table fits; DocTags writes one token per position.
GridsHold ==
  Done /\ format \in {"html", "html_split", "gdocs", "doctags", "markdown", "latex"} =>
    LET tables == TablesOf(copy)
        Fits(r) == At(copy, r).data.rows * At(copy, r).data.cols <= Min({MaxGridPositions, DocumentPositions})
        Times(r, i) == Cardinality({k \in DOMAIN CellsWritten(r) : CellsWritten(r)[k][3] = i})
        Extra(r) == MapThenSumSet(LAMBDA i : Max({0, Times(r, i) - 1}), DOMAIN At(copy, r).data.cells)
    IN /\ \A r \in tables : Len(CellsWritten(r)) <= MaxGridPositions
       /\ MapThenSumSet(LAMBDA r : Len(CellsWritten(r)), tables) <= DocumentPositions
       /\ format \in {"markdown", "latex"} => MapThenSumSet(Extra, tables) <= RepeatPositions
       /\ format \in {"html", "html_split", "gdocs"} =>
            \A r \in tables : \A i \in DOMAIN At(copy, r).data.cells :
              /\ Times(r, i) <= 1
              /\ Within(At(copy, r).data.cells[i], <<At(copy, r).data.rows, At(copy, r).data.cols>>)
                   /\ Fits(r) /\ tables = {r} /\ At(copy, r).data.wire = <<>> /\ CellsWritten(r) # <<>> => Times(r, i) = 1
       /\ format = "doctags" => \A r \in tables : \A i, j \in DOMAIN CellsWritten(r) :
            i # j => SubSeq(CellsWritten(r)[i], 1, 2) # SubSeq(CellsWritten(r)[j], 1, 2)

\* What an export writes beside its running text holds: the Google Docs
\* registries and the tables of every export.
SideTablesHold == RegistriesHold /\ GridsHold

\* Each item's words, and what a float's captions and cells say.
Said(d, r) == IF r \in Slots(d) THEN At(d, r).text ELSE <<"nothing">>
ListItemsOutside(d) ==
  {r \in Slots(d) : IsListEntry(d, r) /\ At(d, r).parent # NoRef /\ ~ListParent(d, At(d, r).parent)}
Points(d, refs) == {Said(d, r) : r \in refs}

\* Load normalisation keeps the document whole: the tree stays sound, no list
\* item is left outside a list, the texts read in the order they did, but for
\* what hung below a moved item, and every caption and rich cell still points
\* at the text it pointed at although the text arena was renumbered.
LoadKeepsTree ==
  phase # "load" =>
    LET before == RelabelOrderedListGroups(doc)
        moved == ListItemsOutside(before)
        lost == UNION {(UNION {Below(before, r) : r \in ToSet(run)}) \ ToSet(run) : run \in ToSet(MisplacedRuns(before))}
        Reading(d, without) == LET texts == SelectSeq(TreeOrder(d), LAMBDA r : IsText(d, r) /\ r \notin without)
                               IN [i \in DOMAIN texts |-> Said(d, texts[i])]
        Same(s, t) == s[1] = t[1] /\ At(before, s).sources = At(copy, t).sources
        Kept(refs) == {r \in refs : r \notin moved \cup lost}
        Cells(d, s) == {c.ref : c \in ToSet(At(d, s).data.cells)} \ {NoRef}
    IN /\ IntegrityErrors(doc) = {} => IntegrityErrors(copy) = {}
       /\ format \in {"markdown", "canonical_json"} \/ (format = "latex" /\ moved # {}) =>
            /\ ~HasMisplacedListItems(copy)
            /\ Reading(copy, {}) = Reading(before, lost)
       /\ \A s \in Slots(doc), t \in Slots(copy) :
            Same(s, t) /\ s[1] \in {"tables", "pictures"} =>
              /\ Points(before, Kept(ToSet(At(before, s).captions))) = Points(copy, ToSet(At(copy, t).captions))
              /\ Points(before, Kept(Cells(before, s))) \subseteq Points(copy, Cells(copy, t))
=============================================================================
