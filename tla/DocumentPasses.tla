--------------------------- MODULE DocumentPasses ---------------------------
(***************************************************************************)
(* A document on its way to a client.  Unary: the coordinator merges its   *)
(* legs and the repair pass runs over the result.  Streamed: the pdf       *)
(* collector's pages went out before its document was repaired; projected: *)
(* a collector's repaired document goes out as pages; recognized: the CV   *)
(* pipeline's pages went out and are grouped and repaired at the end;      *)
(* abandoned: a collector failed after its pages went out.  A client folds *)
(* the pages and applies the delta that follows them.  A chunking call     *)
(* serves a unary document as chunks.                                      *)
(***************************************************************************)
EXTENDS HeadingHierarchy, DocumentMerge, StreamDelta, Chunker

CONSTANT Inputs   \* [mode, legs, options, requests]: the legs carry the
                  \* documents, requests are the chunkers a call may ask for

\* The shape of a document, whatever it holds: lists of items and of references.
IsSeq(s) == s \in Seq(ToSet(s))
ItemFields == {"self", "parent", "children", "captions", "cells", "spans", "prov"}
IsItem(n) ==
  /\ ItemFields \subseteq DOMAIN n
  /\ IsSeq(n.children) /\ IsSeq(n.spans) /\ IsSeq(n.prov)
  /\ \A i \in DOMAIN n.spans : "target" \in DOMAIN n.spans[i]
Lists == Arenas \cup {"body", "furniture", "anchors"}
IsDocument(doc) ==
  /\ Lists \cup {"pages", "meta"} \subseteq DOMAIN doc
  /\ \A a \in Lists : IsSeq(doc[a])
  /\ \A a \in Arenas : \A i \in DOMAIN doc[a] : IsItem(doc[a][i])

\* The legs are a list; each has a document, from a collector of known standing
\* that may state its confidence.
ASSUME InputsAssumption ==
  /\ \A c \in DOMAIN ClaimRank : ClaimRank[c] \in Int
  /\ \A i \in Inputs :
       /\ IsSeq(i.legs)
       /\ \A k \in DOMAIN i.legs :
            /\ IsDocument(i.legs[k].doc)
            /\ i.legs[k].claimant.confidence \in Nat
            /\ i.legs[k].claimant.collector \in DOMAIN ClaimRank

VARIABLES
  input,    \* what this run of the passes is about
  stage,    \* merge, pages, settle, repair, deliver, done, chunked or failed
  at,       \* the next leg, page event or pass
  result,   \* the coordinator's merged document and successful legs
  opened,   \* the document as the repair pass found it
  work,     \* the document being repaired and its rename log
  fold,     \* what server and client folded from the page events
  client,   \* <<document>> once the client holds the finished one
  served    \* <<chunking>> once a call was answered: request, offset table, chunks
vars == <<input, stage, at, result, opened, work, fold, client, served>>

\* The order repair_document runs its passes in.
Passes == <<"demote", "headings_split", "rows_split", "headings", "order", "continuations", "hyphens",
            "migrate", "orphans", "wrap", "empty", "reorder">>
Options == ToSet(Passes) \ {"reorder"}
Modes == {"unary", "streamed", "projected", "recognized", "abandoned"}

Enabled(name, options) ==
  IF name = "reorder" THEN {"migrate", "order"} \subseteq options ELSE name \in options

Migrates == "migrate" \in input.options

-----------------------------------------------------------------------------
\* The pages of a collector that streams them, each once and in order, the
\* empty ones included.
EveryPage(events) ==
  LET Blank(p) == [page |-> p, height |-> 0, items |-> <<>>, order |-> <<>>]
      Of(p) == {e \in ToSet(events) : e.page = p}
  IN [p \in 1..Max({e.page : e \in ToSet(events)} \cup {0}) |->
        IF Of(p) = {} THEN Blank(p) ELSE CHOOSE e \in Of(p) : TRUE]
Slices(doc) == EveryPage(ProjectPageData(doc))

Document == input.legs[1].doc
Open(doc) == opened' = doc /\ work' = OpenPass(doc) /\ stage' = "repair" /\ at' = 1

Init ==
  /\ input \in Inputs
  /\ stage = CASE input.mode = "unary" -> "merge" [] input.mode = "projected" -> "repair"
               [] OTHER -> "pages"
  /\ at = 1 /\ client = NoDelta /\ served = <<>> /\ fold = EmptyDocument
  /\ result = [doc |-> EmptyDocument, succeeded |-> 0]
  /\ opened = IF input.mode = "projected" THEN input.legs[1].doc ELSE EmptyDocument
  /\ work = OpenPass(opened)

\* run_collectors: the legs' documents merge in plan order.
MergeNextLeg ==
  /\ stage = "merge" /\ at <= Len(input.legs)
  /\ result' = MergeLeg(result, input.legs[at]) /\ at' = at + 1
  /\ UNCHANGED <<input, stage, opened, work, fold, client, served>>
AllMerged ==
  /\ stage = "merge" /\ at > Len(input.legs)
  /\ IF result.succeeded > 0 THEN Open(result.doc)
     ELSE stage' = "failed" /\ UNCHANGED <<at, opened, work>>
  /\ UNCHANGED <<input, result, fold, client, served>>

\* A page goes out and is folded on both sides.
SendPage ==
  /\ stage = "pages"
  /\ \E pages \in {Slices(Document)} : at <= Len(pages) /\ fold' = FoldPage(fold, pages[at])
  /\ at' = at + 1
  /\ UNCHANGED <<input, stage, result, opened, work, client, served>>
\* The pdf collector's document arrives and is repaired under a rename log.
DocumentArrives ==
  /\ stage = "pages" /\ at > Len(Slices(Document)) /\ input.mode = "streamed"
  /\ Open(Document)
  /\ UNCHANGED <<input, result, fold, client, served>>
\* emit_fold_delta_locked: the fold itself is finished, with the levels of
\* the terminal event on it; recognized pages are grouped first.
SettleFold ==
  /\ stage = "pages" /\ at > Len(Slices(Document)) /\ input.mode \in {"recognized", "abandoned"}
  /\ \E undecided \in {SelectSeq(Candidates(fold), LAMBDA h : At(fold, h.ref).level = 0)} :
     \E levels \in {IF input.mode = "recognized" THEN InferHeadingLevels(undecided) ELSE <<>>} :
     \E before \in {ApplySectionHeaderLevels(levels, fold)} :
        /\ fold' = before
        /\ opened' = before
        /\ work' = OpenPass(IF input.mode = "recognized" THEN GroupListItems(before) ELSE before)
  /\ IF fold = EmptyDocument THEN stage' = "done" /\ client' = <<fold>> ELSE stage' = "repair" /\ UNCHANGED client
  /\ at' = 1
  /\ UNCHANGED <<input, result, served>>

-----------------------------------------------------------------------------
(* repair_document *)

Pass(name, repaired) ==
  /\ stage = "repair" /\ at <= Len(Passes) /\ Passes[at] = name
  /\ work' = IF Enabled(name, input.options) THEN repaired ELSE work
  /\ at' = at + 1
  /\ UNCHANGED <<input, stage, result, opened, fold, client, served>>
Demote == Pass("demote", DemoteRunningFurniture(work, Migrates))
SplitHeadings == Pass("headings_split", SplitRunInHeadings(work))
SplitRows == Pass("rows_split", SplitFormRows(work))
InferHeadings == Pass("headings", InferHeadingHierarchy(work))
\* The body is ordered again when the migration moved furniture into it.
OrderBody ==
  \E name \in {"order", "reorder"} :
    Pass(name, IF name = "reorder" /\ ~work.migrated THEN work
               ELSE OrderBodyByGeometry(work, GeometryCollectors))
Continuations == Pass("continuations", MergeContinuations(work, Migrates))
Hyphens == Pass("hyphens", RejoinHyphenation(work))
Migrate == Pass("migrate", MigrateFurnitureTree(work))
Orphans == Pass("orphans", RepairReferencedOrphans(work))
WrapChildren == Pass("wrap", WrapListChildren(work))
EmptyGroupsGo == Pass("empty", RemoveEmptyGroups(work))
Repaired ==
  /\ stage = "repair" /\ at > Len(Passes)
  /\ stage' = IF input.mode = "unary" THEN "done" ELSE "deliver"
  /\ UNCHANGED <<input, at, result, opened, work, fold, client, served>>

-----------------------------------------------------------------------------
(* The delta. *)

Receive(delta, held) == IF delta = NoDelta THEN <<held>> ELSE ApplyRepairDelta(delta, held)
\* Pages that went out before the repair are brought up to date under the log.
Deliver ==
  /\ stage = "deliver" /\ input.mode # "projected"
  /\ client' = Receive(RepairDelta(fold, work.doc, work.log), fold)
  /\ stage' = "done"
  /\ UNCHANGED <<input, at, result, opened, work, fold, served>>
\* A finished document goes out as its pages and the tree they flatten; one
\* without pages goes out whole.
DeliverProjected ==
  /\ stage = "deliver" /\ input.mode = "projected"
  /\ \E pages \in {ProjectPageData(work.doc)} :
     \E folded \in {FoldLeft(FoldPage, EmptyDocument, pages)} :
        /\ fold' = folded
        /\ client' = IF pages = <<>> THEN <<work.doc>>
                     ELSE Receive(RepairDelta(folded, work.doc, <<>>), folded)
  /\ stage' = "done"
  /\ UNCHANGED <<input, at, result, opened, work, served>>
-----------------------------------------------------------------------------
(* The chunking calls. *)

\* chunk_hierarchical_source, chunk_hybrid_source: the parse's offset table is
\* derived from the finished document; a VLM conversion leaves it empty.
Chunk ==
  /\ stage = "done" /\ input.mode = "unary"
  /\ \E request \in input.requests, table \in {DeriveOffsets(work.doc), <<>>} :
       served' = <<[request |-> request, table |-> table,
                    chunks |-> ChunkDocument(work.doc, table, request)]>>
  /\ stage' = "chunked"
  /\ UNCHANGED <<input, at, result, opened, work, fold, client>>
Rest == stage \in {"done", "chunked", "failed"} /\ UNCHANGED vars

Next ==
  \/ MergeNextLeg \/ AllMerged \/ SendPage \/ DocumentArrives \/ SettleFold
  \/ Demote \/ SplitHeadings \/ SplitRows \/ InferHeadings \/ OrderBody \/ Continuations \/ Hyphens
  \/ Migrate \/ Orphans \/ WrapChildren \/ EmptyGroupsGo \/ Repaired
  \/ Deliver \/ DeliverProjected \/ Chunk \/ Rest
Spec == Init /\ [][Next]_vars

-----------------------------------------------------------------------------
(* Properties. *)

TypeOK ==
  /\ input.mode \in Modes /\ input.options \subseteq Options
  /\ stage \in {"merge", "pages", "repair", "deliver", "done", "chunked", "failed"}
  /\ at \in 1..(Len(Passes) + 1)
  /\ result.succeeded \in 0..Len(input.legs)
  /\ \A doc \in {work.doc, result.doc} : \A s \in Slots(doc) : At(doc, s).self = s
  /\ client = NoDelta \/ Len(client) = 1

Errors(doc) == Cardinality(IntegrityErrors(doc))
\* No merge of legs and no repair leaves the document with an integrity error
\* the collectors did not deliver: parents, children and link targets resolve,
\* a parent lists its children, and no name is given twice.
IntegrityKept ==
  /\ Errors(result.doc) <= MapThenSumSet(LAMBDA k : Errors(input.legs[k].doc), DOMAIN input.legs)
  /\ Errors(work.doc) <= Errors(opened)

\* Items under the names their places give, every reference resolved.
Named(doc) == \A s \in Slots(doc) : At(doc, s).self = s
LegsSound == \A k \in DOMAIN input.legs : Named(input.legs[k].doc) /\ IntegrityErrors(input.legs[k].doc) = {}
\* Legs without an integrity error merge into a document without one: the
\* items of each keep their parents, children, captions and targets through
\* the renumbering, whichever legs failed and whichever gave only an account.
MergedSound == LegsSound => Named(result.doc) /\ IntegrityErrors(result.doc) = {}

WordsOf(doc, refs) ==
  LET texts == SelectSeq(doc.texts, LAMBDA n : n.self \in refs)
      all == FlattenSeq([i \in DOMAIN texts |-> texts[i].text])
  IN [w \in ToSet(all) \cap DOMAIN Lexicon |-> Len(SelectSeq(all, LAMBDA t : t = w))]
InTree(doc) == Below(doc, Body) \cup Below(doc, Furniture)
\* Splitting, merging, folding and moving items neither loses nor repeats a
\* word of the document, and a word the tree reached stays in the tree.
ContentConserved ==
  LET before == WordsOf(opened, InTree(opened))
      now == WordsOf(work.doc, InTree(work.doc))
  IN /\ WordsOf(work.doc, Slots(work.doc)) = WordsOf(opened, Slots(opened))
     /\ \A w \in DOMAIN before : w \in DOMAIN now /\ before[w] <= now[w]

\* Spans follow the text they mark through splits, merges and hyphens: each
\* begins at its own word and ends inside the text.
SpansFollowText ==
  \A i \in DOMAIN work.doc.texts :
    LET n == work.doc.texts[i] IN
    \A sp \in ToSet(n.spans) : /\ sp.start < sp.end /\ sp.end <= Len(n.text)
                               /\ n.text[sp.start + 1] = sp.word

\* The passes over texts (split, merge, dehyphenate, fold) move words and their
\* marks together: none lost, none repeated, no mark on another word.
ContentKept == ContentConserved /\ SpansFollowText

\* What the geometry pass orders by the cut: placed children that are neither
\* furniture, footnotes nor captions.
MainText(doc, heights) ==
  {i \in DOMAIN doc.body : /\ Placed(ItemPlacement(doc, doc.body[i], heights))
                           /\ ItemLabel(doc, doc.body[i]) \notin FurnitureLabels \cup {"footnote", "caption"}}
\* Once the body is ordered by geometry, an item that lies wholly above another
\* of its page and shares some of its width is read before it.
ReadsDown ==
  stage = "repair" /\ at = 6 /\ "order" \in input.options /\
  ProducedOnlyBy(work.doc, GeometryCollectors) =>
    LET heights == DocumentPageHeights(work.doc)
        Where(i) == ItemPlacement(work.doc, work.doc.body[i], heights)
        Above(a, b) == /\ a.page = b.page /\ a.box.b <= b.box.t
                       /\ Min({a.box.r, b.box.r}) > Max({a.box.l, b.box.l})
        main == MainText(work.doc, heights)
    IN \A i, j \in main : Above(Where(i), Where(j)) => i < j

\* A client that folded the page events and applied the delta holds the
\* finished document: the same items under the same names, the same children
\* lists and pages.
ClientHoldsDocument ==
  stage = "done" /\ input.mode # "unary" =>
    /\ client # NoDelta
    /\ \A a \in DeltaArenas : client[1][a] = work.doc[a]
    /\ client[1].body = work.doc.body /\ client[1].furniture = work.doc.furniture
    /\ client[1].pages = work.doc.pages

\* Where a structural repair ran, the finished document no longer breaks the
\* rule it repairs, and running it again changes nothing, the later repairs
\* notwithstanding.
RepairsSettle ==
  stage = "done" =>
    LET asked == input.options
        found == StructureFindings(work.doc)
    IN /\ "migrate" \in asked => MigrateFurnitureTree(work).doc = work.doc
       /\ "orphans" \in asked => RepairReferencedOrphans(work).doc = work.doc
       /\ "wrap" \in asked => WrapListChildren(work).doc = work.doc
       /\ "empty" \in asked => RemoveEmptyGroups(work).doc = work.doc
       /\ "migrate" \in asked => found.deprecated_furniture_tree = {}
       /\ "wrap" \in asked => found.list_group_non_list_item_child = {}
       /\ "empty" \in asked => found.empty_group = {}

\* The repairs of repair_document, in any selection and whatever runs after
\* them, leave a sound tree and nothing more for themselves to do.
RepairsHold == IntegrityKept /\ RepairsSettle

\* A document-level field carries the answer of the first account of highest
\* standing: by confidence where every account of it states one, else by the
\* collectors' rank; a tie leaves the earlier answer.
ClaimsDecide ==
  LET doc == result.doc
      Accounts(f) == {k \in DOMAIN doc.claims : f \in DOMAIN doc.claims[k].meta}
      Stated(f) == {k \in Accounts(f) : doc.claims[k].source.confidence > 0}
      Standing(f, k) ==
        LET s == doc.claims[k].source
        IN <<IF Stated(f) = {} THEN 0 ELSE -s.confidence, -ClaimRank[s.collector], k>>
      Best(f) == CHOOSE k \in Accounts(f) :
                   \A j \in Accounts(f) \ {k} : LexLess(Standing(f, k), Standing(f, j))
  IN \A f \in DOMAIN doc.meta :
       Stated(f) \in {{}, Accounts(f)} => doc.meta[f] = doc.claims[Best(f)].meta[f]

\* What the coordinator makes of a plan's legs: the best account of every
\* document-level field, and of sound documents a sound one.
MergeHolds == ClaimsDecide /\ MergedSound

\* What the chunks of the document must hold: the texts its body reaches through
\* groups and texts, and the captions of the floats it reaches; not headings,
\* nor what a blank heading took its text from.
BodyTexts(doc) ==
  LET Folds(n) == n.label = "section_header" /\ IsBlank(n.text) /\ Len(n.children) = 1
      Inner(r) == IF IsText(doc, r) /\ (At(doc, r).label = "code" \/ Folds(At(doc, r))) THEN {}
                  ELSE IF IsGroup(doc, r) \/ IsText(doc, r) THEN ToSet(ChildrenOf(doc, r)) ELSE {}
      Step(S) == S \cup {c \in UNION {Inner(r) : r \in S} : ~Excluded(doc, c)}
      reach[n \in 0..Cardinality(Slots(doc))] == IF n = 0 THEN {Body} ELSE Step(reach[n - 1])
      reached == reach[Cardinality(Slots(doc))] \cap Slots(doc)
      named == UNION {ToSet(At(doc, f).captions) : f \in {x \in reached : IsFloat(At(doc, x))}}
  IN {r \in (reached \ CaptionRefs(doc)) \cup named :
        IsText(doc, r) /\ At(doc, r).label \notin {"title", "section_header"} /\ ~IsBlank(At(doc, r).text)}
HoldsPart(text, part) == \E k \in 0..(Len(text) - Len(part)) : Slice(text, <<k, k + Len(part)>>) = part
\* The chunks hold the document: every text of the body, verbatim and in one
\* chunk only; merging and splitting to a budget neither lose, repeat nor
\* reorder a mark; and wordish chunks keep the budget unless their headings
\* alone fill it.
ChunksCarryContent ==
  stage = "chunked" => \E whole \in {ChunkHierarchical(work.doc, served[1].table, served[1].request.images)} :
    LET call == served[1]
        Marks(chunks) == SelectSeq(FlattenSeq([k \in DOMAIN chunks |-> chunks[k].text]),
                                   LAMBDA t : ~IsSpace(t))
        budgeted == call.request.kind = "hybrid" /\ call.request.counter = "wordish"
    IN /\ IsInjective(FlattenSeq([k \in DOMAIN whole |-> whole[k].items]))
       /\ \A r \in BodyTexts(work.doc) :
            \E c \in ToSet(whole) : r \in ToSet(c.items) /\ HoldsPart(c.text, At(work.doc, r).text)
       /\ Marks(call.chunks) = Marks(whole)
       /\ budgeted => \A c \in ToSet(call.chunks) :
                        \/ Count("wordish", Contextualized(c)) <= call.request.max
                        \/ HeadingTokens("wordish", c) >= call.request.max

\* Offsets name the plain-text export: a row its item's text, the span of a
\* chunk of one item that chunk's text, any other span what its items cover;
\* without a table no chunk states a span.
ChunkOffsetsHold ==
  stage = "chunked" =>
    LET call == served[1]
        plain == PlainText(work.doc)
        RowsOf(c) == {call.table[r] : r \in ToSet(c.items) \cap DOMAIN call.table}
    IN /\ \A r \in DOMAIN call.table : Slice(plain, call.table[r]) = At(work.doc, r).text
       /\ \A c \in {x \in ToSet(call.chunks) : ReportsSpan(x)} :
            /\ RowsOf(c) # {}
            /\ IF Len(c.items) = 1 THEN Slice(plain, c.span) = c.text
               ELSE \A row \in RowsOf(c) : c.span[1] <= row[1] /\ row[2] <= c.span[2]

\* What chunk_document answers is the document: its body's texts and its
\* placed offsets, at every stage of merging and splitting.
ChunksHoldDocument == ChunksCarryContent /\ ChunkOffsetsHold
=============================================================================
