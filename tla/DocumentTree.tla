---------------------------- MODULE DocumentTree ----------------------------
(***************************************************************************)
(* A finished Document as the passes over it see it: arenas of linked      *)
(* items, two tree roots, pages and anchors.  A reference is the pair of   *)
(* an arena and a position; an item's text is a sequence of tokens, one    *)
(* token standing for one code point: words of a lexicon and the marks     *)
(* between them.                                                           *)
(*                                                                         *)
(* Also the two readings every pass shares: where an item sits on its page *)
(* (document_geometry.cpp) and what integrity_check.cpp finds wrong.       *)
(***************************************************************************)
EXTENDS Integers, Sequences, FiniteSets, FiniteSetsExt, SequencesExt

\* The arenas in the order all_nodes() lists them; "forms" stands for the
\* key-value, form and field arenas, which differ in name only.
ArenaOrder == <<"groups", "texts", "pictures", "tables", "forms">>
Arenas == ToSet(ArenaOrder)
Body == <<"body", 0>>
Furniture == <<"furniture", 0>>
NoRef == <<"none", 0>>
Roots == {Body, Furniture}

\* captions stands for captions, footnotes and references; a span covers the
\* tokens from start up to end and may point at a target; a provenance entry
\* is a page, a box and a charspan, <<>> when it has none.
Item(self, parent, label) ==
  [self |-> self, parent |-> parent, children |-> <<>>, layer |-> "body", label |-> label,
   prov |-> <<>>, text |-> <<>>, spans |-> <<>>, captions |-> <<>>, cells |-> <<>>,
   sources |-> {}, level |-> 0, enumerated |-> FALSE]

Slots(doc) == UNION {{a} \X DOMAIN doc[a] : a \in Arenas}
At(doc, s) == doc[s[1]][s[2]]
Resolves(doc, r) == r \in Roots \/ (r \in Slots(doc) /\ At(doc, r).self = r)
ChildrenOf(doc, r) ==
  CASE r = Body -> doc.body [] r = Furniture -> doc.furniture [] OTHER -> At(doc, r).children
\* A sequence given as a function, written out as a tuple.
AsTuple(f) == SubSeq(f, 1, Len(f))
\* The document with its arenas' items replaced, and with Op applied to each.
WithArenas(doc, items) ==
  [doc EXCEPT !.groups = items["groups"], !.texts = items["texts"], !.pictures = items["pictures"],
              !.tables = items["tables"], !.forms = items["forms"]]
MapItems(doc, Op(_)) ==
  WithArenas(doc, [a \in Arenas |-> AsTuple([i \in DOMAIN doc[a] |-> Op(doc[a][i])])])

-----------------------------------------------------------------------------
(* References and their renumbering.  A step and a log are functions from  *)
(* references to references; ReferenceRenameLog of document_merge.cpp      *)
(* composes every step applied while it is open into one map from the      *)
(* reference as it stood then to the reference it names now.               *)

\* A step renames simultaneously; what it does not map passes through.
Renamed(step, r) == IF r \in DOMAIN step THEN step[r] ELSE r

\* A current name that earlier steps produced moves its originals on; any
\* other name is an original nobody renamed yet, unless an earlier step moved
\* that original away.  A reference back at its own name is dropped.
Record(log, step) ==
  LET held == {log[o] : o \in DOMAIN log}
      fresh == (DOMAIN step \ held) \ DOMAIN log
      next == [o \in DOMAIN log \cup fresh |-> Renamed(step, Renamed(log, o))]
  IN [o \in {x \in DOMAIN next : next[x] # x} |-> next[o]]

\* rewrite_refs walks the whole message by reflection, so every reference
\* and every self_ref is renamed at once.
RewriteReferences(step, doc) ==
  LET Ren(r) == Renamed(step, r)
      RenAll(rs) == [i \in DOMAIN rs |-> Ren(rs[i])]
      Aimed(sp) == [sp EXCEPT !.target = Ren(@)]
      Op(n) == [n EXCEPT !.self = Ren(@), !.parent = Ren(@), !.children = RenAll(@),
                         !.captions = RenAll(@), !.cells = RenAll(@),
                         !.spans = [i \in DOMAIN @ |-> Aimed(@[i])]]
  IN [MapItems(doc, Op) EXCEPT !.body = RenAll(@), !.furniture = RenAll(@), !.anchors = RenAll(@)]

\* The nodes reached from r through children, r included.
Below(doc, r) ==
  LET Step(S) == S \cup UNION {ToSet(ChildrenOf(doc, s)) : s \in {x \in S : Resolves(doc, x)}}
      reach[n \in 0..Cardinality(Slots(doc))] == IF n = 0 THEN {r} ELSE Step(reach[n - 1])
  IN reach[Cardinality(Slots(doc))]

-----------------------------------------------------------------------------
(* Geometry: boxes are top-down, edges are whole units. *)

HasArea(p) == p.r > p.l /\ p.b > p.t
FirstPageOf(prov) ==
  LET named == {prov[i].page : i \in DOMAIN prov} \ {0} IN IF named = {} THEN 0 ELSE Min(named)
LastPageOf(prov) == IF prov = <<>> THEN 0 ELSE Max({prov[i].page : i \in DOMAIN prov})

\* A page that states no height is as tall as the boxes on it reach.
DocumentPageHeights(doc) ==
  LET entries == UNION {ToSet(At(doc, s).prov) : s \in {x \in Slots(doc) : x[1] # "forms"}}
      stated == {p \in DOMAIN doc.pages : doc.pages[p] > 0}
      pages == stated \cup {e.page : e \in {x \in entries : x.page > 0 /\ (x.t > 0 \/ x.b > 0)}}
  IN [p \in pages |-> IF p \in stated THEN doc.pages[p]
                      ELSE Max(UNION {{e.t, e.b} : e \in {x \in entries : x.page = p}})]

Hull(boxes) == [l |-> Min({x.l : x \in boxes}), t |-> Min({x.t : x \in boxes}),
                r |-> Max({x.r : x \in boxes}), b |-> Max({x.b : x \in boxes})]
Nowhere == [page |-> 0, box |-> [l |-> 0, t |-> 0, r |-> 0, b |-> 0]]
Placed(placement) == placement.page > 0

ProvenancePlacement(prov, heights) ==
  LET page == FirstPageOf(prov)
      boxes == {x \in ToSet(prov) : x.page = page /\ HasArea(x)}
  IN IF page \notin DOMAIN heights \/ boxes = {} THEN Nowhere
     ELSE [page |-> page, box |-> Hull(boxes)]

\* Groups nest; the walk ends at this depth.
GroupDepth == 16
\* A group sits on the first page any member is on, over its members there.
ItemPlacement(doc, ref, heights) ==
  LET place[r \in Slots(doc), d \in 0..(GroupDepth + 1)] ==
        IF r[1] # "groups"
        THEN IF r[1] = "forms" THEN Nowhere ELSE ProvenancePlacement(At(doc, r).prov, heights)
        ELSE LET members == {place[c, d + 1] :
                   c \in IF d > GroupDepth THEN {} ELSE ToSet(At(doc, r).children) \cap Slots(doc)}
                 found == {m \in members : Placed(m)}
                 page == Min({m.page : m \in found})
             IN IF found = {} THEN Nowhere
                ELSE [page |-> page, box |-> Hull({m.box : m \in {x \in found : x.page = page}})]
  IN IF ref \in Slots(doc) THEN place[ref, 0] ELSE Nowhere

ItemLabel(doc, ref) ==
  IF ref \in Slots(doc) /\ ref[1] \in {"texts", "tables", "pictures"} THEN At(doc, ref).label
  ELSE "unspecified"

ProducedOnlyBy(doc, collectors) ==
  LET names == UNION {At(doc, s).sources : s \in {x \in Slots(doc) :
                                                    x[1] \in {"texts", "tables", "pictures"}}}
  IN names # {} /\ names \subseteq collectors

-----------------------------------------------------------------------------
(* integrity_check.cpp. *)

\* What every item must satisfy: it is named once, its parent and its
\* children exist, its parent lists it, it is on a page, and whatever points
\* at an item or a page points at one that is there.
IntegrityErrors(doc) ==
  LET slots == Slots(doc)
      refs == Roots \cup {At(doc, s).self : s \in slots} \cup ({"pages"} \X DOMAIN doc.pages)
      holders == slots \cup Roots
      listed(r) == UNION {ToSet(ChildrenOf(doc, h)) : h \in
                     {x \in holders : IF x \in Roots THEN x = r ELSE At(doc, x).self = r}}
      targets == ToSet(doc.anchors) \cup
                 UNION {{sp.target : sp \in ToSet(At(doc, s).spans)} : s \in slots}
  IN {<<"empty", s>> : s \in {x \in slots : At(doc, x).self = NoRef}} \cup
     {<<"duplicate", s>> : s \in {x \in slots : \E y \in slots \ {x} :
                                     At(doc, y).self = At(doc, x).self}} \cup
     {<<"child", h>> : h \in {x \in holders : ~(ToSet(ChildrenOf(doc, x)) \subseteq refs)}} \cup
     {<<"parent", s>> : s \in {x \in slots : At(doc, x).parent \notin refs \cup {NoRef}}} \cup
     {<<"unlisted", s>> : s \in {x \in slots : At(doc, x).parent \in refs /\
                                    At(doc, x).self \notin listed(At(doc, x).parent)}} \cup
     {<<"page", s>> : s \in {x \in slots : \E e \in ToSet(At(doc, x).prov) : e.page < 1}} \cup
     {<<"target", r>> : r \in targets \ (refs \cup {NoRef})}

IsListGroup(doc, r) == r[1] = "groups" /\ Resolves(doc, r) /\
                       At(doc, r).label \in {"list", "ordered_list"}
IsListItem(doc, r) == r[1] = "texts" /\ Resolves(doc, r) /\ At(doc, r).label = "list_item"
\* The walk of validate_tree from a root meets some child a second time
\* exactly when the nodes it reaches have more child links than there are
\* nodes to reach.
Repeats(doc, root) ==
  LET reached == Below(doc, root)
  IN MapThenSumSet(LAMBDA r : Len(ChildrenOf(doc, r)), {r \in reached : Resolves(doc, r)})
       # Cardinality(reached) - 1

\* docling_structure_findings, by rule: the refs it reports.
StructureFindings(doc) ==
  LET nodes == {s \in Slots(doc) : Resolves(doc, s)}
      Parent(s) == At(doc, s).parent
      Lists(r) == ToSet(ChildrenOf(doc, r))
  IN [deprecated_furniture_tree |-> IF doc.furniture = <<>> THEN {} ELSE {Furniture},
      key_value_or_form_item |-> {s \in nodes : s[1] = "forms"},
      list_group_non_list_item_child |->
        {s \in nodes : IsListGroup(doc, s) /\
                       \E c \in Lists(s) : Resolves(doc, c) /\ ~IsListItem(doc, c)},
      list_item_outside_list_group |->
        {s \in nodes : IsListItem(doc, s) /\
           (Parent(s) = NoRef \/ (Resolves(doc, Parent(s)) /\ ~IsListGroup(doc, Parent(s))))},
      parent_missing |-> {s \in nodes : Parent(s) # NoRef /\ ~Resolves(doc, Parent(s))},
      not_listed_by_parent |->
        {s \in nodes : Resolves(doc, Parent(s)) /\ s \notin Lists(Parent(s))},
      empty_group |-> {s \in nodes : s[1] = "groups" /\ Parent(s) # NoRef /\ Lists(s) = {}},
      repeated_reference |-> {r \in Roots : Repeats(doc, r)},
      rich_cell_not_owned |->
        {s \in nodes : s[1] = "tables" /\
           LET cells == At(doc, s).cells IN
           \/ Cardinality(ToSet(cells)) # Len(cells)
           \/ \E c \in ToSet(cells) : c \notin nodes \/ Parent(c) # s \/ c \notin Lists(s)}]
=============================================================================
