--------------------------- MODULE StructureRepair ---------------------------
(***************************************************************************)
(* The four structural repairs of structure_repair.cpp and the retirement  *)
(* of text items they share their renumbering with.  A repair takes and    *)
(* returns what a pass works on: the document and its renumberings.        *)
(***************************************************************************)
EXTENDS DocumentTree

\* log is the rename log, migrated whether the furniture migration moved
\* anything.
OpenPass(doc) == [doc |-> doc, log |-> <<>>, migrated |-> FALSE]
Rewrite(step, work) ==
  [work EXCEPT !.doc = RewriteReferences(step, @), !.log = Record(@, step)]

SetItem(doc, r, n) == [doc EXCEPT ![r[1]][r[2]] = n]

-----------------------------------------------------------------------------
(* migrate_furniture_tree *)

\* Being in the furniture tree is what marked the item, so the body layer
\* becomes the furniture layer on the way out, descendants included.
MarkFurniture(doc, refs) ==
  LET marked == UNION {Below(doc, r) : r \in refs}
      Op(n) == [n EXCEPT !.layer = IF n.self \in marked /\ @ = "body" THEN "furniture" ELSE @,
                         !.parent = IF n.self \in refs THEN Body ELSE @]
  IN MapItems(doc, Op)

\* The line a box sits on: its top in bands of twelve points, rounded.
LineBand(box) == (box.t + 6) \div 12

\* Where a furniture child goes: header or footer, its page, its place there.
Moved(doc, heights, i) ==
  LET r == doc.furniture[i]
      at == ItemPlacement(doc, r, heights)
      label == ItemLabel(doc, r)
      low == at.box.t + at.box.b > heights[at.page]
  IN [ref |-> r, page |-> at.page,
      footer |-> label = "page_footer" \/ (label # "page_header" /\ Placed(at) /\ low),
      key |-> <<LineBand(at.box), at.box.l, i>>]
LexLess(a, b) == \E k \in DOMAIN a : a[k] < b[k] /\ \A j \in 1..(k - 1) : a[j] = b[j]
MovedBefore(a, b) ==
  LexLess(<<a.page, IF a.footer THEN 1 ELSE 0>> \o a.key,
          <<b.page, IF b.footer THEN 1 ELSE 0>> \o b.key)
Refs(moved) == [i \in DOMAIN moved |-> moved[i].ref]

\* Bug: what belongs after the last body item is forgotten.
PlaceByPageForgets(doc, heights, located) ==
  LET Step(acc, child) ==
        LET page == ItemPlacement(doc, child, heights).page
            rest == SubSeq(located, acc.next + 1, Len(located))
            now == SelectSeq(rest, LAMBDA m : m.page < page \/ (m.page = page /\ ~m.footer))
        IN [next |-> acc.next + Len(now), out |-> acc.out \o Refs(now) \o <<child>>]
  IN FoldLeft(Step, [next |-> 0, out |-> <<>>], doc.body).out

\* A located header goes before the first body item of its page and a footer
\* after the last one.
PlaceByPage(doc, heights, located) ==
  LET Precedes(m, page) == m.page < page \/ (m.page = page /\ ~m.footer)
      Step(acc, child) ==
        LET page == ItemPlacement(doc, child, heights).page
            rest == SubSeq(located, acc.next + 1, Len(located))
            now == IF page = 0 THEN <<>>
                   ELSE SelectSeq(rest, LAMBDA m : Precedes(m, page))
        IN [next |-> acc.next + Len(now), out |-> acc.out \o Refs(now) \o <<child>>]
      Close(acc) == acc.out \o Refs(SubSeq(located, acc.next + 1, Len(located)))
  IN Close(FoldLeft(Step, [next |-> 0, out |-> <<>>], doc.body))

\* Without a placed body child the body stands between headers and footers.
AmongBody(doc, heights, located) ==
  IF \E i \in DOMAIN doc.body : Placed(ItemPlacement(doc, doc.body[i], heights))
  THEN PlaceByPage(doc, heights, located)
  ELSE Refs(SelectSeq(located, LAMBDA m : ~m.footer)) \o doc.body \o
       Refs(SelectSeq(located, LAMBDA m : m.footer))
BodyWithFurniture(doc, heights, moved) ==
  Refs(SelectSeq(moved, LAMBDA m : m.page = 0 /\ ~m.footer)) \o
  AmongBody(doc, heights, SortSeq(SelectSeq(moved, LAMBDA m : m.page > 0), MovedBefore)) \o
  Refs(SelectSeq(moved, LAMBDA m : m.page = 0 /\ m.footer))
MigrateFurnitureTree(work) ==
  LET doc == work.doc
      heights == DocumentPageHeights(doc)
  IN [work EXCEPT !.doc = [MarkFurniture(doc, ToSet(doc.furniture)) EXCEPT
        !.body = BodyWithFurniture(doc, heights, [i \in DOMAIN doc.furniture |-> Moved(doc, heights, i)]),
        !.furniture = <<>>],
                  !.migrated = doc.furniture # <<>>]

-----------------------------------------------------------------------------
(* repair_referenced_orphans *)

\* An orphan its floating item names, and that names it as its parent, is
\* listed among that item's children.
RepairReferencedOrphans(work) ==
  LET doc == work.doc
      Owned(n, r) == Resolves(doc, r) /\ r \notin Roots /\ At(doc, r).parent = n.self
      List(n) == LET Add(kids, r) == IF Owned(n, r) /\ r \notin ToSet(kids)
                                     THEN Append(kids, r) ELSE kids
                 IN [n EXCEPT !.children = FoldLeft(Add, @, n.captions)]
  IN [work EXCEPT !.doc = MapItems(doc, List)]

-----------------------------------------------------------------------------
(* wrap_list_children *)

\* The children to wrap, group by group: resolved, no list item, and naming
\* the list as their parent.
WrapsOf(doc) ==
  LET In(g) == LET r == <<"groups", g>> IN
        IF ~IsListGroup(doc, r) THEN <<>>
        ELSE LET Wrong(c) == c \in Slots(doc) /\ ~IsListItem(doc, c) /\ At(doc, c).parent = r
             IN [i \in DOMAIN SelectSeq(At(doc, r).children, Wrong) |->
                   <<r, SelectSeq(At(doc, r).children, Wrong)[i]>>]
  IN FlattenSeq([g \in DOMAIN doc.groups |-> In(g)])

\* Bug: the new item is listed but the child still names the list.
WrapKeepsParent(doc, wrap) ==
  LET list == At(doc, wrap[1])
      item == <<"texts", Len(doc.texts) + 1>>
  IN [doc EXCEPT !.texts = Append(@, [Item(item, wrap[1], "list_item") EXCEPT
                                        !.children = <<wrap[2]>>]),
                 !.groups[wrap[1][2]].children = ReplaceFirstSubSeq(<<item>>, <<wrap[2]>>, @)]

\* The new item follows its siblings' numbering, or the group's label.
Wrap(doc, wrap) ==
  LET list == At(doc, wrap[1])
      child == At(doc, wrap[2])
      item == <<"texts", Len(doc.texts) + 1>>
      siblings == SelectSeq(list.children, LAMBDA r : IsListItem(doc, r))
      numbered == IF siblings # <<>> THEN At(doc, siblings[1]).enumerated
                  ELSE list.label = "ordered_list"
      new == [Item(item, wrap[1], "list_item") EXCEPT
                !.enumerated = numbered, !.layer = child.layer, !.children = <<wrap[2]>>]
      held == SetItem(doc, wrap[2], [child EXCEPT !.parent = item])
  IN [held EXCEPT !.texts = Append(@, new),
                  !.groups[wrap[1][2]].children = ReplaceFirstSubSeq(<<item>>, <<wrap[2]>>, @)]

WrapListChildren(work) == [work EXCEPT !.doc = FoldLeft(Wrap, @, WrapsOf(@))]

-----------------------------------------------------------------------------
(* remove_empty_groups *)

\* The renumbering after the positions `gone` leave an arena: survivors close
\* up, and a reference into a removed item follows it to heir[r], under the
\* heir's new name.
Renumbering(arena, size, gone, heir) ==
  LET moved == [r \in {<<arena, i>> : i \in (1..size) \ gone} |->
                  <<arena, r[2] - Cardinality({g \in gone : g < r[2]})>>]
      kept == [r \in {x \in DOMAIN moved : moved[x] # x} |-> moved[r]]
  IN [r \in DOMAIN kept \cup ({arena} \X gone) |->
        IF r \in DOMAIN kept THEN kept[r] ELSE Renamed(kept, heir[r])]
Survivors(items, gone) ==
  LET left == SelectSeq([i \in DOMAIN items |-> i], LAMBDA i : i \notin gone)
  IN AsTuple([i \in DOMAIN left |-> items[left[i]]])

\* The groups without children that nothing claims as its parent.
EmptyGroups(doc) ==
  LET claimed == {At(doc, s).parent : s \in Slots(doc)}
  IN {g \in DOMAIN doc.groups : /\ doc.groups[g].parent # NoRef
                                /\ doc.groups[g].children = <<>>
                                /\ <<"groups", g>> \notin claimed}

\* One round: the removed groups leave every children list and the arena, and
\* references into them follow to their parents.
RemoveRound(work) ==
  LET doc == work.doc
      gone == EmptyGroups(doc)
      Drop(rs) == SelectSeq(rs, LAMBDA r : r \notin {"groups"} \X gone)
      Op(n) == [n EXCEPT !.children = Drop(@)]
      heir == [r \in {"groups"} \X gone |-> At(doc, r).parent]
      pruned == [MapItems(doc, Op) EXCEPT !.body = Drop(@), !.furniture = Drop(@)]
  IN IF gone = {} THEN work
     ELSE Rewrite(Renumbering("groups", Len(doc.groups), gone, heir),
                  [work EXCEPT !.doc = [pruned EXCEPT !.groups = Survivors(@, gone)]])

\* Removing a group may empty the one above it.
RemoveEmptyGroups(work) ==
  LET round[n \in 0..Len(work.doc.groups)] ==
        IF n = 0 THEN work ELSE RemoveRound(round[n - 1])
  IN round[Len(work.doc.groups)]

-----------------------------------------------------------------------------
(* retire_text_items of document_repair.cpp *)

\* The item that finally holds what r was absorbed into.
Survivor(absorbed, r) ==
  LET hop[n \in 0..Cardinality(DOMAIN absorbed)] ==
        IF n = 0 THEN r ELSE Renamed(absorbed, hop[n - 1])
  IN hop[Cardinality(DOMAIN absorbed)]

\* The children of a retired item move to its survivor.
AdoptChildren(doc, absorbed) ==
  LET Adopt(d, r) ==
        LET heir == Survivor(absorbed, r)
            new == SelectSeq(At(d, r).children, LAMBDA c : c \notin ToSet(At(d, heir).children))
        IN IF heir = r \/ heir \notin Slots(d) THEN d
           ELSE [d EXCEPT !.texts[heir[2]].children = @ \o new, !.texts[r[2]].children = <<>>]
      retired == SelectSeq([i \in DOMAIN doc.texts |-> <<"texts", i>>],
                           LAMBDA r : r \in DOMAIN absorbed)
  IN FoldLeft(Adopt, doc, retired)

\* absorbed maps every retired text to the item that took its content.  The
\* roots and the groups drop a retired reference wherever it sits, an item
\* only where it is a retired item's parent; every other reference follows.
RetireTextItems(work, absorbed) ==
  LET doc == AdoptChildren(work.doc, absorbed)
      gone == {r[2] : r \in DOMAIN absorbed}
      parents == {At(doc, r).parent : r \in DOMAIN absorbed}
      Drop(rs) == SelectSeq(rs, LAMBDA r : r \notin DOMAIN absorbed)
      Op(n) == IF n.self[1] = "groups" \/ n.self \in parents
               THEN [n EXCEPT !.children = Drop(@)] ELSE n
      kept == MapItems([doc EXCEPT !.texts = Survivors(@, gone)], Op)
  IN IF absorbed = <<>> THEN work
     ELSE Rewrite(Renumbering("texts", Len(doc.texts), gone, absorbed),
            [work EXCEPT !.doc = [kept EXCEPT !.body = Drop(@), !.furniture = Drop(@)]])
=============================================================================
