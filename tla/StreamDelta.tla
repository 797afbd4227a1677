----------------------------- MODULE StreamDelta -----------------------------
(***************************************************************************)
(* What the streaming surface sends of a document: its pages               *)
(* (page_projection.cpp), the fold of those pages a client and the server  *)
(* keep, and the delta that brings the fold up to the finished document    *)
(* (stream_delta.cpp).                                                     *)
(***************************************************************************)
EXTENDS DocumentTree

\* The arenas the page events and the delta carry.
DeltaArenas == {"texts", "tables", "pictures", "groups"}
EmptyDocument ==
  [body |-> <<>>, furniture |-> <<>>, groups |-> <<>>, texts |-> <<>>, pictures |-> <<>>,
   tables |-> <<>>, forms |-> <<>>, anchors |-> <<>>, pages |-> <<>>,
   meta |-> <<>>, holders |-> <<>>, claims |-> <<>>]

-----------------------------------------------------------------------------
(* Projection. *)

\* The page of the first entry that has one, which need not be the least.
FirstNamedPage(prov) ==
  LET named == SelectSeq(prov, LAMBDA p : p.page > 0) IN IF named = <<>> THEN 0 ELSE Head(named).page

NamesAPage(doc) ==
  doc.pages # <<>> \/ \E s \in Slots(doc) : s[1] \in DeltaArenas \ {"groups"} /\
                                            FirstNamedPage(At(doc, s).prov) > 0

\* The refs below a tree root in the order the walk meets them: a group before
\* its members, nothing below an item.
Walk(doc, children) ==
  LET known == {s \in Slots(doc) : s[1] \in DeltaArenas}
      flat[r \in known, n \in 0..Len(doc.groups)] ==
        IF r[1] # "groups" \/ n = 0 THEN <<r>>
        ELSE <<r>> \o FlattenSeq([i \in DOMAIN At(doc, r).children |->
               IF At(doc, r).children[i] \in known THEN flat[At(doc, r).children[i], n - 1] ELSE <<>>])
  IN FlattenSeq([i \in DOMAIN children |->
       IF children[i] \in known THEN flat[children[i], Len(doc.groups)] ELSE <<>>])

\* Every item once, with whether it joins the body order: the trees first, then
\* the items no tree reaches, then the groups no tree reaches.
FirstOnly(entries) ==
  LET First(i) == \A j \in 1..(i - 1) : entries[j].ref # entries[i].ref
      kept == SelectSeq([i \in DOMAIN entries |-> i], First)
  IN [k \in DOMAIN kept |-> entries[kept[k]]]
ProjectionOrder(doc) ==
  LET Entries(refs, body) == [i \in DOMAIN refs |-> [ref |-> refs[i], body |-> body]]
      once == FirstOnly(Entries(Walk(doc, doc.body), TRUE) \o Entries(Walk(doc, doc.furniture), FALSE))
      reached == {e.ref : e \in ToSet(once)}
      Rest(a) == SelectSeq([i \in DOMAIN doc[a] |->
                              [ref |-> <<a, i>>, body |-> a # "texts" \/ doc[a][i].layer = "body"]],
                           LAMBDA e : e.ref \notin reached)
  IN once \o Rest("texts") \o Rest("tables") \o Rest("pictures") \o Rest("groups")

\* An item without a page inherits the last one; the groups opened since the
\* last item go out with the next, and the last of them with the last page.
PagesOf(doc) ==
  LET Page(p) == [page |-> p, items |-> <<>>, order |-> <<>>]
      Put(pages, p, refs, order) ==
        [q \in DOMAIN pages \cup {p} |->
           IF q # p THEN pages[q]
           ELSE LET old == IF q \in DOMAIN pages THEN pages[q] ELSE Page(p)
                IN [old EXCEPT !.items = @ \o [i \in DOMAIN refs |-> At(doc, refs[i])],
                               !.order = @ \o order]]
      Step(acc, e) ==
        LET own == FirstNamedPage(At(doc, e.ref).prov)
            page == IF own > 0 THEN own ELSE acc.page
        IN IF e.ref[1] = "groups" THEN [acc EXCEPT !.pending = Append(@, e.ref)]
           ELSE [page |-> page, pending |-> <<>>,
                 pages |-> Put(acc.pages, page, Append(acc.pending, e.ref),
                               IF e.body THEN <<e.ref>> ELSE <<>>)]
      Close(acc) == IF acc.pending = <<>> THEN acc.pages ELSE Put(acc.pages, acc.page, acc.pending, <<>>)
  IN Close(FoldLeft(Step, [page |-> 1, pending |-> <<>>, pages |-> <<>>], ProjectionOrder(doc)))
PageEvents(doc, pages) ==
  LET named == DOMAIN pages \cup (DOMAIN doc.pages \ {0})
      Event(p) == [page |-> p, height |-> IF p \in DOMAIN doc.pages THEN doc.pages[p] ELSE 0,
                   items |-> IF p \in DOMAIN pages THEN pages[p].items ELSE <<>>,
                   order |-> IF p \in DOMAIN pages THEN pages[p].order ELSE <<>>]
      numbers == SelectSeq([p \in 1..Max(named \cup {0}) |-> p], LAMBDA p : p \in named)
  IN [k \in DOMAIN numbers |-> Event(numbers[k])]
ProjectPageData(doc) == IF ~NamesAPage(doc) THEN <<>> ELSE PageEvents(doc, PagesOf(doc))

-----------------------------------------------------------------------------
(* PageFold::fold *)

\* The item at the position its name states, the gap before it left blank.
PlaceItem(doc, item) ==
  LET a == item.self[1]
      n == item.self[2]
      blank == Item(NoRef, NoRef, "unspecified")
  IN [doc EXCEPT ![a] = AsTuple([i \in 1..Max({n, Len(@)}) |->
        CASE i = n -> item [] i # n /\ i <= Len(@) -> @[i] [] OTHER -> blank])]

\* The ancestor of r whose parent is no item of the document, and that parent.
TopLevel(doc, r) ==
  LET In(x) == x \in Slots(doc) /\ x[1] \in DeltaArenas /\ At(doc, x).self = x
      climb[n \in 0..Cardinality(Slots(doc))] ==
        IF n = 0 THEN r
        ELSE LET x == climb[n - 1]
             IN IF In(x) /\ In(At(doc, x).parent) THEN At(doc, x).parent ELSE x
      top == climb[Cardinality(Slots(doc))]
  IN [top |-> top, root |-> IF In(top) THEN At(doc, top).parent ELSE NoRef]

FoldPage(fold, event) ==
  LET placed == FoldLeft(PlaceItem, fold, event.items)
      List(refs, r) == IF r \in ToSet(refs) THEN refs ELSE Append(refs, r)
      InBody(refs, r) == LET up == TopLevel(placed, r)
                         IN IF up.root = Furniture THEN refs ELSE List(refs, up.top)
      InFurniture(refs, r) == LET up == TopLevel(placed, r)
                              IN IF r \in ToSet(event.order) \/ up.root # Furniture THEN refs
                                 ELSE List(refs, up.top)
      Of(a) == LET own == SelectSeq(event.items, LAMBDA n : n.self[1] = a)
               IN [i \in DOMAIN own |-> own[i].self]
      carried == Of("groups") \o Of("texts") \o Of("tables") \o Of("pictures")
  IN [placed EXCEPT !.pages = [p \in DOMAIN @ \cup {event.page} |->
                                 IF p = event.page THEN event.height ELSE @[p]],
                    !.body = FoldLeft(InBody, @, event.order),
                    !.furniture = FoldLeft(InFurniture, @, carried)]

ApplySectionHeaderLevels(levels, doc) ==
  LET Op(n) == IF n.label = "section_header" /\ n.self \in DOMAIN levels
               THEN [n EXCEPT !.level = levels[n.self]] ELSE n
  IN MapItems(doc, Op)

-----------------------------------------------------------------------------
(* The delta. *)

\* The positions of an arena that carry the name r.
Carrying(items, r) == {i \in DOMAIN items : items[i].self = r}

\* Bug: an item is held as soon as some folded item with its name equals it,
\* whether or not another one shares the name.
HoldsSome(items, n) == \E i \in Carrying(items, n.self) : items[i] = n
\* The fold holds n verbatim under its name, and under that name only n.
Holds(items, n) == \E i \in DOMAIN items : Carrying(items, n.self) = {i} /\ items[i] = n

NoDelta == <<>>
RepairDelta(before, after, renamed) ==
  LET fold == RewriteReferences(renamed, before)
      items == [a \in DeltaArenas |-> SelectSeq(after[a], LAMBDA n : ~Holds(fold[a], n))]
      pages == {p \in DOMAIN after.pages : p \notin DOMAIN fold.pages \/ fold.pages[p] # after.pages[p]}
      dropped == DOMAIN fold.pages \ DOMAIN after.pages
      changed == \/ renamed # <<>> \/ pages # {} \/ dropped # {}
                 \/ fold.body # after.body \/ fold.furniture # after.furniture
                 \/ \E a \in DeltaArenas : items[a] # <<>> \/ Len(fold[a]) # Len(after[a])
  IN IF ~changed THEN NoDelta
     ELSE [renamed |-> renamed, items |-> items, counts |-> [a \in DeltaArenas |-> Len(after[a])],
           body |-> IF fold.body = after.body THEN NoDelta ELSE <<after.body>>,
           furniture |-> IF fold.furniture = after.furniture THEN NoDelta ELSE <<after.furniture>>,
           pages |-> [p \in pages |-> after.pages[p]], dropped |-> dropped]

\* Slot N is the upsert that names N, else the one folded item now carrying
\* N's name; when there is neither the delta does not apply.
Rebuild(a, items, upserts, count) ==
  LET Name(i) == <<a, i>>
      Sole(r) == Cardinality(Carrying(items, r)) = 1
      Up(r) == {n \in ToSet(upserts) : n.self = r}
      fits == /\ \A n \in ToSet(upserts) : n.self[2] <= count
              /\ \A i \in 1..count : Up(Name(i)) # {} \/ Sole(Name(i))
  IN IF ~fits THEN NoDelta
     ELSE <<AsTuple([i \in 1..count |->
              IF Up(Name(i)) # {} THEN CHOOSE n \in Up(Name(i)) : TRUE
              ELSE items[CHOOSE k \in Carrying(items, Name(i)) : TRUE]])>>

\* What a client holds after the delta: <<doc>>, or nothing when it does not
\* apply.
ApplyRepairDelta(delta, doc) ==
  LET renamed == RewriteReferences(delta.renamed, doc)
      built == [a \in DeltaArenas |-> Rebuild(a, renamed[a], delta.items[a], delta.counts[a])]
      pages == (DOMAIN renamed.pages \cup DOMAIN delta.pages) \ delta.dropped
  IN IF \E a \in DeltaArenas : built[a] = NoDelta THEN NoDelta
     ELSE <<[renamed EXCEPT
               !.texts = built["texts"][1], !.tables = built["tables"][1],
               !.pictures = built["pictures"][1], !.groups = built["groups"][1],
               !.body = IF delta.body = NoDelta THEN @ ELSE delta.body[1],
               !.furniture = IF delta.furniture = NoDelta THEN @ ELSE delta.furniture[1],
               !.pages = [p \in pages |-> IF p \in DOMAIN delta.pages THEN delta.pages[p] ELSE @[p]]]>>

-----------------------------------------------------------------------------
(* group_list_items of document_assembly.cpp *)

\* Each run of body list items parented to the body moves under a new group.
GroupListItems(doc) ==
  LET Loose(r) == r[1] = "texts" /\ r \in Slots(doc) /\ At(doc, r).label = "list_item" /\
                  At(doc, r).parent = Body
      Step(acc, i) ==
        LET r == doc.body[i]
            opens == ~(i > 1 /\ Loose(doc.body[i - 1]))
            g == IF opens THEN <<"groups", Len(acc.groups) + 1>> ELSE <<"groups", Len(acc.groups)>>
            groups == IF opens THEN Append(acc.groups, Item(g, Body, "list")) ELSE acc.groups
        IN IF ~Loose(r) THEN [acc EXCEPT !.body = Append(@, r)]
           ELSE [acc EXCEPT !.body = IF opens THEN Append(@, g) ELSE @,
                            !.groups = [groups EXCEPT ![g[2]].children = Append(@, r)],
                            !.texts[r[2]].parent = g]
  IN FoldLeft(Step, [doc EXCEPT !.body = <<>>], [i \in DOMAIN doc.body |-> i])
=============================================================================
