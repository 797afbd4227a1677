------------------------------ MODULE BookFold ------------------------------
(***************************************************************************)
(* Folding parsed parts into the Document that names them: the chapters of *)
(* a book (epub_book.cpp) and the HTML bodies of a message                 *)
(* (email_collector.cpp).                                                  *)
(*                                                                         *)
(* A path is a sequence of segments.  A picture's payload is its image     *)
(* address: [kind, path] with kind "relative", "rooted" (from the archive  *)
(* root), "web", "epub" (an archive entry) or "data" (inlined bytes).      *)
(***************************************************************************)
EXTENDS CollectedDocument

CONSTANTS
  InlineImageCap,   \* kEpubInlineImageCap
  InlineTotalCap    \* kEpubInlineTotalCap

Address(kind, path) == [kind |-> kind, path |-> path]

-----------------------------------------------------------------------------
(* Paths. *)

\* "." and empty segments vanish; ".." climbs, and stops at the root.
NormalizePath(path) ==
  LET Add(segments, s) ==
        CASE s \in {"", "."} -> segments
          [] s = ".." -> IF segments = <<>> THEN <<>> ELSE Front(segments)
          [] OTHER -> Append(segments, s)
  IN FoldLeft(Add, <<>>, path)

\* The archive entry a chapter's reference names; <<>> for none.
ResolveEpubHref(chapter, address) ==
  CASE address.kind = "web" \/ address.path = <<>> -> <<>>
    [] address.kind = "rooted" -> NormalizePath(address.path)
    [] OTHER -> NormalizePath(Front(chapter) \o address.path)

-----------------------------------------------------------------------------
(* The book. *)

\* Only content survives: a chapter's identity is not the book's.
StripDocumentIdentity(doc) == [doc EXCEPT !.meta = <<>>]

\* Chapter pictures that name an archive entry point at it.
LocalizePictures(doc, href) ==
  [doc EXCEPT !.pictures = AsTuple([i \in DOMAIN @ |->
     LET entry == ResolveEpubHref(href, @[i].text) IN
     IF entry = <<>> THEN @[i] ELSE [@[i] EXCEPT !.text = Address("epub", entry)]])]
PlacedBy(doc) == {doc.pictures[i].text.path : i \in
                    {j \in DOMAIN doc.pictures : doc.pictures[j].text.kind = "epub"}}

RetiredPictures(book, placed) ==
  LET Named(i) == book.pictures[i].text.kind = "epub" /\ book.pictures[i].parent = Body
                  /\ book.pictures[i].text.path \in placed
  IN {i \in DOMAIN book.pictures : Named(i) /\
        ~\E j \in 1..(i - 1) : Named(j) /\ book.pictures[j].text = book.pictures[i].text}

\* The skeleton pictures a chapter places leave the arena and every child
\* list, and those behind them are renumbered wherever they are named.
RetirePlacedPictures(book, gone) ==
  LET lost == {<<"pictures", i>> : i \in gone}
      Prune(refs) == SelectSeq(refs, LAMBDA r : r \notin lost)
      kept == SetToSortSeq(DOMAIN book.pictures \ gone, <)
      Pruned(g) == [g EXCEPT !.children = Prune(@)]
      step == [r \in {<<"pictures", kept[i]>> : i \in DOMAIN kept} |->
                 <<"pictures", CHOOSE i \in DOMAIN kept : kept[i] = r[2]>>]
  IN IF gone = {} THEN book
     ELSE RewriteReferences(step,
            [book EXCEPT !.pictures = AsTuple([i \in DOMAIN kept |-> @[kept[i]]]),
               !.body = Prune(@), !.furniture = Prune(@),
               !.groups = AsTuple([i \in DOMAIN @ |-> Pruned(@[i])])])

\* The item a reference names gets another parent; nothing else has one.
SetParent(doc, r, parent) ==
  IF r \in Slots(doc) THEN [doc EXCEPT ![r[1]][r[2]].parent = parent] ELSE doc

\* Body children from the first new one on move under the group, and each
\* of them says so.
ReparentTail(book, first, group) ==
  LET moved == SubSeq(book.body, first, Len(book.body))
      To(doc, r) == SetParent(doc, r, group)
  IN [FoldLeft(To, book, moved) EXCEPT !.body = SubSeq(@, 1, first - 1),
        !.groups[group[2]].children = @ \o moved]

\* The skeleton's chapter group of that href, among its first n groups.
ChapterGroup(book, n, href) ==
  LET at == {i \in 1..n : book.groups[i].label = "chapter" /\ book.groups[i].text = href}
  IN IF at = {} THEN NoRef ELSE <<"groups", Min(at)>>

\* A chapter joins the group of its href, or the body when there is none.
FoldChapter(state, chapter) ==
  LET merged == MergeArenas(chapter.doc, state.book)
      group == ChapterGroup(state.book, state.skeleton, chapter.href)
  IN IF group = NoRef
     THEN [state EXCEPT !.book = merged, !.warnings = Append(@, <<"no chapter group", chapter.href>>)]
     ELSE [state EXCEPT !.book = ReparentTail(merged, Len(state.book.body) + 1, group)]

\* A placed picture takes over what the manifest said of it.
AdoptManifestFacts(book, facts, first) ==
  [book EXCEPT !.pictures = AsTuple([i \in DOMAIN @ |->
     IF i < first \/ @[i].text.kind # "epub" \/ @[i].text.path \notin DOMAIN facts THEN @[i]
     ELSE [@[i] EXCEPT !.sources = @ \cup facts[book.pictures[i].text.path]]])]

\* An image is inlined on its first picture, within its own cap and the
\* book's; whatever keeps it out is said once for the image.
InlinePicture(state, i) ==
  LET address == state.book.pictures[i].text
      found == SelectSeq(state.images, LAMBDA r : r.href = address.path)
      kept == \/ found = <<>>
              \/ found[1].size > InlineImageCap
              \/ address.path \in state.on
              \/ state.bytes + found[1].size > InlineTotalCap
  IN CASE address.kind # "epub" -> state
       [] kept -> [state EXCEPT !.reported = @ \cup {address.path},
                                !.warnings = IF address.path \in state.reported THEN @
                                             ELSE Append(@, <<"not inlined", address.path>>)]
       [] OTHER -> [state EXCEPT !.bytes = @ + found[1].size, !.on = @ \cup {address.path},
                                 !.book.pictures[i].text = Address("data", address.path)]

FoldEpubBook(book, chapters, images, warnings) ==
  LET local == [i \in DOMAIN chapters |->
                  [href |-> chapters[i].href,
                   doc |-> LocalizePictures(StripDocumentIdentity(chapters[i].doc), chapters[i].href)]]
      gone == RetiredPictures(book, UNION {PlacedBy(local[i].doc) : i \in DOMAIN local})
      facts == [h \in {book.pictures[i].text.path : i \in gone} |->
                  book.pictures[CHOOSE i \in gone : book.pictures[i].text.path = h].sources]
      first == Len(book.pictures) - Cardinality(gone) + 1
      folded == FoldLeft(FoldChapter,
                  [book |-> RetirePlacedPictures(book, gone), skeleton |-> Len(book.groups),
                   warnings |-> warnings, images |-> images, on |-> {}, bytes |-> 0,
                   reported |-> {}], local)
      adopted == [folded EXCEPT !.book = AdoptManifestFacts(@, facts, first)]
  IN FoldLeft(InlinePicture, adopted, [i \in DOMAIN adopted.book.pictures |-> i])

\* A spine item that is an image stands for one picture of itself.
ImageChapterDocument(href) ==
  Put(NewDocument, "pictures", Body, "picture", Address("rooted", href), <<>>)

-----------------------------------------------------------------------------
(* The message. *)

\* Bodies read ahead of the list of attachments.
BodyInsertionPoint(doc) ==
  LET at == {i \in DOMAIN doc.body : doc.body[i][1] = "groups" /\
                                     At(doc, doc.body[i]).text = <<"attachments">>}
  IN IF at = {} THEN Len(doc.body) + 1 ELSE Min(at)

FoldBody(doc, body) ==
  LET at == BodyInsertionPoint(doc)
      merged == MergeArenas(StripDocumentIdentity(body), doc)
      first == Len(doc.body) + 1
  IN [merged EXCEPT !.body = SubSeq(@, 1, at - 1) \o SubSeq(@, first, Len(@))
                               \o SubSeq(@, at, first - 1)]

-----------------------------------------------------------------------------
\* A declared title that no item shows leads the body (markup_collector.cpp).
PromoteSourceTitle(doc) ==
  LET ref == NextRef(doc, "texts")
      added == Put(doc, "texts", Body, "title", doc.meta["title"], <<>>)
  IN IF "title" \notin DOMAIN doc.meta \/ \E i \in DOMAIN doc.texts : doc.texts[i].label = "title"
     THEN doc
     ELSE [added EXCEPT !.body = <<ref>> \o doc.body]
=============================================================================
