------------------------------- MODULE Chunker -------------------------------
(***************************************************************************)
(* The document chunkers of chunker.cpp and the offset table they state    *)
(* their spans by.  The walk emits one chunk per text, list, table or      *)
(* picture under its heading trail; the hybrid chunker then merges peers   *)
(* and splits what is over the token budget.  A table's rows and an image  *)
(* placeholder are one word each and a list number is "#"; a code block's  *)
(* captions are its footnotes; language, confidence, pages and the nesting *)
(* limit are left out.                                                     *)
(***************************************************************************)
EXTENDS DocumentText

\* Offsets are 0-based and half open; token i of a text is at offset i - 1.
Slice(text, span) == SubSeq(text, span[1] + 1, span[2])
IsBlank(text) == \A i \in DOMAIN text : IsSpace(text[i])
JoinLines(lines) ==
  IF lines = <<>> THEN <<>>
  ELSE FoldLeft(LAMBDA acc, line : acc \o <<"\n">> \o line, lines[1], Tail(lines))

-----------------------------------------------------------------------------
(* The text stream: the plain-text export and the spans its items have. *)

\* A separator is written when something was.
PlainText(doc) ==
  FoldLeft(LAMBDA out, n : IF out = <<>> THEN n.text ELSE out \o <<"\n">> \o n.text, <<>>, doc.texts)

\* One row per text, keyed by its position in the arena.
DeriveOffsets(doc) ==
  LET Step(acc, n) ==
        LET start == IF acc.written THEN acc.cursor + 1 ELSE acc.cursor
        IN [cursor |-> start + Len(n.text), written |-> acc.written \/ n.text # <<>>,
            rows |-> Append(acc.rows, <<start, start + Len(n.text)>>)]
      rows == FoldLeft(Step, [cursor |-> 0, written |-> FALSE, rows |-> <<>>], doc.texts).rows
  IN [r \in {"texts"} \X DOMAIN rows |-> rows[r[2]]]

-----------------------------------------------------------------------------
(* The walk. *)

\* known, complete: some, and every, text item it holds has a row; exact: it
\* is one row's text and nothing else.
NewChunk(trail) ==
  [text |-> <<>>, headings |-> [i \in DOMAIN trail |-> trail[i].text], items |-> <<>>,
   known |-> FALSE, complete |-> TRUE, span |-> <<0, 0>>, exact |-> FALSE]

\* Only the body layer is chunked.
Excluded(doc, r) == r \in Slots(doc) /\ At(doc, r).layer # "body"
IsText(doc, r) == r \in Slots(doc) /\ r[1] = "texts"
IsGroup(doc, r) == r \in Roots \/ (r \in Slots(doc) /\ r[1] = "groups")
IsFloat(n) == n.self[1] \in {"tables", "pictures"} \/ n.label = "code"

\* The captions and footnotes that a table, a picture or a code block names.
CaptionRefs(doc) ==
  UNION {ToSet(At(doc, s).captions) : s \in {x \in Slots(doc) : x[1] # "forms" /\ IsFloat(At(doc, x))}}

\* An item is recorded with its row.
AbsorbItem(doc, table, chunk, r) ==
  LET added == [chunk EXCEPT !.items = Append(@, r)]
      row == table[r]
      span == IF chunk.known THEN <<Min({chunk.span[1], row[1]}), Max({chunk.span[2], row[2]})>> ELSE row
  IN IF ~IsText(doc, r) THEN added
     ELSE IF r \notin DOMAIN table THEN [added EXCEPT !.complete = FALSE]
     ELSE [added EXCEPT !.known = TRUE, !.span = span]

\* The captions a float claims: each goes to the first float that names it.
ClaimCaptions(doc, table, walk, chunk, refs) ==
  LET Claim(acc, r) ==
        IF ~IsText(doc, r) \/ r \in acc.walk.claimed THEN acc
        ELSE [walk |-> [acc.walk EXCEPT !.claimed = @ \cup {r}, !.visited = @ \cup {r}],
              chunk |-> AbsorbItem(doc, table, acc.chunk, r),
              lines |-> IF IsBlank(At(doc, r).text) THEN acc.lines ELSE Append(acc.lines, At(doc, r).text)]
  IN FoldLeft(Claim, [walk |-> walk, chunk |-> chunk, lines |-> <<>>], refs)

\* A chunk without text is not emitted.
Emit(walk, chunk) == IF IsBlank(chunk.text) THEN walk ELSE [walk EXCEPT !.chunks = Append(@, chunk)]

\* A heading ends every recorded heading at or below its level; a blank one
\* takes the text of its only child, which then is no chunk of its own.
RecordHeading(doc, walk, n) ==
  LET level == IF n.label = "title" THEN 0 ELSE n.level
      sole == IF n.label = "section_header" /\ IsBlank(n.text) /\ Len(n.children) = 1 THEN n.children[1] ELSE NoRef
      inline == IsText(doc, sole) /\ At(doc, sole).label \notin {"title", "section_header", "list_item"}
      text == IF inline THEN At(doc, sole).text ELSE n.text
      above == Len(walk.trail) - Len(Suffix(walk.trail, LAMBDA h : h.level >= level))
      kept == SubSeq(walk.trail, 1, above)
  IN [walk EXCEPT !.trail = IF IsBlank(text) THEN kept ELSE Append(kept, [level |-> level, text |-> text]),
                  !.visited = IF inline THEN @ \cup {sole} ELSE @]

\* A text of its own, a code block with its footnotes; captions go with their
\* float.
EmitText(doc, table, walk, r) ==
  LET n == At(doc, r)
      own == [AbsorbItem(doc, table, NewChunk(walk.trail), r) EXCEPT !.text = n.text]
      noted == ClaimCaptions(doc, table, walk, own, IF n.label = "code" THEN n.captions ELSE <<>>)
      chunk == [noted.chunk EXCEPT !.text = JoinLines(<<n.text>> \o noted.lines)]
      exact == /\ chunk.known /\ chunk.complete /\ Len(chunk.items) = 1
               /\ chunk.span[2] - chunk.span[1] = Len(chunk.text)
  IN IF r \in CaptionRefs(doc) THEN walk
     ELSE IF n.label \in {"title", "section_header"} THEN RecordHeading(doc, walk, n)
     ELSE Emit(noted.walk, [chunk EXCEPT !.exact = exact])

\* A table's or picture's captions and what it shows.
EmitFloat(doc, table, walk, r, images) ==
  LET n == At(doc, r)
      own == AbsorbItem(doc, table, NewChunk(walk.trail), r)
      named == ClaimCaptions(doc, table, walk, own, n.captions)
      shown == CASE r[1] = "tables" -> IF n.cells = <<>> THEN <<>> ELSE <<<<"table">>>>
                 [] r[1] = "pictures" -> IF images THEN <<<<"image">>>> ELSE <<>>
      lines == IF r[1] = "tables" THEN named.lines \o shown ELSE shown \o named.lines
  IN Emit(named.walk, [named.chunk EXCEPT !.text = JoinLines(lines)])

\* The walks are depth first: what is next is at the head of todo, and an
\* item's children go before what followed it.  No walk pops more than this.
Links(doc) == Len(doc.body) + MapThenSumSet(LAMBDA s : Len(At(doc, s).children), Slots(doc))

\* The children of a list, or of a list item, each with the mark of its line.
Entries(doc, holder) ==
  LET mark == CASE ~IsGroup(doc, holder) -> <<>>
                [] At(doc, holder).label = "ordered_list" -> <<"#", ".", " ">>
                [] OTHER -> <<"-", " ">>
      kids == IF At(doc, holder).label = "code" THEN <<>> ELSE ChildrenOf(doc, holder)
  IN [i \in DOMAIN kids |-> [ref |-> kids[i], mark |-> mark]]
\* One entry of a list: a nested list flattens in place, a float is left for
\* later.
CollectEntry(doc, table, acc, r, mark) ==
  LET rest == [acc EXCEPT !.todo = Tail(@)]
      into == [rest EXCEPT !.todo = Entries(doc, r) \o @, !.walk.visited = @ \cup {r}]
      text == At(doc, r).text
  IN IF r \in acc.walk.visited \/ Excluded(doc, r) THEN rest
     ELSE CASE IsGroup(doc, r) -> [into EXCEPT !.chunk.items = Append(@, r)]
            [] IsText(doc, r) -> [into EXCEPT !.chunk = AbsorbItem(doc, table, @, r),
                                              !.lines = IF IsBlank(text) THEN @ ELSE Append(@, mark \o text)]
            [] OTHER -> [rest EXCEPT !.floating = Append(@, r)]
CollectList(doc, table, walk, g) ==
  LET start == [walk |-> walk, chunk |-> [NewChunk(walk.trail) EXCEPT !.items = <<g>>],
                lines |-> <<>>, floating |-> <<>>, todo |-> Entries(doc, g)]
      Step(acc) == IF acc.todo = <<>> THEN acc
                   ELSE CollectEntry(doc, table, acc, Head(acc.todo).ref, Head(acc.todo).mark)
      after[n \in 0..Links(doc)] == IF n = 0 THEN start ELSE Step(after[n - 1])
  IN after[Links(doc)]
\* A list is one chunk; the floats in it follow.
EmitList(list) ==
  [Emit(list.walk, [list.chunk EXCEPT !.text = JoinLines(list.lines)]) EXCEPT !.todo = list.floating \o @]

WalkItem(doc, table, images, walk, r) ==
  LET seen == [walk EXCEPT !.visited = @ \cup {r}]
      Inside(w) == [w EXCEPT !.todo = ChildrenOf(doc, r) \o @]
      Text(w) == IF At(doc, r).label = "code" THEN w ELSE Inside(w)
  IN IF r \in walk.visited THEN walk
     ELSE IF Excluded(doc, r) THEN seen
     ELSE CASE IsListGroup(doc, r) -> EmitList(CollectList(doc, table, seen, r))
            [] IsGroup(doc, r) /\ ~IsListGroup(doc, r) -> Inside(seen)
            [] IsText(doc, r) -> Text(EmitText(doc, table, seen, r))
            [] r \in Slots(doc) /\ r[1] \in {"tables", "pictures"} -> EmitFloat(doc, table, seen, r, images)
            [] OTHER -> seen
ChunkHierarchical(doc, table, images) ==
  LET start == [visited |-> {}, claimed |-> {}, trail |-> <<>>, chunks |-> <<>>, todo |-> <<Body>>]
      Step(w) == IF w.todo = <<>> THEN w
                 ELSE WalkItem(doc, table, images, [w EXCEPT !.todo = Tail(@)], Head(w.todo))
      after[n \in 0..(Links(doc) + 1)] == IF n = 0 THEN start ELSE Step(after[n - 1])
  IN after[Links(doc) + 1].chunks

-----------------------------------------------------------------------------
(* Tokens and sentences. *)

\* wordish/1: a run of letters and digits is one token, every other mark one
\* of its own.
Alnum(t) == t \in {"#", "table", "image"} \/ IsAlpha(t) \/ Class(t) \in {"num", "dotted", "label"}
CountWordish(text) ==
  Cardinality({i \in DOMAIN text : ~IsSpace(text[i]) /\
                                   (~Alnum(text[i]) \/ i = 1 \/ ~Alnum(text[i - 1]))})
\* A model's byte-level tokenizer: a mark costs two tokens and a word that
\* opens a line one more than within one.
CountHf(text) ==
  LET Cost(i) == CASE IsSpace(text[i]) -> 0
                   [] ~IsSpace(text[i]) /\ ~Alnum(text[i]) -> 2
                   [] OTHER -> IF i > 1 /\ text[i - 1] = "\n" THEN 2 ELSE 1
  IN MapThenSumSet(Cost, DOMAIN text)
Count(counter, text) == IF counter = "wordish" THEN CountWordish(text) ELSE CountHf(text)

\* A sentence ends after a terminator, its closers and the whitespace that
\* follows; a terminator glued to more text ends nothing.
SplitSentences(text) ==
  LET After(i) == Min({j \in (i + 1)..Len(text) : text[j] # ")"} \cup {Len(text) + 1})
      Resume(i) == Min({j \in After(i)..Len(text) : ~IsSpace(text[j])} \cup {Len(text) + 1})
      stops == {i \in DOMAIN text : text[i] = "." /\ (After(i) > Len(text) \/ IsSpace(text[After(i)]))}
      ends == {Resume(i) - 1 : i \in stops} \cup (IF text = <<>> THEN {} ELSE {Len(text)})
      order == SortSeq(SetToSeq(ends), LAMBDA a, b : a < b)
  IN [k \in DOMAIN order |-> <<IF k = 1 THEN 0 ELSE order[k - 1], order[k]>>]

-----------------------------------------------------------------------------
(* The hybrid passes. *)

Contextualized(chunk) ==
  FlattenSeq([i \in DOMAIN chunk.headings |-> Append(chunk.headings[i], "\n")]) \o chunk.text
HeadingTokens(counter, chunk) == Count(counter, Contextualized([chunk EXCEPT !.text = <<>>]))

\* A merged chunk is no longer one row's text; it has a span when both have.
FoldPeer(into, next) ==
  [into EXCEPT !.text = @ \o <<"\n">> \o next.text, !.items = @ \o next.items,
               !.complete = @ /\ next.complete, !.known = @ /\ next.known, !.exact = FALSE,
               !.span = IF into.known /\ next.known
                        THEN <<Min({@[1], next.span[1]}), Max({@[2], next.span[2]})>> ELSE @]
\* Consecutive chunks under one trail join while they fit.
MergePeers(chunks, max, counter) ==
  LET Step(out, c) ==
        LET peer == Last(out)
            both == FoldPeer(peer, c)
        IN IF out # <<>> /\ peer.headings = c.headings /\ Count(counter, Contextualized(both)) <= max
           THEN Append(Front(out), both) ELSE Append(out, c)
  IN FoldLeft(Step, <<>>, chunks)

\* The pieces of a word that is over the budget: by length under wordish, the
\* longest that fits otherwise, and never less than one code point.
CutWord(text, word, budget, counter) ==
  LET Longest(at) == Max({at + 1} \cup {e \in (at + 1)..word[2] : Count(counter, Slice(text, <<at, e>>)) <= budget})
      To(at) == IF counter = "wordish" THEN Min({word[2], at + budget}) ELSE Longest(at)
      cuts[at \in word[1]..word[2]] == IF at = word[2] THEN <<>> ELSE <<<<at, To(at)>>>> \o cuts[To(at)]
  IN cuts[word[1]]

\* A pending span becomes a piece without its outer whitespace.
FlushSpan(text, pending) ==
  LET s == Slice(text, pending)
  IN IF pending = <<>> \/ IsBlank(s) THEN <<>>
     ELSE <<<<pending[1] + Len(Prefix(s, IsSpace)), pending[2] - Len(Suffix(s, IsSpace))>>>>

\* Greedy packing into pieces within the budget: sentences, the words of a
\* sentence that does not fit alone, the cuts of such a word.  What does not
\* fit beside the pending span flushes it.
GreedyPack(text, budget, counter) ==
  LET Fits(span) == Count(counter, Slice(text, span)) <= budget
      Flush(acc) == [pieces |-> acc.pieces \o FlushSpan(text, acc.pending), pending |-> <<>>]
      Put(acc, span) == IF acc.pending # <<>> /\ Fits(<<acc.pending[1], span[2]>>)
                        THEN [acc EXCEPT !.pending = <<@[1], span[2]>>]
                        ELSE [Flush(acc) EXCEPT !.pending = span]
      WordsIn(span) == LET s == Slice(text, span)
                           at == WordStarts(s)
                       IN [k \in DOMAIN at |-> LET b == span[1] + at[k] - 1 IN <<b, b + Len(WordAt(s, at[k]))>>]
      PutWord(acc, word) == IF Fits(word) THEN Put(acc, word)
                            ELSE [Flush(acc) EXCEPT !.pieces = @ \o CutWord(text, word, budget, counter)]
      PutSentence(acc, s) == IF Fits(s) THEN Put(acc, s) ELSE FoldLeft(PutWord, Flush(acc), WordsIn(s))
  IN FoldLeft(PutSentence, [pieces |-> <<>>, pending |-> <<>>], SplitSentences(text))

\* Bug: the span still pending at the end is dropped.
PackForgetsRest(text, budget, counter) == GreedyPack(text, budget, counter).pieces
PackSpans(text, budget, counter) ==
  LET Closed(packed) == packed.pieces \o FlushSpan(text, packed.pending)
  IN Closed(GreedyPack(text, budget, counter))

\* The packing whose pieces fit beside the headings: the budget shrinks by the
\* worst overflow while it stays positive.
Converge(chunk, max, counter) ==
  LET Over(pieces) == Max({0} \cup {Count(counter, Contextualized([chunk EXCEPT !.text = Slice(chunk.text, p)])) - max :
                                      p \in ToSet(pieces)})
      pack[b \in 1..max] ==
        LET Shrink(pieces, over) == IF over = 0 \/ b <= over THEN pieces ELSE pack[b - over]
            Measure(pieces) == Shrink(pieces, Over(pieces))
        IN Measure(PackSpans(chunk.text, b, counter))
  IN pack[max - HeadingTokens(counter, chunk)]

\* A chunk over the budget becomes its pieces, unless its headings alone fill
\* the budget or it is one piece; an exact chunk's pieces have spans.
SplitOversized(chunks, max, counter) ==
  LET Part(c, p) == [c EXCEPT !.text = Slice(c.text, p), !.known = c.exact,
                              !.span = <<c.span[1] + p[1], c.span[1] + p[2]>>]
      Parts(c, pieces) == IF Len(pieces) <= 1 THEN <<c>> ELSE [k \in DOMAIN pieces |-> Part(c, pieces[k])]
      Split(c) ==
        IF Count(counter, Contextualized(c)) <= max \/ HeadingTokens(counter, c) >= max THEN <<c>>
        ELSE Parts(c, Converge(c, max, counter))
  IN FlattenSeq([k \in DOMAIN chunks |-> Split(chunks[k])])

\* A span is reported when every text item of the chunk had a row.
ReportsSpan(chunk) == chunk.known /\ chunk.complete

\* A request: kind, images, and for the hybrid chunker max, peers, counter.
Budgeted(work, request) ==
  IF request.kind = "hierarchical" THEN work
  ELSE SplitOversized(IF request.peers THEN MergePeers(work, request.max, request.counter) ELSE work,
                      request.max, request.counter)
ChunkDocument(doc, table, request) == Budgeted(ChunkHierarchical(doc, table, request.images), request)
=============================================================================
