----------------------------- MODULE StreamFolds -----------------------------
(***************************************************************************)
(* The two collector wires that carry no Document: what they stream is     *)
(* folded here, one event at a time.                                       *)
(*                                                                         *)
(* The match stream (collectors/lol_html_collector.cpp): an event of       *)
(* ordinal 0 is a transcript line of its rule; one that names a match goes *)
(* to the match's own item.  Text is a sequence of tokens; "amp1" and      *)
(* "amp2" are the halves of one character reference, which a raw chunk     *)
(* boundary may part.                                                      *)
(*                                                                         *)
(* The record stream of a web archive (collectors/fastwarc_collector.cpp): *)
(* one group per record, its facts and its payload below it.  The wire has *)
(* no end mark, so a lost record_end and a stream cut inside a record are  *)
(* folded with what arrived.  A record's metadata: [pos, response, target  *)
(* ("" for none), textual, length, charset].  A payload is a sequence of   *)
(* tokens: a letter, "lead" and "tail" (the halves of one character),      *)
(* "bad" (no UTF-8 at all).                                                *)
(***************************************************************************)
EXTENDS CollectedDocument

CONSTANTS
  TextLimit,      \* kBufferedTextBytes, in tokens
  RuleOrder,      \* the rules in the order of their names
  JsonRules,      \* the rules whose selector names JSON-LD
  PayloadLimit    \* kPayloadTextBytes, in tokens

VoidTags == {"img", "meta", "link"}
NoSpan == <<>>

NewHtmlFold(raw) ==
  [doc |-> NewDocument, raw |-> raw, inst |-> <<>>, open |-> <<>>, groups |-> <<>>,
   element |-> <<>>, pending |-> <<>>, used |-> 0, limited |-> FALSE, data |-> <<>>,
   tags |-> <<>>, authors |-> <<>>, keywords |-> <<>>, warnings |-> <<>>]

WarnHtml(f, text) == [f EXCEPT !.warnings = Append(@, text)]

\* The named references, by the pieces a stream may cut them into.
HtmlEntities == [pieces \in {<<"amp1", "amp2">>} |-> "&"]

\* A reference decodes only once its pieces are back together.
DecodeHtmlEntities(s) ==
  LET d[i \in 0..Len(s)] ==
        IF i = 0 THEN <<>>
        ELSE IF i > 1 /\ SubSeq(s, i - 1, i) \in DOMAIN HtmlEntities
             THEN Append(d[i - 2], HtmlEntities[SubSeq(s, i - 1, i)])
        ELSE Append(d[i - 1], s[i])
  IN d[Len(s)]
Decoded(type, s) == IF type \in {"data", "rcdata"} THEN DecodeHtmlEntities(s) ELSE s

-----------------------------------------------------------------------------
(* Attributes and the start tag's transcript. *)

\* Absent is told from empty: an absent attribute has no value at all.
Absent == <<"absent">>
AttributeValue(e, name) ==
  LET at == {i \in DOMAIN e.attrs : e.attrs[i].name = name}
  IN IF at = {} THEN Absent ELSE e.attrs[Min(at)].value
Given(v) == v # Absent /\ v # <<>>

\* A bare attribute says so, or has a place for its name and none for a value.
IsBare(a) == IF a.present # "unset" THEN a.present = "no" ELSE a.namespan /\ ~a.valuespan

\* The tag as written, with a link over each href value.
PseudoTag(e) ==
  LET Add(acc, a) ==
        LET named == Append(acc.text, a.name)
            from == Len(named) + 1
        IN IF IsBare(a) THEN [acc EXCEPT !.text = named]
           ELSE [text |-> named \o <<"=">> \o a.value \o <<"quote">>,
                 links |-> IF a.name # "href" \/ a.value = <<>> THEN acc.links
                           ELSE Append(acc.links, [start |-> from, end |-> from + Len(a.value),
                                                   href |-> a.value, target |-> NoRef])]
      all == FoldLeft(Add, [text |-> <<e.tag>>, links |-> <<>>], e.attrs)
  IN [all EXCEPT !.text = Append(@, ">")]

-----------------------------------------------------------------------------
(* The page's identity. *)

KeywordsOf(content) ==
  LET cuts == SetToSortSeq({0, Len(content) + 1} \cup {i \in DOMAIN content : content[i] = ","}, <)
      runs == [i \in 1..(Len(cuts) - 1) |-> SubSeq(content, cuts[i] + 1, cuts[i + 1] - 1)]
  IN SelectSeq(AsTuple(runs), LAMBDA k : k # <<>>)

\* Authors and keywords gather; the other fields keep their first answer.
PromoteMeta(f, key, name, content) ==
  CASE content = <<>> -> f
    [] name \in {<<"author">>, <<"dc.creator">>} -> [f EXCEPT !.authors = Append(@, content)]
    [] name = <<"keywords">> -> [f EXCEPT !.keywords = @ \o KeywordsOf(content)]
    [] name \in {<<"generator">>, <<"subject">>} ->
         [f EXCEPT !.doc = FirstAnswer(@, name[1], content)]
    [] name \in {<<"content-language">>, <<"language">>} ->
         [f EXCEPT !.doc = LET known == FirstAnswer(@, "language", content) IN
            IF key = "http-equiv" THEN FirstAnswer(known, "content_language", content) ELSE known]
    [] OTHER -> f

CaptureMeta(f, e) ==
  LET content == AttributeValue(e, "content")
      charset == AttributeValue(e, "charset")
      keys == SelectSeq(<<"name", "property", "http-equiv">>,
                        LAMBDA k : Given(AttributeValue(e, k)))
      name == AttributeValue(e, keys[1])
  IN CASE content = Absent ->
            IF Given(charset) THEN [f EXCEPT !.tags = Append(@, <<<<"charset">>, charset>>)] ELSE f
       [] keys = <<>> -> f
       [] OTHER -> PromoteMeta([f EXCEPT !.tags = Append(@, <<name, content>>)],
                               keys[1], name, content)

CapturePageIdentity(f, e) ==
  LET href == AttributeValue(e, "href")
      lang == AttributeValue(e, "lang")
  IN CASE e.tag = "link" ->
            IF AttributeValue(e, "rel") = <<"canonical">> /\ Given(href)
            THEN [f EXCEPT !.doc = FirstAnswer(@, "canonical_uri", href)] ELSE f
       [] e.tag = "html" ->
            IF Given(lang) THEN [f EXCEPT !.doc = FirstAnswer(@, "language", lang)] ELSE f
       [] e.tag = "meta" -> CaptureMeta(f, e)
       [] OTHER -> f

\* The first title names the document.
NoteTitle(f, text) ==
  IF text = <<>> \/ "title" \in DOMAIN f.doc.meta THEN f
  ELSE [f EXCEPT !.doc = FirstAnswer(@, "title", text), !.tags = Append(@, <<<<"title">>, text>>)]
NoteJson(f, text) == IF text = <<>> THEN f ELSE [f EXCEPT !.data = Append(@, text)]

-----------------------------------------------------------------------------
(* Items. *)

\* One group per rule, made when something first needs it.
WithRuleGroup(f, rule) ==
  IF rule \in DOMAIN f.groups THEN f
  ELSE [f EXCEPT !.groups = (rule :> NextRef(f.doc, "groups")) @@ @,
                 !.doc = Put(@, "groups", Body, "section", <<rule>>, <<>>)]

AddTo(f, rule, text, spans) ==
  [f EXCEPT !.doc = Put(@, "texts", f.groups[rule], "text", text, spans)]
AddText(f, rule, text, spans) == AddTo(WithRuleGroup(f, rule), rule, text, spans)
AddFurniture(f, text) == [f EXCEPT !.doc = Put(@, "texts", Furniture, "code", text, <<>>)]

NoteTextLimit(f) ==
  IF f.limited THEN f ELSE WarnHtml([f EXCEPT !.limited = TRUE], "text truncated")
Taken(f, text) == SubSeq(text, 1, Min({Len(text), TextLimit - f.used}))
\* What append_bounded charges to the budget for the part it takes.
Charged(f, text) ==
  LET paid == [f EXCEPT !.used = @ + Len(Taken(f, text))]
  IN IF Len(Taken(f, text)) < Len(text) THEN NoteTextLimit(paid) ELSE paid

\* Bytes a node covers, beside the code points it became.
WithProvenance(item, bytes, from, to) ==
  IF bytes = NoSpan THEN item
  ELSE [item EXCEPT !.prov = Append(@, [bytes |-> bytes, start |-> from, end |-> to])]

AppendInstanceNode(f, k, text, orig, bytes) ==
  LET n == f.inst[k].item[2]
      before == f.doc.texts[n]
      after == WithProvenance([before EXCEPT !.text = @ \o Taken(f, text)], bytes,
                              Len(before.text), Len(before.text) + Len(Taken(f, text)))
      room == TextLimit - Len(f.inst[k].orig)
      grown == [Charged(f, text) EXCEPT !.doc.texts[n] = after,
                  !.inst[k].orig = @ \o SubSeq(orig, 1, Min({room, Len(orig)}))]
  IN IF Len(orig) > room THEN NoteTextLimit(grown) ELSE grown

\* Bug: the pending bytes stay charged when they become item text.
FlushInstanceKeepsCharge(f, k) ==
  LET i == f.inst[k] IN
  IF i.raw = <<>> THEN f
  ELSE AppendInstanceNode([f EXCEPT !.inst[k].raw = <<>>, !.inst[k].bytes = NoSpan],
                          k, Decoded(i.type, i.raw), i.raw, i.bytes)

FlushInstanceText(f, k) ==
  LET i == f.inst[k] IN
  IF i.raw = <<>> THEN f
  ELSE AppendInstanceNode([f EXCEPT !.inst[k].raw = <<>>, !.inst[k].bytes = NoSpan,
                                    !.used = @ - Len(i.raw)],
                          k, Decoded(i.type, i.raw), i.raw, i.bytes)

\* A match that closes takes its alternative text if it got none, and its
\* link over all it says.
CloseInstance(f, k) ==
  LET g == FlushInstanceText(f, k)
      i == g.inst[k]
      n == i.item[2]
      own == g.doc.texts[n].text
      text == IF own = <<>> THEN i.fallback ELSE own
      link == IF i.href = <<>> THEN <<>>
              ELSE <<[start |-> 0, end |-> Len(text), href |-> i.href, target |-> NoRef]>>
      shut == [g EXCEPT !.doc.texts[n].text = text, !.doc.texts[n].spans = @ \o link,
                        !.inst[k].orig = IF own = <<>> /\ i.fallback # <<>> THEN i.fallback ELSE @,
                        !.inst[k].closed = TRUE]
      titled == IF i.tag = "title" THEN NoteTitle(shut, text) ELSE shut
  IN CASE f.inst[k].closed -> f
       [] i.json -> NoteJson(titled, text)
       [] OTHER -> titled

CloseAll(f, rule, ordinals) ==
  FoldLeft(LAMBDA g, o : CloseInstance(g, <<rule, o>>), f, ordinals)

\* What the text of a rule's active element says of the page.
NoteActive(f, active, rule, text, type) ==
  LET noted == IF active.json \/ (type = "script" /\ rule \in JsonRules)
               THEN NoteJson(f, text) ELSE f
  IN IF active.tag = "title" THEN NoteTitle(noted, text) ELSE noted
CoverBytes(f, text, bytes) ==
  [f EXCEPT !.doc.texts[Len(f.doc.texts)] = WithProvenance(@, bytes, 0, Len(text))]
EmitTextNode(f, rule, text, type, bytes) ==
  NoteActive(CoverBytes(AddText(f, rule, text, <<>>), text, bytes),
             Under(f.element, rule, [tag |-> "", json |-> FALSE]), rule, text, type)

\* A rule's pending node becomes one item.
FlushRawText(f, rule) ==
  LET p == f.pending[rule]
      g == [f EXCEPT !.pending = Without(@, rule), !.used = @ - Len(p.raw)]
  IN CASE rule \notin DOMAIN f.pending -> f
       [] p.raw = <<>> -> g
       [] OTHER -> EmitTextNode(g, rule, Decoded(p.type, p.raw), p.type, p.bytes)

Extended(bytes, more) ==
  CASE more = NoSpan -> bytes [] bytes = NoSpan -> more [] OTHER -> <<bytes[1], more[2]>>

-----------------------------------------------------------------------------
(* The handlers, one per event. *)

Started(f, e) ==
  IF e.encoding = <<>> THEN f ELSE [f EXCEPT !.doc.meta = ("encoding" :> e.encoding) @@ @]

JsonTyped(e, otherwise) ==
  LET type == AttributeValue(e, "type") IN
  IF e.tag = "script" /\ type # Absent THEN type = <<"ld+json">> ELSE otherwise

LegacyElement(f, e) ==
  LET known == CapturePageIdentity(FlushRawText(f, e.rule), e)
      contains == ~e.self /\ e.tag \notin VoidTags /\ (e.content \/ e.ns = "none")
      active == [tag |-> e.tag, json |-> JsonTyped(e, e.rule \in JsonRules)]
      tag == PseudoTag(e)
  IN AddText([known EXCEPT !.element = IF contains THEN (e.rule :> active) @@ @
                                       ELSE Without(@, e.rule)],
             e.rule, tag.text, tag.links)

\* Its group below parent, its item, and what its start tag says of it.
PlaceMatch(f, e, parent) ==
  LET group == NextRef(f.doc, "groups")
      names == SelectSeq(<<"alt", "title", "aria-label">>, LAMBDA n : Given(AttributeValue(e, n)))
      href == AttributeValue(e, "href")
      born == [group |-> group, item |-> NextRef(f.doc, "texts"), tag |-> e.tag,
               href |-> IF e.tag \in {"a", "link"} /\ href # Absent THEN href ELSE <<>>,
               fallback |-> IF names = <<>> THEN <<>> ELSE AttributeValue(e, names[1]),
               json |-> e.tag = "script" /\ (JsonTyped(e, FALSE) \/ e.rule \in JsonRules),
               closed |-> FALSE, raw |-> <<>>, orig |-> <<>>, type |-> "none", bytes |-> NoSpan]
  IN [f EXCEPT !.inst = (<<e.rule, e.ord>> :> born) @@ @,
        !.doc = Put(Put(@, "groups", parent, "section", <<e.rule>>, <<>>),
                    "texts", group, "text", <<>>, <<>>)]

\* The match hangs below the innermost one that stays open, or its rule.
HangMatch(f, e, kept) ==
  PlaceMatch(f, e, IF kept = <<>> THEN f.groups[e.rule] ELSE f.inst[<<e.rule, Last(kept)>>].group)

\* A match that can hold no text is closed at once.
LeaveOpen(f, e, kept) ==
  IF (e.ns = "html" /\ e.tag \in VoidTags) \/ ~e.content
  THEN CloseInstance([f EXCEPT !.open = (e.rule :> kept) @@ @], <<e.rule, e.ord>>)
  ELSE [f EXCEPT !.open = (e.rule :> Append(kept, e.ord)) @@ @]

\* Its place in the rule's open matches says how many of them still are.
OpenMatches(stack, e) == SubSeq(stack, 1, Min({Len(stack), e.open}))

\* A match of a known ordinal; those that ended without an end tag close.
InstanceElement(f, e) ==
  LET stack == Under(f.open, e.rule, <<>>)
      kept == OpenMatches(stack, e)
      shut == CloseAll(f, e.rule, Reverse(SubSeq(stack, Len(kept) + 1, Len(stack))))
      hung == HangMatch(WithRuleGroup(shut, e.rule), e, kept)
  IN IF <<e.rule, e.ord>> \in DOMAIN f.inst THEN f
     ELSE LeaveOpen(AddFurniture(CapturePageIdentity(hung, e), PseudoTag(e).text), e, kept)

Element(f, e) == IF e.ord # 0 THEN InstanceElement(f, e) ELSE LegacyElement(f, e)

\* Text for a match that is unknown or closed is only reported.
InstanceText(f, e) ==
  LET k == <<e.rule, e.ord>>
      g == [Charged(f, e.text) EXCEPT !.inst[k].type = e.type,
              !.inst[k].raw = @ \o Taken(f, e.text), !.inst[k].bytes = Extended(@, e.bytes)]
  IN CASE k \notin DOMAIN f.inst -> WarnHtml(f, "unknown match")
       [] f.inst[k].closed -> WarnHtml(f, "match closed")
       [] ~f.raw -> AppendInstanceNode(f, k, e.text, e.text, e.bytes)
       [] e.last -> FlushInstanceText(g, k)
       [] OTHER -> g

LegacyText(f, e) ==
  LET p == Under(f.pending, e.rule, [raw |-> <<>>, type |-> e.type, bytes |-> NoSpan])
      held == [p EXCEPT !.raw = @ \o Taken(f, e.text), !.bytes = Extended(@, e.bytes)]
      g == [Charged(f, e.text) EXCEPT !.pending = (e.rule :> held) @@ @]
  IN CASE e.also -> f
       [] f.raw -> IF e.last THEN FlushRawText(g, e.rule) ELSE g
       [] e.text = <<>> /\ e.last -> f
       [] OTHER -> EmitTextNode(f, e.rule, e.text, e.type, e.bytes)

TextEvent(f, e) == IF e.ord # 0 THEN InstanceText(f, e) ELSE LegacyText(f, e)

Comment(f, e) ==
  LET k == <<e.rule, e.ord>>
      g == IF k \in DOMAIN f.inst THEN FlushInstanceText(f, k) ELSE f
  IN IF e.ord # 0 THEN AddFurniture(g, <<"comment">>)
     ELSE AddText(FlushRawText(f, e.rule), e.rule, <<"comment">>, <<>>)

Doctype(f, e) == AddText(FlushRawText(f, e.rule), e.rule, <<"doctype">>, <<>>)

\* An end tag closes its match and every match still open inside it.
EndTag(f, e) ==
  LET k == <<e.rule, e.ord>>
      g == IF k \in DOMAIN f.inst THEN CloseInstance(f, k) ELSE f
      stack == Under(f.open, e.rule, <<>>)
      at == {i \in DOMAIN stack : stack[i] = e.ord}
      shut == IF at = {} THEN g
              ELSE [CloseAll(g, e.rule, SubSeq(stack, Min(at), Len(stack))) EXCEPT
                      !.open[e.rule] = SubSeq(stack, 1, Min(at) - 1)]
      flushed == FlushRawText(f, e.rule)
  IN IF e.ord # 0 THEN AddFurniture(shut, <<"end">>)
     ELSE AddText([flushed EXCEPT !.element = Without(@, e.rule)], e.rule, <<"end">>, <<>>)

\* The end of the page flushes what is pending and closes what is open.
FinishHtml(f) ==
  LET flushed == FoldLeft(FlushRawText, f, RuleOrder)
      Shut(g, rule) ==
        CloseAll(g, rule, SetToSortSeq({k[2] : k \in {x \in DOMAIN g.inst : x[1] = rule}}, <))
  IN FoldLeft(Shut, flushed, RuleOrder)

HtmlEvent(f, e) ==
  CASE e.type = "started" -> Started(f, e)
    [] e.type = "element" -> Element(f, e)
    [] e.type = "text" -> TextEvent(f, [e EXCEPT !.type = e.kind])
    [] e.type = "comment" -> Comment(f, e)
    [] e.type = "doctype" -> Doctype(f, e)
    [] e.type = "end_tag" -> EndTag(f, e)
    [] e.type \in {"finished", "error"} -> FinishHtml(f)

-----------------------------------------------------------------------------
(* The web archive. *)

NewWarcFold ==
  [doc |-> NewDocument, current |-> <<>>, payload |-> <<>>, isopen |-> FALSE,
   web |-> "", fromResponse |-> FALSE, undecoded |-> {}, warnings |-> <<>>]

WarnWarc(f, text) == [f EXCEPT !.warnings = Append(@, text)]

\* A cut inside a character drops the half; any other bad byte is replaced.
DropSplitTail(bytes) == IF bytes # <<>> /\ Last(bytes) = "lead" THEN Front(bytes) ELSE bytes
ValidUtf8(bytes) ==
  \A i \in DOMAIN bytes :
    /\ bytes[i] # "bad"
    /\ bytes[i] = "lead" => (i < Len(bytes) /\ bytes[i + 1] = "tail")
    /\ bytes[i] = "tail" => (i > 1 /\ bytes[i - 1] = "lead")
Utf8Text(bytes) ==
  AsTuple([i \in DOMAIN bytes |->
     IF ValidUtf8(<<bytes[i]>>)
        \/ (bytes[i] = "lead" /\ i < Len(bytes) /\ bytes[i + 1] = "tail")
        \/ (bytes[i] = "tail" /\ i > 1 /\ bytes[i - 1] = "lead")
     THEN bytes[i] ELSE "replaced"])

\* Latin-1 bytes are code points each; any other charset is not decoded.
PayloadText(meta, bytes, cut) ==
  LET whole == IF cut THEN DropSplitTail(bytes) ELSE bytes
  IN CASE ValidUtf8(whole) -> [text |-> whole, undecoded |-> {}]
       [] meta.charset = "latin1" ->
            [text |-> AsTuple([i \in DOMAIN bytes |-> "latin"]), undecoded |-> {}]
       [] OTHER -> [text |-> Utf8Text(whole), undecoded |-> {meta.charset}]

\* The document's web facts come from the first response with a target, or
\* from the first record with one until a response supersedes it.
CaptureWeb(f, meta) ==
  IF (f.web # "" /\ (f.fromResponse \/ ~meta.response)) \/ meta.target = "" THEN f
  ELSE [f EXCEPT !.web = meta.target, !.fromResponse = meta.response]

AddFacts(f, group, length) ==
  [f EXCEPT !.doc = Put(Put(@, "groups", Body, "section", <<f.current.pos>>, <<>>),
                        "texts", group, "text", <<"facts", f.current.pos, length>>, <<>>)]
\* A charset that could not be decoded is reported once.
AddPayload(f, group, decoded, cut) ==
  LET shown == [f EXCEPT !.undecoded = @ \cup decoded.undecoded,
                  !.doc = Put(@, "texts", group, "text",
                              IF cut THEN Append(decoded.text, "truncated") ELSE decoded.text, <<>>)]
  IN IF decoded.undecoded \subseteq f.undecoded THEN shown ELSE WarnWarc(shown, "undecoded")

\* One record's group, its facts, then its payload when it reads as text.
FoldRecord(f, length) ==
  LET group == NextRef(f.doc, "groups")
      cut == length > Len(f.payload)
      facts == AddFacts(CaptureWeb(f, f.current), group, length)
  IN IF ~f.current.textual \/ length = 0 THEN facts
     ELSE AddPayload(facts, group, PayloadText(f.current, f.payload, cut), cut)

\* A start while a record is open means its end was lost: it is folded first.
RecordStart(f, meta) ==
  LET g == IF f.isopen THEN WarnWarc(FoldRecord(f, f.current.length), "no record_end") ELSE f
  IN [g EXCEPT !.current = meta, !.isopen = TRUE, !.payload = <<>>]

\* Chunks outside a record are dropped, and those past the limit.
PayloadChunk(f, data) ==
  IF ~f.isopen THEN f
  ELSE [f EXCEPT !.payload = @ \o SubSeq(data, 1, Min({Len(data), PayloadLimit - Len(@)}))]

RecordEnd(f, length) ==
  IF ~f.isopen THEN f ELSE [FoldRecord(f, length) EXCEPT !.isopen = FALSE]

WarcItem(f, e) ==
  CASE e.type = "record_start" -> RecordStart(f, e.meta)
    [] e.type = "payload_chunk" -> PayloadChunk(f, e.data)
    [] e.type = "record_end" -> RecordEnd(f, e.length)
    [] e.type = "record_error" -> WarnWarc(f, IF e.recoverable THEN "skipped" ELSE "clipped")

\* A batch holds its events in order and no other batch.
WarcEvent(f, e) ==
  IF e.type = "batch" THEN FoldLeft(WarcItem, f, e.items) ELSE WarcItem(f, e)

\* The stream ended; a record still open is folded.
CloseWarc(f) ==
  IF ~f.isopen THEN f ELSE WarnWarc(FoldRecord(f, f.current.length), "ended inside a record")

Records(f) == Len(f.doc.groups)
=============================================================================
