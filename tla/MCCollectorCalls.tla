-------------------------- MODULE MCCollectorCalls ---------------------------
(***************************************************************************)
(* Small legs of every kind: calls that are refused, cut, silent or whole; *)
(* pages of matches, archives, books, messages and storage bodies.         *)
(***************************************************************************)
EXTENDS CollectorCalls

Leg(kind, script) ==
  [kind |-> kind, frames |-> 0, always |-> FALSE, options |-> TRUE, markup |-> TRUE, page |-> FALSE,
   script |-> script, status |-> "OK", answers |-> 1, cancellable |-> FALSE, slow |-> FALSE,
   raw |-> FALSE, tokens |-> {}]

-----------------------------------------------------------------------------
(* Plain legs. *)

Text(parent, label, word) == Put(NewDocument, "texts", parent, label, <<word>>, <<>>)
Doc(d) == [type |-> "document", doc |-> d]
Status == [type |-> "status"]
Typed == [type |-> "typed"]
Titled == [Text(Body, "text", "w1") EXCEPT !.meta = ("title" :> <<"name">>)]
Answer == <<Doc(Text(Body, "text", "w1")), Status>>

PlainLegs ==
  {[Leg("plain", <<Typed, Typed>> \o Answer) EXCEPT !.frames = f, !.answers = a] :
     f \in {0, 3}, a \in {0, 1, 2}}
  \cup {[Leg("plain", s) EXCEPT !.frames = 1, !.always = TRUE, !.status = st] :
          s \in {<<>>, <<Typed>>, <<Status>>, SubSeq(Answer, 1, 1), Answer},
          st \in {"OK", "INTERNAL", "INVALID_ARGUMENT"}}
  \cup {[Leg("plain", Answer) EXCEPT !.frames = 1, !.cancellable = TRUE, !.slow = TRUE],
        [Leg("plain", Answer) EXCEPT !.always = TRUE, !.options = FALSE],
        [Leg("plain", <<Typed>>) EXCEPT !.slow = TRUE, !.status = "silent", !.frames = 2],
        [Leg("plain", <<Doc(Titled), Status>>) EXCEPT !.page = TRUE],
        [Leg("plain", <<Doc(Put(Titled, "texts", Body, "title", <<"name">>, <<>>)), Status>>)
           EXCEPT !.page = TRUE]}

-----------------------------------------------------------------------------
(* Pages of matches. *)

Attr(name, value) ==
  [name |-> name, value |-> <<value>>, present |-> "yes", namespan |-> TRUE, valuespan |-> TRUE]
Bare(name) == [Attr(name, "") EXCEPT !.value = <<>>, !.present = "unset", !.valuespan = FALSE]
El(rule, ord, tag, attrs, open) ==
  [type |-> "element", rule |-> rule, ord |-> ord, tag |-> tag, attrs |-> attrs, open |-> open,
   content |-> TRUE, self |-> FALSE, ns |-> "html"]
Tx(rule, ord, text, last) ==
  [type |-> "text", rule |-> rule, ord |-> ord, text |-> text, kind |-> "data", last |-> last,
   also |-> FALSE, bytes |-> <<>>]
Cm(rule, ord) == [type |-> "comment", rule |-> rule, ord |-> ord]
Dt(rule) == [type |-> "doctype", rule |-> rule, ord |-> 0]
En(rule, ord) == [type |-> "end_tag", rule |-> rule, ord |-> ord]
Begun == [type |-> "started", encoding |-> <<"utf-8">>]
Finished == [type |-> "finished", warnings |-> <<"slow">>]
Broken(code) == [type |-> "error", code |-> code]
Half1(raw) == IF raw THEN <<"a", "amp1">> ELSE <<"a">>
Half2(raw) == IF raw THEN <<"amp2">> ELSE <<"&">>

Nested(raw) ==
  <<Begun, El("p", 1, "p", <<>>, 0), Tx("p", 1, Half1(raw), FALSE), Tx("p", 1, Half2(raw), TRUE),
    El("p", 2, "a", <<Attr("href", "u"), Bare("hidden")>>, 1), Tx("p", 2, <<"b">>, FALSE), Cm("p", 2),
    Tx("p", 2, <<"c">>, TRUE), El("p", 3, "img", <<Attr("alt", "x")>>, 2), Tx("p", 3, <<"z">>, TRUE),
    En("p", 1), Tx("p", 2, <<"z">>, TRUE)>>
Unseen(raw) ==
  <<El("p", 1, "p", <<>>, 0), Tx("p", 1, Half1(raw), FALSE), El("p", 2, "p", <<>>, 1),
    Tx("p", 2, <<"b">>, FALSE), El("p", 3, "a", <<Attr("href", "u"), Attr("title", "y")>>, 0),
    Tx("p", 9, <<"z">>, TRUE), Tx("q", 0, <<"c">>, FALSE), Tx("p", 2, <<"z">>, TRUE)>>
Transcripts(raw) ==
  <<Dt("q"), El("q", 0, "title", <<>>, 0), Tx("q", 0, <<"n1">>, TRUE), En("q", 0),
    El("q", 0, "a", <<Attr("id", "i"), Attr("href", "u")>>, 0), Tx("q", 0, Half1(raw), FALSE),
    [Tx("q", 0, <<"d">>, TRUE) EXCEPT !.also = TRUE], Tx("q", 0, Half2(raw), FALSE),
    Cm("q", 0), En("q", 0), El("q", 0, "title", <<>>, 0), Tx("q", 0, <<"n2">>, TRUE)>>
Identity(raw) ==
  <<El("q", 0, "html", <<Attr("lang", "en")>>, 0),
    El("q", 0, "meta", <<Attr("name", "author"), Attr("content", "ann")>>, 0),
    El("q", 0, "meta", <<Attr("http-equiv", "language"), Attr("content", "fr")>>, 0),
    El("q", 0, "meta", <<[Attr("name", "keywords") EXCEPT !.value = <<"keywords">>],
                        [Attr("content", "") EXCEPT !.value = <<"k", ",", "l">>]>>, 0),
    El("q", 0, "meta", <<Attr("charset", "latin1")>>, 0),
    El("q", 0, "link", <<Attr("rel", "canonical"), Attr("href", "u")>>, 0),
    El("p", 1, "title", <<>>, 0), Tx("p", 1, <<"n1">>, TRUE), En("p", 1),
    El("j", 1, "script", <<Attr("type", "ld+json")>>, 0),
    [Tx("j", 1, <<"amp1", "amp2">>, TRUE) EXCEPT !.kind = "script"]>>
Wide(raw) ==
  <<El("p", 1, "p", <<>>, 0), Tx("p", 1, <<"a", "b", "c">>, FALSE), Tx("q", 0, <<"d", "e">>, FALSE),
    El("p", 2, "p", <<Attr("alt", "x")>>, 1), Tx("p", 2, <<"f", "g", "h", "i">>, TRUE),
    Tx("q", 0, <<"k">>, TRUE), Tx("p", 1, <<"l", "m">>, TRUE)>>

HtmlLegs ==
  LET Ended(raw, s) == [Leg("html", Append(s, Finished)) EXCEPT !.raw = raw, !.answers = 9]
      Page(raw) == {Nested(raw), Unseen(raw), Transcripts(raw), Wide(raw), Identity(raw)}
  IN UNION {{Ended(raw, s) : s \in UNION {Prefixes(p) : p \in Page(raw)}} : raw \in BOOLEAN}
     \cup {[Ended(TRUE, s) EXCEPT !.script = Append(s, Broken(c))] :
             s \in Page(TRUE), c \in {"memory", "syntax"}}
     \cup {[Ended(TRUE, <<>>) EXCEPT !.script = s, !.status = st] :
             s \in Page(TRUE), st \in {"OK", "UNAVAILABLE"}}

-----------------------------------------------------------------------------
(* Archives. *)

Meta(pos, target, length) ==
  [pos |-> pos, response |-> FALSE, target |-> target, textual |-> TRUE, length |-> length,
   charset |-> "other"]
Rs(m) == [type |-> "record_start", meta |-> m]
Ck(data) == [type |-> "payload_chunk", data |-> data]
Re(length) == [type |-> "record_end", length |-> length]
Fault(r) == [type |-> "record_error", recoverable |-> r]
Response(m) == [m EXCEPT !.response = TRUE]

Archives ==
  {<<Ck(<<"z">>), Rs(Meta("r1", "", 2)), Ck(<<"a">>), Ck(<<"b">>), Re(2), Rs(Meta("r2", "t2", 4)),
     Ck(<<"a", "lead">>), Ck(<<"tail", "b">>), Rs(Response(Meta("r3", "t3", 3))), Ck(<<"c">>),
     Rs(Response(Meta("r4", "t4", 0))), Re(0)>>,
   <<[type |-> "batch", items |-> <<Rs(Meta("r1", "t1", 5)), Ck(<<"a", "b", "lead">>)>>],
     [type |-> "batch", items |-> <<Ck(<<"tail", "c">>), Re(5), Re(5),
                                   Rs([Meta("r2", "", 2) EXCEPT !.textual = FALSE])>>],
     Ck(<<"d">>), Fault(TRUE)>>,
   <<Rs([Meta("r1", "", 2) EXCEPT !.charset = "latin1"]), Ck(<<"bad", "a">>), Re(2),
     Rs(Meta("r2", "", 2)), Ck(<<"bad", "b">>), Re(2), Rs(Meta("r3", "", 1)), Ck(<<"bad">>),
     Fault(FALSE)>>}
WarcLegs ==
  {[Leg("warc", s) EXCEPT !.status = st, !.answers = 9] :
     s \in UNION {Prefixes(a) : a \in Archives}, st \in {"OK", "DATA_LOSS"}}
  \cup {[Leg("warc", <<Rs(Meta("r1", "", 1)), Ck(<<"a">>), Re(1), Rs(Meta("r2", "", 1))>>)
           EXCEPT !.cancellable = TRUE, !.slow = TRUE, !.answers = 9]}

-----------------------------------------------------------------------------
(* Books and messages. *)

Picture(d, parent, address) == Put(d, "pictures", parent, "picture", address, <<>>)
C(n) == <<"t", n>>
I(n) == <<"i", n>>
Up(n) == Address("relative", <<"..">> \o I(n))
Chapter(n, word, pictures) ==
  [type |-> "chapter", href |-> C(n), size |-> 2, media |-> "html", ok |-> TRUE,
   doc |-> FoldLeft(LAMBDA d, p : Picture(d, Body, p), Text(Body, "text", word), pictures)]
Resource(n, size) == [type |-> "resource", image |-> TRUE, href |-> I(n), size |-> size]
Outline(hrefs, images) ==
  LET Group(d, h) == Put(d, "groups", Body, "chapter", h, <<>>)
      Image(d, i) == [Picture(d, Body, Address("epub", i)) EXCEPT
                        !.pictures[Len(d.pictures) + 1].sources = {"manifest"}]
  IN FoldLeft(Group, FoldLeft(Image, NewDocument, images), hrefs)

Ch1 == Chapter("c1", "w1", <<Up("a"), Address("web", <<"net">>)>>)
Ch2 == Chapter("c2", "w2", <<Up("a"), Address("relative", <<"..", "..", "..", "i", "b">>)>>)
Ch3 == Chapter("c3", "w3", <<Address("rooted", I("b"))>>)
Book(outline, parts) == <<Doc(outline)>> \o parts \o <<Status>>
Whole == Outline(<<C("c1"), C("c2"), C("c3")>>, <<I("c"), I("a"), I("b")>>)
Cover == [Ch2 EXCEPT !.href = I("d"), !.media = "image"]
Books ==
  {Book(Whole, <<Ch1, Resource("a", 2), Ch2, Resource("b", 2), Ch3>>),
   Book(Whole, <<Ch1, [Ch2 EXCEPT !.ok = FALSE], Resource("a", 3), Resource("b", 4), Ch3>>),
   Book(Outline(<<C("c2")>>, <<I("a"), I("a")>>), <<Ch2, [Ch1 EXCEPT !.media = "other"], Ch3>>),
   Book(Outline(<<I("d"), C("c1")>>, <<I("d")>>), <<Cover, Ch1, Resource("a", 0)>>),
   Book(Whole, <<Ch1, Resource("a", 3), [Ch2 EXCEPT !.size = 9], Ch3>>)}
BookLegs ==
  {[Leg("epub", b) EXCEPT !.answers = 9, !.markup = m] : b \in Books, m \in BOOLEAN}
  \cup {[Leg("epub", Book(Whole, <<Ch1, Ch2, Ch3>>)) EXCEPT !.answers = 9, !.cancellable = TRUE]}

BodyPart(word) ==
  [type |-> "body_part", plain |-> FALSE, media |-> "html", ok |-> TRUE, doc |-> Text(Body, "text", word)]
Message ==
  LET head == Put(Text(Body, "text", "subject"), "groups", Body, "section", <<"attachments">>, <<>>)
  IN Put(head, "texts", <<"groups", 1>>, "text", <<"file">>, <<>>)
MailLegs ==
  {[Leg("email", s \o <<Doc(d), Status>>) EXCEPT !.answers = 9, !.markup = m] :
     s \in {<<>>, <<BodyPart("w1"), BodyPart("w2")>>,
            <<BodyPart("w1"), [BodyPart("w2") EXCEPT !.plain = TRUE]>>,
            <<[BodyPart("w1") EXCEPT !.ok = FALSE], BodyPart("w2")>>},
     d \in {Message, Text(Body, "text", "subject")}, m \in BOOLEAN}
  \cup {[Leg("email", <<BodyPart("w1"), BodyPart("w2"), BodyPart("w3"), Doc(Message), Status>>)
           EXCEPT !.answers = 9, !.slow = TRUE]}

-----------------------------------------------------------------------------
(* Storage bodies: a start that is given, then a few constructs of a family. *)

Tag(name, arg) ==
  [type |-> "start", ends |-> "open", node |-> [Root EXCEPT !.name = name, !.arg = arg]]
S(name) == Tag(name, "")
E(name) == [type |-> "end", name |-> name]
T == [type |-> "text", text |-> <<"word">>]
Spaced == [type |-> "text", text |-> <<"sp", "word", "&amp;", "nl">>]
Spanning(rows, cols) == [S("td") EXCEPT !.node.rows = rows, !.node.cols = cols]
Closed(token) == [token EXCEPT !.ends = "self"]

Body1(start, tokens) == [Leg("storage", start) EXCEPT !.tokens = tokens]
Lists == {T, S("ul"), S("li"), S("p"), E("li"), E("ul")}
Cells == {T, S("tr"), S("td"), Spanning(2, 1), Spanning(1, 2), E("tr")}
Macros == {T, Tag("ac:structured-macro", "note"), S("ac:rich-text-body"), E("ac:structured-macro"), S("p")}
Inlines == {Spaced, Tag("a", "u"), E("a"), S("h1"), E("h1"), Closed(S("br"))}
StorageLegs ==
  {Body1(<<>>, {T, S("p"), [type |-> "skipped"], E("p"), [type |-> "cut_comment"],
                [type |-> "cut_cdata", text |-> <<"word">>], [S("p") EXCEPT !.ends = "cut"],
                [S("p") EXCEPT !.ends = "stray"]}),
   Body1(<<T, S("ul"), S("li"), T>>, Lists),
   Body1(<<S("ol"), S("li"), S("p"), S("ul"), S("li")>>, Lists),
   Body1(<<S("table"), S("thead"), S("tr"), S("th"), T, E("thead"), S("tbody")>>, Cells),
   Body1(<<S("table"), S("tr"), Spanning(2, 1), T, E("td"), S("td"), T, E("tr"), S("tr"), S("td"), T>>, Cells),
   Body1(<<S("table"), S("tr"), Spanning(9, 2), T, E("td"), Spanning(1, 9), T, E("td")>>, Cells),
   Body1(<<T, Tag("ac:structured-macro", "info"), S("ac:rich-text-body"), T>>, Macros),
   Body1(<<Tag("ac:structured-macro", "expand"), S("ac:rich-text-body"), T,
           Tag("ac:structured-macro", "info"), S("ac:rich-text-body"), T>>, Macros),
   Body1(<<Tag("ac:structured-macro", "code"), S("ac:parameter"), T, E("ac:parameter"),
           S("ac:plain-text-body"), [type |-> "cdata", text |-> <<"word", "&amp;">>]>>,
         {E("ac:plain-text-body"), E("ac:structured-macro"), T}),
   Body1(<<Tag("ac:structured-macro", "panel"), S("ac:plain-text-body"), T, E("ac:plain-text-body")>>,
         {Tag("ac:structured-macro", ""), E("ac:structured-macro"), T}),
   Body1(<<S("p"), Tag("a", "u")>>, Inlines),
   Body1(<<S("p"), T, S("ac:link"), Closed(Tag("ri:page", "v"))>>,
         {S("ac:link-body"), S("ac:plain-text-link-body"), T, E("ac:link"), E("ac:link-body")}),
   Body1(<<S("ac:task-list"), S("ac:task"), S("ac:task-status"), [type |-> "text", text |-> <<"complete">>],
           E("ac:task-status"), S("ac:task-body"), T, E("ac:task")>>,
         {S("ac:task"), S("ac:task-body"), T, E("ac:task-list")}),
   Body1(<<T, S("ac:image"), Closed(Tag("ri:attachment", "f"))>>, {T, E("ac:image"), S("hr")}),
   Body1(<<S("div"), S("div"), S("div"), S("div"), S("p"), S("p"), S("p")>>, {T, S("em"), E("p"), E("div")})}

MCLegs == PlainLegs \cup HtmlLegs \cup WarcLegs \cup BookLegs \cup MailLegs \cup StorageLegs
MCWords == <<"w1", "w2", "w3", "w4", "w5", "w6", "w7", "w8", "w9", "w10", "w11", "w12", "w13", "w14",
             "w15", "w16">>
MCRuleOrder == <<"j", "p", "q">>
MCClaimRank == [c \in {} |-> 0]
=============================================================================
