--------------------------- MODULE CollectorCalls ---------------------------
(***************************************************************************)
(* One collector leg: the client side of a bidirectional collector stream  *)
(* (collector_support.h and the clients of src/collectors), the fold of    *)
(* what it reads, and for books and messages the second round of calls     *)
(* that parse their parts.  The in-process storage handler is a leg too,   *)
(* with a parser instead of a call.                                        *)
(*                                                                         *)
(* A leg is given by: kind, the number of payload frames, whether it has   *)
(* the options it needs and a markup collector, what the server will say   *)
(* (script, then status), how many answers it owes for each frame it       *)
(* reads, and whether the caller may cancel or the deadline may pass.      *)
(***************************************************************************)
EXTENDS StreamFolds, StorageFold, BookFold

CONSTANTS
  Legs,            \* the legs a run starts from
  StorageMore,     \* constructs a storage body may have past its given start
  Words,           \* the words of a storage body, by the place they are read at
  FrameWindow,     \* request frames the transport holds
  AnswerWindow,    \* responses the transport holds
  Dialers,         \* worker threads of the second round
  BookByteCap      \* kEpubStreamByteCap

\* A script is a sequence of answers; an error says which it is; only the
\* markup collector, a plain leg, promotes a source title.
ASSUME LegAssumption ==
  /\ BookByteCap \in Nat
  /\ \A l \in Legs :
       /\ l.script \in Seq(ToSet(l.script))
       /\ \A i \in DOMAIN l.script : l.script[i].type = "error" => l.script[i].code # "none"
       /\ l.page => l.kind = "plain"

VARIABLES
  leg,       \* the leg, fixed
  upload,    \* the writer thread: frames written, and its state
  net,       \* the call: frames and responses in flight, its final status
  server,    \* external: script left, answers owed, frames read, half-close seen
  inbound,   \* the caller's call: cancelled, and the deadline passed
  reader,    \* the leg's own thread: its phase and what it has read
  fold,      \* the Document being folded, by the fold of the leg's kind
  dial,      \* the second round: next task, workers, slots
  outcome    \* the leg's result

vars == <<leg, upload, net, server, inbound, reader, fold, dial, outcome>>

NoOutcome == [done |-> FALSE, success |-> FALSE, code |-> "none", warnings |-> <<>>]
Failed(code) == [done |-> TRUE, success |-> FALSE, code |-> code, warnings |-> <<>>]
Succeeded(warnings) == [done |-> TRUE, success |-> TRUE, code |-> "OK", warnings |-> warnings]

NewFold(l) == CASE l.kind = "html" -> NewHtmlFold(l.raw)
                [] l.kind = "warc" -> NewWarcFold
                [] l.kind = "storage" -> NewParse
                [] OTHER -> [doc |-> NewDocument]

Init ==
  /\ leg \in Legs
  /\ upload = [sent |-> 0, state |-> "writing"]
  /\ net = [frames |-> 0, half |-> FALSE, answers |-> <<>>, status |-> "open"]
  /\ server = [script |-> leg.script, owed |-> 0, seen |-> FALSE]
  /\ inbound = [cancelled |-> FALSE, late |-> FALSE]
  /\ reader = [phase |-> "start", trailer |-> FALSE, document |-> FALSE, read |-> <<>>,
               chapters |-> <<>>, images |-> <<>>, plain |-> FALSE, bytes |-> 0, over |-> FALSE,
               warnings |-> <<>>, slot |-> 1, gathered |-> <<>>, error |-> "none"]
  /\ fold = NewFold(leg)
  /\ dial = [next |-> 1, tripped |-> FALSE, slots |-> <<>>,
             worker |-> [w \in Dialers |-> [pc |-> "idle", task |-> 0]]]
  /\ outcome = NoOutcome

-----------------------------------------------------------------------------
(* Starting. *)

\* Without the options it needs a leg never dials.
Refuse ==
  /\ reader.phase = "start" /\ ~leg.options
  /\ outcome' = Failed("INVALID_ARGUMENT")
  /\ reader' = [reader EXCEPT !.phase = "done"]
  /\ UNCHANGED <<leg, upload, net, server, inbound, fold, dial>>

Start ==
  /\ reader.phase = "start" /\ leg.options
  /\ reader' = [reader EXCEPT !.phase = IF leg.kind = "storage" THEN "parsing" ELSE "reading"]
  /\ UNCHANGED <<leg, upload, net, server, inbound, fold, dial, outcome>>

Called == reader.phase # "start" /\ leg.kind # "storage" /\ leg.options

-----------------------------------------------------------------------------
(* The writer thread: upload_stream. *)

\* The options frame and then the payload's; a wire whose last frame carries
\* the completion mark sends one even for an empty payload.
FramesOf(l) == 1 + (IF l.always THEN Max({1, l.frames}) ELSE l.frames)

WriteFrame ==
  /\ Called /\ upload.state = "writing" /\ upload.sent < FramesOf(leg)
  /\ net.status = "open" /\ net.frames < FrameWindow
  /\ upload' = [upload EXCEPT !.sent = @ + 1]
  /\ net' = [net EXCEPT !.frames = @ + 1]
  /\ UNCHANGED <<leg, server, inbound, reader, fold, dial, outcome>>

\* A Write on a call that has ended fails and ends the upload.
WriteFails ==
  /\ Called /\ upload.state = "writing" /\ upload.sent < FramesOf(leg) /\ net.status # "open"
  /\ upload' = [upload EXCEPT !.state = "failed"]
  /\ UNCHANGED <<leg, net, server, inbound, reader, fold, dial, outcome>>

HalfClose ==
  /\ Called /\ upload.state = "writing" /\ upload.sent = FramesOf(leg)
  /\ upload' = [upload EXCEPT !.state = "done"]
  /\ net' = [net EXCEPT !.half = TRUE]
  /\ UNCHANGED <<leg, server, inbound, reader, fold, dial, outcome>>

-----------------------------------------------------------------------------
(* The server, modelled by how the clients use it: it owes answers for what *)
(* it reads and reads no further while they do not fit.                     *)

ServerReads ==
  /\ net.status = "open" /\ net.frames > 0 /\ server.owed = 0
  /\ net' = [net EXCEPT !.frames = @ - 1]
  /\ server' = [server EXCEPT !.owed = Min({leg.answers, Len(server.script)})]
  /\ UNCHANGED <<leg, upload, inbound, reader, fold, dial, outcome>>

ServerSeesEnd ==
  /\ net.status = "open" /\ net.frames = 0 /\ net.half /\ ~server.seen
  /\ server' = [server EXCEPT !.seen = TRUE]
  /\ UNCHANGED <<leg, upload, net, inbound, reader, fold, dial, outcome>>

ServerAnswers ==
  /\ net.status = "open" /\ server.script # <<>> /\ (server.owed > 0 \/ server.seen)
  /\ Len(net.answers) < AnswerWindow
  /\ net' = [net EXCEPT !.answers = Append(@, Head(server.script))]
  /\ server' = [server EXCEPT !.script = Tail(@), !.owed = IF @ > 0 THEN @ - 1 ELSE 0]
  /\ UNCHANGED <<leg, upload, inbound, reader, fold, dial, outcome>>

ServerEnds ==
  /\ Called /\ net.status = "open" /\ leg.status # "silent" /\ server.script = <<>>
  /\ server.seen \/ leg.status # "OK"
  /\ net' = [net EXCEPT !.status = leg.status]
  /\ UNCHANGED <<leg, upload, server, inbound, reader, fold, dial, outcome>>

-----------------------------------------------------------------------------
(* The caller and the clock. *)

CallerCancels ==
  /\ leg.cancellable /\ ~inbound.cancelled /\ ~outcome.done
  /\ inbound' = [inbound EXCEPT !.cancelled = TRUE]
  /\ UNCHANGED <<leg, upload, net, server, reader, fold, dial, outcome>>

DeadlinePasses ==
  /\ leg.slow /\ ~inbound.late /\ ~outcome.done
  /\ inbound' = [inbound EXCEPT !.late = TRUE]
  /\ UNCHANGED <<leg, upload, net, server, reader, fold, dial, outcome>>

\* A call that is cut ends at once; answers in flight may or may not arrive.
EndCall(status) ==
  \E kept \in BOOLEAN :
    net' = [net EXCEPT !.status = status, !.answers = IF kept THEN @ ELSE <<>>]

\* CancelWatch polls the caller's hook and cancels the call.
WatchCancels ==
  /\ reader.phase \in {"reading", "joining"} /\ inbound.cancelled /\ net.status = "open"
  /\ EndCall("CANCELLED")
  /\ UNCHANGED <<leg, upload, server, inbound, reader, fold, dial, outcome>>

DeadlineEnds ==
  /\ reader.phase \in {"reading", "joining"} /\ inbound.late /\ net.status = "open"
  /\ EndCall("DEADLINE_EXCEEDED")
  /\ UNCHANGED <<leg, upload, server, inbound, reader, fold, dial, outcome>>

-----------------------------------------------------------------------------
(* Reading. *)

\* Bug: nothing is read before the upload is over.
CanReadAfterUpload ==
  reader.phase = "reading" /\ net.answers # <<>> /\ upload.state # "writing"
\* Answers are read while the writer thread still writes.
CanRead == reader.phase = "reading" /\ net.answers # <<>>
Rest == [net EXCEPT !.answers = Tail(@)]

\* drain_stream: the document, the terminal status, and typed events dropped,
\* except the bodies of a message.
Drained(e) ==
  CASE e.type = "document" -> [reader EXCEPT !.document = TRUE]
    [] e.type = "status" -> [reader EXCEPT !.trailer = TRUE]
    [] e.type = "body_part" /\ leg.kind = "email" ->
         IF e.plain THEN [reader EXCEPT !.plain = TRUE]
         ELSE [reader EXCEPT !.chapters = Append(@, e)]
    [] OTHER -> reader

ReadPlain ==
  /\ leg.kind \in {"plain", "email"} /\ CanRead
  /\ \E e \in {Head(net.answers)} :
       /\ reader' = Drained(e)
       /\ fold' = IF e.type = "document" THEN [fold EXCEPT !.doc = e.doc] ELSE fold
  /\ net' = Rest
  /\ UNCHANGED <<leg, upload, server, inbound, dial, outcome>>

\* A chapter or an image is kept while all that is kept stays within the cap.
KeepsWithin(e) == ~reader.over /\ reader.bytes + e.size <= BookByteCap

\* A part of a book: a chapter, or an image with something in it.
BookPart(e) == e.type = "chapter" \/ (e.type = "resource" /\ e.image /\ e.size > 0)
PassesCap(e) == BookPart(e) /\ ~reader.over /\ ~KeepsWithin(e)

ReadOfBook(e) ==
  LET sized == [reader EXCEPT !.bytes = @ + e.size]
  IN CASE e.type = "document" -> [reader EXCEPT !.document = TRUE]
       [] e.type = "status" -> [reader EXCEPT !.trailer = TRUE]
       [] PassesCap(e) -> [sized EXCEPT !.over = TRUE]
       [] e.type = "chapter" /\ KeepsWithin(e) -> [sized EXCEPT !.chapters = Append(@, e)]
       [] e.type = "resource" /\ BookPart(e) /\ KeepsWithin(e) ->
            [sized EXCEPT !.images = Append(@, e)]
       [] OTHER -> reader

\* The book's stream; the part that passes the cap cancels the call.
ReadBook ==
  /\ leg.kind = "epub" /\ CanRead
  /\ \E e \in {Head(net.answers)} :
       /\ reader' = ReadOfBook(e)
       /\ fold' = IF e.type = "document" THEN [fold EXCEPT !.doc = e.doc] ELSE fold
       /\ IF PassesCap(e) /\ net.status = "open"
          THEN \E kept \in BOOLEAN :
                 net' = [Rest EXCEPT !.status = "CANCELLED", !.answers = IF kept THEN @ ELSE <<>>]
          ELSE net' = Rest
  /\ UNCHANGED <<leg, upload, server, inbound, dial, outcome>>

\* The run's own report of what it left out.
NoteFinished(r, e) == [r EXCEPT !.trailer = TRUE, !.warnings = @ \o e.warnings]

Noted(e) ==
  CASE e.type = "finished" -> NoteFinished(reader, e)
    [] e.type = "error" -> [reader EXCEPT !.error = e.code]
    [] OTHER -> reader

\* The terminal events of the match stream are its own: finished, or an
\* error the call itself does not report.
ReadHtml ==
  /\ leg.kind = "html" /\ CanRead
  /\ \E e \in {Head(net.answers)} :
       /\ fold' = HtmlEvent(fold, e)
       /\ reader' = [Noted(e) EXCEPT !.read = Append(@, e)]
  /\ net' = Rest
  /\ UNCHANGED <<leg, upload, server, inbound, dial, outcome>>

ReadWarc ==
  /\ leg.kind = "warc" /\ CanRead
  /\ \E e \in {Head(net.answers)} :
       /\ fold' = WarcEvent(fold, e)
       /\ reader' = [reader EXCEPT !.read = Append(@, e)]
  /\ net' = Rest
  /\ UNCHANGED <<leg, upload, server, inbound, dial, outcome>>

\* What closes the fold once nothing more will come.
CloseFold(f) == IF leg.kind = "warc" THEN CloseWarc(f) ELSE f

NoneLeft ==
  /\ reader.phase = "reading" /\ net.answers = <<>> /\ net.status # "open"
  /\ reader' = [reader EXCEPT !.phase = "joining"]
ReadsEnd ==
  /\ NoneLeft
  /\ fold' = CloseFold(fold)
  /\ UNCHANGED <<leg, upload, net, server, inbound, dial, outcome>>

-----------------------------------------------------------------------------
(* Finishing: the writer is joined, then the call's status is read. *)

MapCode(code) ==
  IF code \in {"INVALID_ARGUMENT", "RESOURCE_EXHAUSTED", "DEADLINE_EXCEEDED", "UNIMPLEMENTED"}
  THEN code ELSE "UNAVAILABLE"

\* The trailer and the document are both required of a healthy stream.
FinishOutcome(status) ==
  IF status # "OK" THEN Failed(MapCode(status))
  ELSE IF reader.trailer /\ reader.document THEN Succeeded(reader.warnings)
  ELSE Failed("UNAVAILABLE")

\* The call itself ended well: the outcome has a code of its own.
NoteError(code) == Failed(IF code = "memory" THEN "RESOURCE_EXHAUSTED" ELSE "INVALID_ARGUMENT")

HtmlOutcome(status) ==
  IF status # "OK" THEN Failed(MapCode(status))
  ELSE IF reader.error # "none" THEN NoteError(reader.error)
  ELSE IF reader.trailer THEN Succeeded(reader.warnings \o fold.warnings)
  ELSE Failed("UNAVAILABLE")

\* Records survive a failing stream, not a deadline or a cancellation.
WarcOutcome(status) ==
  IF status = "OK" THEN Succeeded(fold.warnings)
  ELSE IF Records(fold) = 0 \/ status \in {"DEADLINE_EXCEEDED", "CANCELLED"}
  THEN Failed(MapCode(status))
  ELSE Succeeded(Append(fold.warnings, "stream failed"))

CallOutcome(status) ==
  CASE leg.kind = "html" -> HtmlOutcome(status)
    [] leg.kind = "warc" -> WarcOutcome(status)
    [] leg.kind = "epub" /\ reader.over -> Failed("RESOURCE_EXHAUSTED")
    [] OTHER -> FinishOutcome(status)

\* Books always, and messages without a plain body, have parts to parse.
HasParts == leg.kind = "epub" \/ (leg.kind = "email" /\ ~reader.plain /\ reader.chapters # <<>>)

\* Bug: the status is read while the writer may still write.
JoinedUnchecked == reader.phase = "joining"
Joined == reader.phase = "joining" /\ upload.state # "writing"

Finish ==
  /\ Joined
  /\ \E result \in {CallOutcome(net.status)} :
       /\ IF result.success /\ HasParts /\ leg.markup
          THEN /\ outcome' = outcome
               /\ reader' = [reader EXCEPT !.phase = "dialing"]
               /\ dial' = [dial EXCEPT !.slots = [i \in DOMAIN reader.chapters |-> "none"]]
          ELSE /\ outcome' = IF result.success /\ HasParts
                             THEN Succeeded(Append(result.warnings, <<"markup not configured">>))
                             ELSE result
               /\ reader' = [reader EXCEPT !.phase = "done"]
               /\ dial' = dial
       /\ fold' = IF result.success /\ leg.page THEN [fold EXCEPT !.doc = PromoteSourceTitle(@)]
                  ELSE fold
  /\ UNCHANGED <<leg, upload, net, server, inbound>>

-----------------------------------------------------------------------------
(* The second round: workers share one task counter and one ceiling. *)

Tasks == SetToSortSeq({i \in DOMAIN reader.chapters : reader.chapters[i].media = "html"}, <)
Late == inbound.cancelled \/ inbound.late

FetchTask(w) ==
  /\ reader.phase = "dialing" /\ dial.worker[w].pc = "idle"
  /\ dial' = IF dial.next > Len(Tasks) THEN [dial EXCEPT !.worker[w].pc = "out"]
             ELSE [dial EXCEPT !.next = @ + 1,
                     !.worker[w] = [pc |-> "check", task |-> Tasks[dial.next]]]
  /\ UNCHANGED <<leg, upload, net, server, inbound, reader, fold, outcome>>

\* Once one task was too late every later one is.
CheckTask(w) ==
  /\ dial.worker[w].pc = "check"
  /\ dial' = IF dial.tripped \/ Late
             THEN [dial EXCEPT !.tripped = TRUE, !.worker[w].pc = "idle",
                               !.slots[dial.worker[w].task] = "skipped"]
             ELSE [dial EXCEPT !.worker[w].pc = "dialing"]
  /\ UNCHANGED <<leg, upload, net, server, inbound, reader, fold, outcome>>

\* collect_markup_document on the part, a leg of its own.
DialPart(w) ==
  /\ dial.worker[w].pc = "dialing"
  /\ \E ok \in {reader.chapters[dial.worker[w].task].ok} \cup (IF Late THEN {FALSE} ELSE {}) :
       dial' = [dial EXCEPT !.worker[w].pc = "idle",
                            !.slots[dial.worker[w].task] = IF ok THEN "parsed" ELSE "failed"]
  /\ UNCHANGED <<leg, upload, net, server, inbound, reader, fold, outcome>>

GatherBegins ==
  /\ reader.phase = "dialing" /\ \A w \in Dialers : dial.worker[w].pc = "out"
  /\ reader' = [reader EXCEPT !.phase = "gathering"]
  /\ UNCHANGED <<leg, upload, net, server, inbound, fold, dial, outcome>>

InGather == reader.phase = "gathering" /\ reader.slot <= Len(reader.chapters)
Told(r, what) == [r EXCEPT !.warnings = Append(@, <<what, reader.slot>>), !.slot = @ + 1]
\* The rest is left out, and said to be.
CutOff == [reader EXCEPT !.warnings = Append(@, <<"not parsed", reader.slot>>),
                         !.slot = Len(reader.chapters) + 1]

\* One chapter of the spine, in order.
NextChapter ==
  /\ leg.kind = "epub" /\ InGather
  /\ \E e \in {reader.chapters[reader.slot]}, slot \in {dial.slots[reader.slot]} :
       LET kept(doc) == [reader EXCEPT !.slot = @ + 1,
                           !.gathered = Append(@, [href |-> e.href, doc |-> doc])]
           carried == \E i \in DOMAIN reader.images : reader.images[i].href = e.href
       IN reader' =
            CASE slot = "skipped" \/ (slot = "none" /\ Late) -> CutOff
              [] e.media = "image" ->
                   [kept(ImageChapterDocument(e.href)) EXCEPT
                      !.images = IF carried \/ e.size = 0 THEN @ ELSE Append(@, e)]
              [] e.media = "other" -> Told(reader, "not XHTML")
              [] slot = "failed" -> Told(reader, "could not be parsed")
              [] OTHER -> kept(e.doc)
GatherChapter == NextChapter /\ UNCHANGED <<leg, upload, net, server, inbound, fold, dial, outcome>>

\* One HTML body, in MIME order.
NextBody ==
  /\ leg.kind = "email" /\ InGather
  /\ \E slot \in {dial.slots[reader.slot]} :
       reader' = CASE slot = "skipped" -> CutOff
                   [] slot = "failed" -> Told(reader, "could not be parsed")
                   [] OTHER -> [reader EXCEPT !.slot = @ + 1]
GatherBody ==
  /\ NextBody
  /\ fold' = IF dial.slots[reader.slot] = "parsed"
             THEN [fold EXCEPT !.doc = FoldBody(@, reader.chapters[reader.slot].doc)] ELSE fold
  /\ UNCHANGED <<leg, upload, net, server, inbound, dial, outcome>>

AllGathered ==
  /\ reader.phase = "gathering" /\ reader.slot > Len(reader.chapters)
  /\ reader' = [reader EXCEPT !.phase = "done"]
GatherEnds ==
  /\ AllGathered
  /\ \E book \in {IF leg.kind = "epub"
                  THEN FoldEpubBook(fold.doc, reader.gathered, reader.images, reader.warnings)
                  ELSE [book |-> fold.doc, warnings |-> reader.warnings]} :
       /\ fold' = [fold EXCEPT !.doc = book.book]
       /\ outcome' = Succeeded(book.warnings)
  /\ UNCHANGED <<leg, upload, net, server, inbound, dial>>

-----------------------------------------------------------------------------
(* The storage handler. *)

\* Text is told apart by its place in the body.
Fresh(token) ==
  IF token.type \notin {"text", "cdata", "cut_cdata"} THEN token
  ELSE [token EXCEPT !.text = AsTuple([i \in DOMAIN @ |->
          IF @[i] = "word" THEN Words[Len(fold.nodes)] ELSE @[i]])]

ParseConstruct ==
  /\ reader.phase = "parsing" /\ ~fold.ended
  /\ \E token \in IF server.script # <<>> THEN {Head(server.script)}
                  ELSE IF reader.slot <= StorageMore THEN leg.tokens ELSE {} :
       fold' = ReadConstruct(fold, Fresh(token))
  /\ server' = [server EXCEPT !.script = IF @ = <<>> THEN @ ELSE Tail(@)]
  /\ reader' = [reader EXCEPT !.slot = IF server.script = <<>> THEN @ + 1 ELSE @]
  /\ UNCHANGED <<leg, upload, net, inbound, dial, outcome>>

\* A body that held no markup is refused; an element left open is reported.
ParseEnds ==
  /\ reader.phase = "parsing" /\ (server.script = <<>> \/ fold.ended)
  /\ \E p \in {IF Len(fold.path) > 1 THEN WarnStorage(fold, "left open") ELSE fold} :
       IF p.saw THEN /\ fold' = NewStorageFold(p)
                     /\ reader' = [reader EXCEPT !.phase = "folding"]
                     /\ outcome' = outcome
       ELSE /\ fold' = fold
            /\ reader' = [reader EXCEPT !.phase = "done"]
            /\ outcome' = Failed("INVALID_ARGUMENT")
  /\ UNCHANGED <<leg, upload, net, server, inbound, dial>>

Folding(mode) ==
  reader.phase = "folding" /\ fold.work # <<>> /\ Top(fold).mode = mode /\ Top(fold).todo # <<>>

FoldBlock == Folding("blocks") /\ fold' = BlocksChild(fold)
             /\ UNCHANGED <<leg, upload, net, server, inbound, reader, dial, outcome>>
FoldList == Folding("list") /\ fold' = ListChild(fold)
            /\ UNCHANGED <<leg, upload, net, server, inbound, reader, dial, outcome>>
FoldItemBlock == Folding("emit") /\ fold' = EmitChild(fold)
                 /\ UNCHANGED <<leg, upload, net, server, inbound, reader, dial, outcome>>
FoldMacro == Folding("macro") /\ fold' = MacroChild(fold)
             /\ UNCHANGED <<leg, upload, net, server, inbound, reader, dial, outcome>>

FoldPops ==
  /\ reader.phase = "folding" /\ fold.work # <<>> /\ Top(fold).todo = <<>>
  /\ fold' = PopFrame(fold)
  /\ UNCHANGED <<leg, upload, net, server, inbound, reader, dial, outcome>>

FoldEnds ==
  /\ reader.phase = "folding" /\ fold.work = <<>>
  /\ outcome' = Succeeded(IF fold.emitted = 0 THEN Append(fold.warnings, "no content")
                          ELSE fold.warnings)
  /\ reader' = [reader EXCEPT !.phase = "done"]
  /\ UNCHANGED <<leg, upload, net, server, inbound, fold, dial>>

-----------------------------------------------------------------------------

Next ==
  \/ Refuse \/ Start
  \/ WriteFrame \/ WriteFails \/ HalfClose
  \/ ServerReads \/ ServerSeesEnd \/ ServerAnswers \/ ServerEnds
  \/ CallerCancels \/ DeadlinePasses \/ WatchCancels \/ DeadlineEnds
  \/ ReadPlain \/ ReadBook \/ ReadHtml \/ ReadWarc \/ ReadsEnd \/ Finish
  \/ \E w \in Dialers : FetchTask(w) \/ CheckTask(w) \/ DialPart(w)
  \/ GatherBegins \/ GatherChapter \/ GatherBody \/ GatherEnds
  \/ ParseConstruct \/ ParseEnds \/ FoldBlock \/ FoldList \/ FoldItemBlock \/ FoldMacro
  \/ FoldPops \/ FoldEnds

WriterStep == WriteFrame \/ WriteFails \/ HalfClose
ServerStep == ServerReads \/ ServerSeesEnd \/ ServerAnswers \/ ServerEnds
CutStep == WatchCancels \/ DeadlineEnds
\* What the leg's own thread does next, to its own state and to the call.
ReaderTurn ==
  \/ Refuse \/ Start \/ NoneLeft \/ GatherBegins \/ NextChapter \/ NextBody \/ AllGathered
  \/ Joined /\ \E next \in {"dialing", "done"} : reader' = [reader EXCEPT !.phase = next]
TakesAnswer ==
  CanRead /\ \E status \in {net.status, "CANCELLED"}, rest \in {<<>>, Tail(net.answers)} :
               net' = [net EXCEPT !.status = status, !.answers = rest]
DialStep(w) == FetchTask(w) \/ CheckTask(w) \/ DialPart(w)

Spec == Init /\ [][Next]_vars

\* Every thread of the leg runs, the watch polls and the clock advances; the
\* server does what it can (a silent one can do nothing).  The caller need
\* not cancel.
FairSpec ==
  /\ Spec
  /\ WF_vars(WriterStep) /\ WF_vars(ServerStep) /\ WF_vars(CutStep) /\ WF_vars(DeadlinePasses)
  /\ WF_reader(ReaderTurn) /\ WF_net(TakesAnswer) /\ \A w \in Dialers : WF_vars(DialStep(w))

-----------------------------------------------------------------------------
(* What the leg promises. *)

\* A call's leg ends, whatever the transport can hold: the writer thread and the
\* reads of one call never wait for each other in a circle (upload_stream is
\* a thread of its own for that), a silent server ends at the deadline, and
\* the workers of the second round all come back.
LegEnds == leg.kind # "storage" => <>outcome.done

Sent(type) == \E i \in DOMAIN leg.script : leg.script[i].type = type
\* The script says the work is complete.
Complete ==
  CASE leg.kind = "html" -> Sent("finished") /\ ~Sent("error")
    [] leg.kind = "warc" -> TRUE
    [] OTHER -> Sent("document") /\ Sent("status")
Remote == leg.kind # "storage" /\ leg.options

\* The outcome says what happened on the wire.  It is written after the
\* writer thread is gone; a success has read a complete stream to its end,
\* and neither a cancelled call nor one past its deadline is a success; a
\* complete stream with an OK status is never reported as a failure, unless
\* the book was over its cap.
OutcomeTruthful ==
  (outcome.done /\ Remote) =>
    /\ upload.state # "writing"
    /\ outcome.success =>
         /\ net.status \notin {"open", "CANCELLED", "DEADLINE_EXCEEDED"}
         /\ Complete /\ server.script = <<>> /\ net.answers = <<>>
         /\ net.status = "OK" \/ (leg.kind = "warc" /\ Records(fold) # 0)
         /\ reader.bytes <= BookByteCap
    /\ (net.status = "OK" /\ Complete /\ ~reader.over) => outcome.success

-----------------------------------------------------------------------------
(* The match stream. *)

\* References are compared with their halves apart again.
Encoded(text) ==
  FlattenSeq(AsTuple([i \in DOMAIN text |-> IF text[i] = "&" THEN <<"amp1", "amp2">> ELSE <<text[i]>>]))
Matches == {i \in DOMAIN reader.read : reader.read[i].type = "element" /\ reader.read[i].ord # 0}
\* The match an end tag names, and how deep in its rule it was.
DepthOf(rule, ord) ==
  reader.read[CHOOSE i \in Matches : reader.read[i].rule = rule /\ reader.read[i].ord = ord].open
\* The events that end match m: no content, a match of its rule no deeper,
\* the end tag of a match that holds it, or the end of the page.
EndsMatch(i, m) ==
  LET x == reader.read[i]
      e == reader.read[m]
  IN \/ x.type \in {"finished", "error"}
     \/ x.type \in {"element", "end_tag"} /\ x.rule = e.rule /\ x.ord # 0
        /\ (IF i \in Matches THEN x.open ELSE DepthOf(x.rule, x.ord)) <= e.open
EndOf(m) ==
  LET e == reader.read[m]
      ends == {i \in (m + 1)..Len(reader.read) : EndsMatch(i, m)}
  IN IF (e.ns = "html" /\ e.tag \in VoidTags) \/ ~e.content THEN m
     ELSE IF ends = {} THEN Len(reader.read) + 1 ELSE Min(ends)
TextOf(i) == Encoded(reader.read[i].text)
TextsOf(m) ==
  LET own == {i \in (m + 1)..(EndOf(m) - 1) :
                reader.read[i].type = "text" /\ reader.read[i].ord = reader.read[m].ord
                /\ reader.read[i].rule = reader.read[m].rule}
  IN FlattenSeq(AsTuple([j \in 1..Cardinality(own) |-> TextOf(SetToSortSeq(own, <)[j])]))
InstanceOf(m) == fold.inst[<<reader.read[m].rule, reader.read[m].ord>>]

\* A match's item holds the text that arrived while it was open, in order,
\* with every reference whole; its alternative text only when there is none.
MatchTextKept(m) ==
  LET i == InstanceOf(m)
      text == fold.doc.texts[i.item[2]].text
  IN /\ fold.limited
        \/ Encoded(text) \o i.raw = (IF TextsOf(m) = <<>> /\ i.closed THEN i.fallback ELSE TextsOf(m))
     /\ i.closed = (EndOf(m) <= Len(reader.read))
     /\ (fold.raw /\ i.tag # "script") => ~\E j \in 1..(Len(text) - 1) : text[j] = "amp1" /\ text[j + 1] = "amp2"
     /\ (i.closed /\ i.href # <<>>) =>
          \E s \in ToSet(fold.doc.texts[i.item[2]].spans) :
            s.start = 0 /\ s.end = Len(text) /\ s.href = i.href

\* The transcript of a rule is what its unidentified events said, in order.
Line(e) ==
  CASE e.type = "element" -> PseudoTag(e).text
    [] e.type = "text" -> IF e.also THEN <<>> ELSE Encoded(e.text)
    [] e.type = "end_tag" -> <<"end">>
    [] OTHER -> <<e.type>>
Transcript(rule) ==
  LET lines == SelectSeq(reader.read, LAMBDA e :
        e.type \in {"element", "text", "comment", "doctype", "end_tag"} /\ e.rule = rule /\ e.ord = 0)
  IN FlattenSeq(AsTuple([i \in DOMAIN lines |-> Line(lines[i])]))
RuleTexts(rule) ==
  LET kids == IF rule \notin DOMAIN fold.groups THEN <<>>
              ELSE SelectSeq(At(fold.doc, fold.groups[rule]).children, LAMBDA r : r[1] = "texts")
  IN FlattenSeq(AsTuple([i \in DOMAIN kids |-> Encoded(At(fold.doc, kids[i]).text)]))
Pending(rule) == IF rule \in DOMAIN fold.pending THEN fold.pending[rule].raw ELSE <<>>

\* What the text budget is charged for: pending text and text in items.
Held ==
  LET own(k) == LET i == fold.inst[k]
                    text == fold.doc.texts[i.item[2]].text
                IN Len(i.raw) + (IF i.closed /\ text = i.fallback THEN 0 ELSE Len(text))
  IN FoldFunction(LAMBDA a, b : a + b, 0, [k \in DOMAIN fold.inst |-> own(k)])
     + FoldFunction(LAMBDA a, b : a + b, 0, [r \in DOMAIN fold.pending |-> Len(Pending(r))])

\* The lol-html fold keeps the page: each match its own text, each rule its
\* transcript, every link over exactly the words it is written on, one title,
\* and a budget that always equals the text held.
HtmlKept ==
  leg.kind = "html" =>
    /\ \A m \in Matches : MatchTextKept(m)
    /\ \A rule \in ToSet(RuleOrder) :
         fold.limited \/ RuleTexts(rule) \o Pending(rule) = Transcript(rule)
    /\ \A t \in ToSet(fold.doc.texts) : \A s \in ToSet(t.spans) :
         s.href = SubSeq(t.text, s.start + 1, s.end) \/ (s.start = 0 /\ s.end = Len(t.text))
    /\ fold.used = Held /\ fold.used <= TextLimit
    /\ \A i, j \in DOMAIN fold.tags :
         (fold.tags[i][1] = <<"title">> /\ fold.tags[j][1] = <<"title">>) => i = j

-----------------------------------------------------------------------------
(* The archive stream. *)

Wire ==
  FlattenSeq(AsTuple([i \in DOMAIN reader.read |->
    IF reader.read[i].type = "batch" THEN reader.read[i].items ELSE <<reader.read[i]>>]))
\* The record that starts at item i: what came for it, and the length it has
\* (its end says it; a record without an end has the length it announced).
RecordAt(wire, i) ==
  LET stops == {j \in (i + 1)..Len(wire) : wire[j].type \in {"record_start", "record_end"}}
      stop == IF stops = {} THEN Len(wire) + 1 ELSE Min(stops)
      parts == SelectSeq(SubSeq(wire, i + 1, stop - 1), LAMBDA e : e.type = "payload_chunk")
      ended == stop <= Len(wire) /\ wire[stop].type = "record_end"
  IN [meta |-> wire[i].meta,
      length |-> IF ended THEN wire[stop].length ELSE wire[i].meta.length,
      folded |-> stop <= Len(wire) \/ reader.phase # "reading",
      data |-> FlattenSeq(AsTuple([j \in DOMAIN parts |-> parts[j].data]))]
RecordsOf(wire) ==
  LET starts == SetToSortSeq({i \in DOMAIN wire : wire[i].type = "record_start"}, <)
  IN SelectSeq(AsTuple([i \in DOMAIN starts |-> RecordAt(wire, starts[i])]), LAMBDA r : r.folded)

\* A payload that is text is shown from its first byte up to the limit; what
\* is cut off is said to be, and good UTF-8 never shows a replaced character.
PayloadShown(text, r) ==
  LET cut == r.length > Len(r.data) \/ Len(r.data) > PayloadLimit
      shown == IF cut THEN Front(text) ELSE text
      given == SubSeq(r.data, 1, Min({PayloadLimit, Len(r.data)}))
  IN /\ cut => Last(text) = "truncated"
     /\ ValidUtf8(r.data) => \/ shown = given
                             \/ cut /\ shown = Front(given) /\ Last(given) = "lead"
     /\ Len(shown) >= Len(given) - 1

\* The web archive keeps its records: one group each, in the order they
\* arrived, a record whose end was lost or that the stream was cut in among
\* them, each with its own payload; and the document's web facts are those of
\* the first response that names a target, whatever came before it.
ArchiveKept ==
  leg.kind = "warc" =>
    LET records == RecordsOf(Wire)
        aimed(from) == SelectSeq(from, LAMBDA r : r.meta.target # "")
        responses == aimed(SelectSeq(records, LAMBDA r : r.meta.response))
        web == IF responses # <<>> THEN responses ELSE aimed(records)
    IN /\ Len(fold.doc.groups) = Len(records)
       /\ \A i \in DOMAIN records :
            LET group == fold.doc.groups[i]
                shows == records[i].meta.textual /\ records[i].length > 0
            IN /\ group.text = <<records[i].meta.pos>> /\ fold.doc.body[i] = group.self
               /\ Len(group.children) = IF shows THEN 2 ELSE 1
               /\ shows => PayloadShown(At(fold.doc, group.children[2]).text, records[i])
       /\ fold.web = IF web = <<>> THEN "" ELSE web[1].meta.target

-----------------------------------------------------------------------------
(* The storage page. *)

ParentOf(nodes, n) == CHOOSE p \in DOMAIN nodes : n \in ToSet(nodes[p].kids)
\* The nodes from the root down to n.
PathTo(nodes, n) ==
  LET path[k \in DOMAIN nodes] == IF k = 1 THEN <<1>> ELSE Append(path[ParentOf(nodes, k)], k)
  IN path[n]
NamesOn(nodes, path) == {nodes[path[i]].name : i \in DOMAIN path}

\* The places whose text the fold is known to leave out: outside a cell of a
\* table, beside the bodies of a macro, a task or a link, inside an image.
LeftOut(nodes, path) ==
  \E i \in 1..(Len(path) - 1) :
    LET a == path[i]
        child == path[i + 1]
        name == nodes[a].name
        rows == {j \in (i + 1)..Len(path) : nodes[path[j]].name = "tr"}
        first(k) == Children(nodes, a, k) # <<>> /\ Children(nodes, a, k)[1] = child
    IN CASE name = "table" -> \/ rows = {} \/ Min(rows) = Len(path)
                              \/ nodes[path[Min(rows) + 1]].name \notin {"td", "th"}
         [] name = "ac:structured-macro" ->
              IF nodes[a].arg = "code" THEN ~first("ac:plain-text-body")
              ELSE nodes[child].name \notin {"ac:rich-text-body", "ac:plain-text-body"}
         [] name = "ac:task-list" -> nodes[child].name # "ac:task"
         [] name = "ac:task" -> ~first("ac:task-body")
         [] name = "ac:link" -> IF Children(nodes, a, "ac:plain-text-link-body") # <<>>
                                THEN ~first("ac:plain-text-link-body") ELSE ~first("ac:link-body")
         [] name = "ac:image" -> TRUE
         [] OTHER -> FALSE

\* The document's words in reading order, each with the item it is in.
ItemWords(item) ==
  LET text == IF item.label # "table" THEN item.text
              ELSE FlattenSeq(AsTuple([i \in DOMAIN item.text.cells |-> item.text.cells[i].text]))
      words == SelectSeq(text, LAMBDA t : t \in ToSet(Words))
  IN AsTuple([i \in DOMAIN words |-> [word |-> words[i], item |-> item.self]])
Reading(doc) ==
  LET read[r \in Slots(doc)] ==
        (IF r[1] \in {"groups", "pictures"} THEN <<>> ELSE ItemWords(At(doc, r)))
          \o FlattenSeq(AsTuple([i \in DOMAIN At(doc, r).children |-> read[At(doc, r).children[i]]]))
  IN FlattenSeq(AsTuple([i \in DOMAIN doc.body |-> read[doc.body[i]]]))

\* A table's cells lie in it, no cell starts on a slot another one covers,
\* and the grid shows each cell where it starts.
GridHolds(table) ==
  \A i \in DOMAIN table.cells :
    LET c == table.cells[i]
        slots == CellSlots(c.row, c.col, c.rows, c.cols)
    IN /\ c.rows > 0 /\ c.cols > 0 /\ c.row + c.rows <= table.rows /\ c.col + c.cols <= table.cols
       /\ \A j \in 1..(i - 1) : <<c.row, c.col>> \notin
            CellSlots(table.cells[j].row, table.cells[j].col, table.cells[j].rows, table.cells[j].cols)
       /\ table.grid # <<>> => table.grid[<<c.row, c.col>>] = i

InlineNames == {"h1", "h2", "td", "th", "ac:task-body", "a", "ac:link"}
\* The macros around a node, the outermost first, as its items are stamped.
StampsOn(nodes, n) ==
  LET path == PathTo(nodes, n)
      around == SelectSeq(path, LAMBDA p : /\ nodes[p].name = "ac:structured-macro"
                                           /\ nodes[p].arg \notin {"", "code"})
  IN AsTuple([i \in DOMAIN around |-> Stamp(nodes[around[i]].arg)])

\* A text item of the storage page: its links cover the words written in
\* them, and it names, of the panels it stands in, the innermost, and of the
\* other macros the innermost.
ItemFaithful(nodes, item, at) ==
  LET spans == item.spans
      where == {i \in DOMAIN item.text : item.text[i] \in DOMAIN at}
      path(i) == PathTo(nodes, at[item.text[i]])
      linked(i) == {p \in ToSet(path(i)) : nodes[p].name = "a" /\ nodes[p].arg # "" /\ p \notin Blocks(nodes)}
      stamps(i) == StampsOn(nodes, at[item.text[i]])
      innermost(i) ==
        {Last(SelectSeq(stamps(i), LAMBDA s : s.key = k)) : k \in {s.key : s \in ToSet(stamps(i))}}
  IN \A i \in where :
       /\ \A s \in DOMAIN spans : (spans[s].start < i /\ i <= spans[s].end) =>
            \E p \in ToSet(path(i)) : nodes[p].name \in {"a", "ac:link"}
       /\ (linked(i) # {} /\ item.label # "code") =>
            \E s \in DOMAIN spans : /\ spans[s].start < i /\ i <= spans[s].end
                                     /\ \E p \in linked(i) : spans[s].href = nodes[p].arg
       /\ item.sources \subseteq ToSet(stamps(i))
       /\ NamesOn(nodes, path(i)) \cap InlineNames = {} => item.sources = innermost(i)

\* The storage fold keeps the page: a word of the body is in the Document
\* once, or stands in a place the fold is known to leave out, or its cell was
\* cut off by the ceiling, which is reported; words keep their order, except
\* that a list item's own text comes before its blocks; links, macro stamps
\* and table grids are those of the body, however damaged its markup is.
StorageKept ==
  (leg.kind = "storage" /\ outcome.success) =>
    LET nodes == fold.nodes
        texts == {n \in DOMAIN nodes : nodes[n].name = "#text"
                                       /\ ToSet(nodes[n].text) \cap ToSet(Words) # {}}
        at == [w \in UNION {ToSet(nodes[n].text) \cap ToSet(Words) : n \in texts} |->
                 CHOOSE n \in texts : w \in ToSet(nodes[n].text)]
        reading == Reading(fold.doc)
        clamped == "clamped" \in ToSet(fold.warnings)
        items(n) == {p \in ToSet(PathTo(nodes, n)) : nodes[p].name = "li"}
    IN /\ \A w \in DOMAIN at :
            LET shown == {i \in DOMAIN reading : reading[i].word = w}
                path == PathTo(nodes, at[w])
            IN /\ Cardinality(shown) <= 1
               /\ shown = {} => \/ LeftOut(nodes, path)
                                \/ clamped /\ "table" \in NamesOn(nodes, path)
       /\ \A i, j \in DOMAIN reading :
            (i < j /\ items(at[reading[i].word]) \cap items(at[reading[j].word]) = {}) =>
              at[reading[i].word] <= at[reading[j].word]
       /\ \A t \in ToSet(fold.doc.tables) : GridHolds(t.text)
       /\ \A t \in ToSet(fold.doc.texts) : ItemFaithful(nodes, t, at)

-----------------------------------------------------------------------------
(* Books and messages. *)

\* Every item is the child of one node, which it names.
TreeHolds(doc) ==
  \A s \in Slots(doc) :
    LET item == At(doc, s)
        holders == {p \in Roots \cup Slots(doc) : s \in ToSet(ChildrenOf(doc, p))}
    IN item.self = s /\ holders = {item.parent}
Shown(doc, word) == {i \in DOMAIN doc.texts : doc.texts[i].text = word}
PicturesOf(doc, path) == {i \in DOMAIN doc.pictures : doc.pictures[i].text.path = path
                                                      /\ doc.pictures[i].text.kind \in {"epub", "data"}}
Skeleton == leg.script[CHOOSE i \in DOMAIN leg.script : leg.script[i].type = "document"].doc
Warned(what, i) == <<what, i>> \in ToSet(outcome.warnings)
\* A part that is not in the result was reported, itself or with those after
\* the one the caller's time ran out on.
Reported(i) == \/ Warned("not XHTML", i) \/ Warned("could not be parsed", i)
               \/ \E j \in 1..i : Warned("not parsed", j)

\* The first text below a chapter, and the groups above an item.
WordOf(chapter) == chapter.doc.texts[1].text
PlaceOf(doc, word) == LET i == CHOOSE i \in Shown(doc, word) : TRUE IN doc.texts[i].parent

ChaptersKept(doc) ==
  \A i \in DOMAIN reader.chapters :
    LET c == reader.chapters[i]
        group == ChapterGroup(Skeleton, Len(Skeleton.groups), c.href)
    IN /\ c.media = "other" => Reported(i)
       /\ (c.media = "html" /\ c.doc.texts # <<>>) =>
            /\ Cardinality(Shown(doc, WordOf(c))) <= 1
            /\ Shown(doc, WordOf(c)) = {} => Reported(i)
            /\ Shown(doc, WordOf(c)) # {} =>
                 PlaceOf(doc, WordOf(c)) = IF group = NoRef THEN Body ELSE group
PicturesKept(doc) ==
  LET paths == {doc.pictures[i].text.path : i \in
                  {j \in DOMAIN doc.pictures : doc.pictures[j].text.kind \in {"epub", "data"}}}
      inlined(p) == {i \in PicturesOf(doc, p) : doc.pictures[i].text.kind = "data"}
      size(p) == Head(SelectSeq(reader.images, LAMBDA r : r.href = p)).size
      whole == {p \in paths : inlined(p) # {}}
  IN /\ \A p \in paths : /\ ".." \notin ToSet(p)
                          /\ inlined(p) \subseteq {Min(PicturesOf(doc, p))}
                          /\ inlined(p) # PicturesOf(doc, p) => Warned("not inlined", p)
     /\ \A p \in whole : size(p) <= InlineImageCap
     /\ FoldFunction(LAMBDA a, b : a + b, 0, [p \in whole |-> size(p)]) <= InlineTotalCap
     /\ {Skeleton.pictures[i].text.path : i \in DOMAIN Skeleton.pictures} \subseteq paths

\* Bodies come in MIME order and ahead of the attachments.
BodiesKept(doc) ==
  LET at(i) == CHOOSE j \in DOMAIN doc.body :
                 doc.body[j] = <<"texts", CHOOSE t \in Shown(doc, WordOf(reader.chapters[i])) : TRUE>>
      held == {i \in DOMAIN reader.chapters : Shown(doc, WordOf(reader.chapters[i])) # {}}
  IN /\ \A i \in DOMAIN reader.chapters \ held : Reported(i)
     /\ \A i, j \in held : i < j => at(i) < at(j)
     /\ \A i \in held : at(i) < BodyInsertionPoint(doc)

\* A book or a message is whole: what its parts say is in it once, below the
\* chapter the book names for it or in the order of the message, and a part
\* that is missing was reported; an image travels once, within the caps, and
\* one that does not is reported; and every item hangs where it says it does.
BookKept ==
  (leg.kind \in {"plain", "epub", "email"} /\ outcome.success) =>
    /\ TreeHolds(fold.doc)
    /\ (leg.kind = "epub" /\ leg.markup) => ChaptersKept(fold.doc) /\ PicturesKept(fold.doc)
    /\ (leg.kind = "email" /\ HasParts /\ leg.markup) => BodiesKept(fold.doc)
    /\ (leg.page /\ "title" \in DOMAIN fold.doc.meta) =>
         \E i \in DOMAIN fold.doc.texts : fold.doc.texts[i].label = "title"

\* What a remote answer becomes in the Document, for every kind of answer that
\* is folded as a stream or gathered from parts.
AnswersFolded == HtmlKept /\ ArchiveKept /\ BookKept
=============================================================================
