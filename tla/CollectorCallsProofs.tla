------------------------ MODULE CollectorCallsProofs ------------------------
(***************************************************************************)
(* What a collector reports of its stream, for every leg: every script a   *)
(* server may give, every window, and every moment the call is cut at.     *)
(*                                                                         *)
(* OutcomeTruthful compares the outcome with what the server has sent; the *)
(* reader knows only its flags.  Between the two stand the answers on      *)
(* their way: on a call that was not cut, an answer of the script has been *)
(* taken down or is still ahead (TakenDown), and a call that ended by      *)
(* itself has nothing ahead once the reader is through (CallOver).         *)
(***************************************************************************)
EXTENDS CollectorCalls, SequenceTheorems, TLAPS

\* The answers a leg's server may give.
ScriptAnswers == ToSet(leg.script)
\* The call was cut: answers in flight may be lost.
Cut == net.status \in {"CANCELLED", "DEADLINE_EXCEEDED"}
\* An answer of that type is among those of the queue.
Says(s, type) == \E i \in DOMAIN s : s[i].type = type
\* An answer of that type is in flight, or still to be given.
Ahead(type) == Says(net.answers, type) \/ Says(server.script, type)

\* The fields of the records, and queues of the script's answers.
Shaped ==
  /\ leg \in Legs
  /\ DOMAIN upload = {"sent", "state"}
  /\ DOMAIN net = {"frames", "half", "answers", "status"}
  /\ DOMAIN server = {"script", "owed", "seen"}
  /\ DOMAIN reader = {"phase", "trailer", "document", "read", "chapters", "images", "plain", "bytes",
                      "over", "warnings", "slot", "gathered", "error"}
  /\ reader.trailer \in BOOLEAN /\ reader.document \in BOOLEAN /\ reader.over \in BOOLEAN
  /\ net.answers \in Seq(ScriptAnswers) /\ server.script \in Seq(ScriptAnswers)

\* The phases of a remote leg and of the storage handler, and the outcome.
Phased ==
  /\ reader.phase \in {"start", "reading", "joining", "dialing", "gathering",
                       "parsing", "folding", "done"}
  /\ reader.phase \in {"reading", "joining", "dialing", "gathering"} => Remote
  /\ reader.phase \in {"parsing", "folding"} => ~Remote
  /\ reader.phase \in {"dialing", "gathering"} => leg.kind \in {"epub", "email"}
  /\ outcome.done = (reader.phase = "done")

\* A call that ended by itself had nothing left to say; a leg past its reads
\* has none in flight, and one past its join no writer.
CallOver ==
  Remote =>
    /\ net.status # "open" /\ ~Cut => server.script = <<>>
    /\ reader.phase \in {"joining", "dialing", "gathering", "done"} =>
         net.answers = <<>> /\ net.status # "open"
    /\ reader.phase \in {"dialing", "gathering", "done"} => upload.state # "writing"

\* On a call that was not cut, what was sent has been taken down or is ahead.
TakenDown ==
  (Remote /\ ~Cut) =>
    /\ leg.kind = "html" =>
         /\ Sent("finished") = (reader.trailer \/ Ahead("finished"))
         /\ Sent("error") = (reader.error # "none" \/ Ahead("error"))
    /\ leg.kind \notin {"html", "warc"} =>
         /\ Sent("status") = (reader.trailer \/ Ahead("status"))
         /\ Sent("document") = (reader.document \/ Ahead("document"))

\* Only a book is over the cap.
WithinCap ==
  /\ ~reader.over => reader.bytes <= BookByteCap
  /\ reader.over => leg.kind = "epub"

\* The stream was complete, and was read to its end.
ReadWhole ==
  /\ net.status # "open" /\ ~Cut
  /\ Complete /\ server.script = <<>> /\ net.answers = <<>>
  /\ net.status = "OK" \/ (leg.kind = "warc" /\ Records(fold) # 0)
  /\ reader.bytes <= BookByteCap

\* A leg goes on to its parts, or succeeds, only on a whole stream; and a whole
\* stream under the cap succeeds.
Decided ==
  Remote =>
    /\ reader.phase \in {"dialing", "gathering"} => ReadWhole
    /\ reader.phase = "done" =>
         /\ outcome.success => ReadWhole
         /\ (net.status = "OK" /\ Complete /\ ~reader.over) => outcome.success

LegInv == Shaped /\ Phased /\ CallOver /\ TakenDown /\ WithinCap /\ Decided

----------------------------------------------------------------------------
(* Answers on their way. *)

\* The head of a queue, and what is behind it.
LEMMA HeadApart ==
  ASSUME NEW S, NEW s \in Seq(S), s # <<>>, NEW type
  PROVE  /\ Tail(s) \in Seq(S) /\ Head(s) \in S
         /\ Says(s, type) <=> Head(s).type = type \/ Says(Tail(s), type)
<1>1. Tail(s) \in Seq(S) /\ Head(s) = s[1] /\ Len(s) \in Nat \ {0} /\ Len(Tail(s)) = Len(s) - 1
  OBVIOUS
<1>2. \A i \in 1..Len(Tail(s)) : Tail(s)[i] = s[i + 1] BY <1>1
<1>3. ASSUME NEW i \in DOMAIN s, s[i].type = type, i # 1
      PROVE  \E j \in DOMAIN Tail(s) : Tail(s)[j].type = type
  <2>1. i - 1 \in 1..Len(Tail(s)) /\ Tail(s)[i - 1] = s[i] BY <1>1, <1>2, <1>3
  <2> QED BY <2>1, <1>1, <1>3
<1>4. ASSUME NEW j \in DOMAIN Tail(s), Tail(s)[j].type = type
      PROVE  \E i \in DOMAIN s : s[i].type = type
  <2>1. j + 1 \in DOMAIN s /\ s[j + 1].type = type BY <1>1, <1>2, <1>4
  <2> QED BY <2>1
<1>5. 1 \in DOMAIN s /\ Head(s) \in S BY <1>1
<1> QED BY <1>1, <1>3, <1>4, <1>5 DEF Says

\* A queue that one more joined.
LEMMA JoinedBy ==
  ASSUME NEW S, NEW s \in Seq(S), NEW e \in S, NEW type
  PROVE  /\ Append(s, e) \in Seq(S)
         /\ Says(Append(s, e), type) <=> e.type = type \/ Says(s, type)
<1>1. /\ Append(s, e) \in Seq(S) /\ DOMAIN Append(s, e) = 1..Len(s) + 1 /\ Len(s) \in Nat
      /\ DOMAIN s = 1..Len(s) /\ Append(s, e)[Len(s) + 1] = e
      /\ \A i \in 1..Len(s) : Append(s, e)[i] = s[i]
  OBVIOUS
<1>2. ASSUME NEW i \in DOMAIN Append(s, e), Append(s, e)[i].type = type, i # Len(s) + 1
      PROVE  \E j \in DOMAIN s : s[j].type = type
  BY <1>1, <1>2
<1>3. ASSUME NEW j \in DOMAIN s, s[j].type = type
      PROVE  \E i \in DOMAIN Append(s, e) : Append(s, e)[i].type = type
  BY <1>1, <1>3
<1>4. Len(s) + 1 \in DOMAIN Append(s, e) BY <1>1
<1> QED BY <1>1, <1>2, <1>3, <1>4 DEF Says

----------------------------------------------------------------------------
(* Steps that leave the outcome's grounds alone. *)

\* What the invariant speaks of is as it was.
Still ==
  /\ leg' = leg /\ outcome' = outcome
  /\ net.answers' = net.answers /\ net.status' = net.status /\ server.script' = server.script
  /\ upload.state # "writing" => upload.state' # "writing"
  /\ reader.phase' = reader.phase /\ reader.trailer' = reader.trailer
  /\ reader.document' = reader.document /\ reader.error' = reader.error
  /\ reader.bytes' = reader.bytes /\ reader.over' = reader.over
  /\ (Remote /\ reader.phase = "done") => fold' = fold

\* The records keep their fields.
SameFields ==
  /\ DOMAIN upload' = DOMAIN upload /\ DOMAIN net' = DOMAIN net
  /\ DOMAIN server' = DOMAIN server /\ DOMAIN reader' = DOMAIN reader

LEMMA StillKept ==
  ASSUME LegInv, Still, SameFields
  PROVE  LegInv'
<1>1. Shaped' BY DEF LegInv, Shaped, Still, SameFields, ScriptAnswers
<1>2. Phased' BY DEF LegInv, Phased, Still, Remote
<1>3. CallOver' BY DEF LegInv, CallOver, Still, Remote, Cut
<1>4. TakenDown'
  <2>1. Remote' = Remote /\ Cut' = Cut BY DEF Still, Remote, Cut
  <2>2. \A type : Ahead(type)' = Ahead(type) BY DEF Still, Ahead
  <2>3. \A type : Sent(type)' = Sent(type) BY DEF Still, Sent
  <2> QED BY <2>1, <2>2, <2>3 DEF LegInv, TakenDown, Still
<1>5. WithinCap' BY DEF LegInv, WithinCap, Still
<1>6. Decided'
  <2>1. Complete' = Complete BY DEF Complete, Sent, Still
  <2>2. ASSUME Remote, reader.phase \in {"dialing", "gathering", "done"}, ReadWhole
        PROVE  ReadWhole'
    BY <2>1, <2>2 DEF ReadWhole, Still, Cut, Records, LegInv, Phased
  <2> QED BY <2>1, <2>2 DEF LegInv, Decided, Still, Remote
<1> QED BY <1>1, <1>2, <1>3, <1>4, <1>5, <1>6 DEF LegInv

\* The writer thread.
LEMMA WriterKept ==
  ASSUME LegInv, WriteFrame \/ WriteFails \/ HalfClose
  PROVE  LegInv'
<1> USE DEF LegInv, Shaped
<1>1. CASE WriteFrame
  <2>1. Still /\ SameFields BY <1>1 DEF WriteFrame, Still, SameFields
  <2> QED BY <2>1, StillKept
<1>2. CASE WriteFails
  <2>1. Still /\ SameFields BY <1>2 DEF WriteFails, Still, SameFields
  <2> QED BY <2>1, StillKept
<1>3. CASE HalfClose
  <2>1. Still /\ SameFields BY <1>3 DEF HalfClose, Still, SameFields
  <2> QED BY <2>1, StillKept
<1> QED BY <1>1, <1>2, <1>3

\* The server as it reads.
LEMMA ServerListensKept ==
  ASSUME LegInv, ServerReads \/ ServerSeesEnd
  PROVE  LegInv'
<1> USE DEF LegInv, Shaped
<1>1. CASE ServerReads
  <2>1. Still /\ SameFields BY <1>1 DEF ServerReads, Still, SameFields
  <2> QED BY <2>1, StillKept
<1>2. CASE ServerSeesEnd
  <2>1. Still /\ SameFields BY <1>2 DEF ServerSeesEnd, Still, SameFields
  <2> QED BY <2>1, StillKept
<1> QED BY <1>1, <1>2

\* The caller, the clock and the workers of the second round.
LEMMA OutsideKept ==
  ASSUME LegInv,
         \/ CallerCancels \/ DeadlinePasses
         \/ \E w \in Dialers : FetchTask(w) \/ CheckTask(w) \/ DialPart(w)
  PROVE  LegInv'
<1>1. UNCHANGED <<leg, upload, net, server, reader, fold, outcome>>
  BY DEF CallerCancels, DeadlinePasses, FetchTask, CheckTask, DialPart
<1>2. Still /\ SameFields BY <1>1 DEF Still, SameFields
<1> QED BY <1>2, StillKept

\* A part of a book or of a message that is gathered.
LEMMA PartKept ==
  ASSUME LegInv, GatherChapter \/ GatherBody
  PROVE  LegInv'
<1>1. CASE GatherChapter
  <2>1. /\ UNCHANGED <<leg, upload, net, server, fold, outcome>>
        /\ NextChapter
    BY <1>1 DEF GatherChapter
  <2>2. /\ DOMAIN reader' = DOMAIN reader
        /\ \A f \in {"phase", "trailer", "document", "error", "bytes", "over"} : reader'[f] = reader[f]
    BY <2>1 DEF NextChapter, InGather, CutOff, Told, LegInv, Shaped
  <2>3. Still /\ SameFields BY <2>1, <2>2 DEF Still, SameFields
  <2> QED BY <2>3, StillKept
<1>2. CASE GatherBody
  <2>1. /\ UNCHANGED <<leg, upload, net, server, outcome>>
        /\ NextBody
    BY <1>2 DEF GatherBody
  <2>2. /\ DOMAIN reader' = DOMAIN reader /\ reader.phase = "gathering"
        /\ \A f \in {"phase", "trailer", "document", "error", "bytes", "over"} : reader'[f] = reader[f]
    BY <2>1 DEF NextBody, InGather, CutOff, Told, LegInv, Shaped
  <2>3. Still /\ SameFields BY <2>1, <2>2 DEF Still, SameFields
  <2> QED BY <2>3, StillKept
<1> QED BY <1>1, <1>2

\* The storage handler folds its nodes.
LEMMA FoldsKept ==
  ASSUME LegInv, FoldBlock \/ FoldList \/ FoldItemBlock \/ FoldMacro \/ FoldPops
  PROVE  LegInv'
<1>1. reader.phase = "folding" /\ UNCHANGED <<leg, upload, net, server, reader, outcome>>
  BY DEF FoldBlock, FoldList, FoldItemBlock, FoldMacro, FoldPops, Folding
<1>2. Still /\ SameFields BY <1>1 DEF Still, SameFields
<1> QED BY <1>2, StillKept

\* The storage handler: only its phases and its outcome can change.
LEMMA HandlerKept ==
  ASSUME LegInv, ParseConstruct \/ ParseEnds \/ FoldEnds
  PROVE  LegInv'
<1>1. UNCHANGED <<leg, upload, net>> /\ reader.phase \in {"parsing", "folding"}
  BY DEF ParseConstruct, ParseEnds, FoldEnds
<1>2. ~Remote /\ ~Remote' BY <1>1 DEF LegInv, Phased, Remote
<1>3. /\ DOMAIN server' = DOMAIN server /\ DOMAIN reader' = DOMAIN reader
      /\ server'.script \in Seq(ScriptAnswers)
  <2>1. CASE ParseConstruct BY <2>1, HeadApart DEF ParseConstruct, LegInv, Shaped
  <2>2. CASE ParseEnds \/ FoldEnds BY <2>2 DEF ParseEnds, FoldEnds, LegInv, Shaped
  <2> QED BY <2>1, <2>2
<1>4. \A f \in {"trailer", "document", "bytes", "over"} : reader'[f] = reader[f]
  BY DEF ParseConstruct, ParseEnds, FoldEnds, LegInv, Shaped
<1>5. \/ reader'.phase \in {"parsing", "folding"} /\ outcome'.done = FALSE
      \/ reader'.phase = "done" /\ outcome'.done = TRUE
  <2>1. outcome.done = FALSE BY <1>1 DEF LegInv, Phased
  <2>2. CASE ParseConstruct BY <1>1, <2>1, <2>2 DEF ParseConstruct, LegInv, Shaped
  <2>3. CASE ParseEnds
    <3>1. \/ outcome' = outcome /\ reader' = [reader EXCEPT !.phase = "folding"]
          \/ outcome' = Failed("INVALID_ARGUMENT") /\ reader' = [reader EXCEPT !.phase = "done"]
      BY <2>3 DEF ParseEnds
    <3> QED BY <3>1, <2>1 DEF LegInv, Shaped, Failed
  <2>4. CASE FoldEnds BY <2>4 DEF FoldEnds, LegInv, Shaped, Succeeded
  <2> QED BY <2>2, <2>3, <2>4
<1>6. Shaped' BY <1>1, <1>3, <1>4 DEF LegInv, Shaped, ScriptAnswers
<1>7. Phased' BY <1>2, <1>5 DEF Phased
<1>8. WithinCap' BY <1>1, <1>4 DEF LegInv, WithinCap
<1> QED BY <1>2, <1>6, <1>7, <1>8 DEF LegInv, CallOver, TakenDown, Decided

----------------------------------------------------------------------------
(* The call and its answers. *)

\* A leg that starts, or is refused for want of its options.
LEMMA StartKept ==
  ASSUME LegInv, Refuse \/ Start
  PROVE  LegInv'
<1>1. /\ UNCHANGED <<leg, upload, net, server, fold>> /\ reader.phase = "start"
      /\ reader'.trailer = reader.trailer /\ reader'.document = reader.document
      /\ reader'.error = reader.error /\ reader'.bytes = reader.bytes /\ reader'.over = reader.over
      /\ DOMAIN reader' = DOMAIN reader
  BY DEF Refuse, Start, LegInv, Shaped
<1>2. outcome.done = FALSE BY <1>1 DEF LegInv, Phased
<1>3. \/ reader'.phase = "done" /\ ~Remote /\ outcome'.done = TRUE
      \/ reader'.phase = "reading" /\ Remote /\ outcome'.done = FALSE
      \/ reader'.phase = "parsing" /\ ~Remote /\ outcome'.done = FALSE
  BY <1>2 DEF Refuse, Start, LegInv, Shaped, Remote, Failed
<1>4. Shaped' BY <1>1 DEF LegInv, Shaped, ScriptAnswers
<1>5. Remote' = Remote /\ Cut' = Cut BY <1>1 DEF Remote, Cut
<1>6. Phased' BY <1>1, <1>3, <1>5 DEF Phased
<1>7. CallOver' BY <1>1, <1>3, <1>5 DEF LegInv, CallOver
<1>8. TakenDown'
  <2>1. /\ \A type : Ahead(type)' = Ahead(type) /\ Sent(type)' = Sent(type) BY <1>1 DEF Ahead, Sent
  <2> QED BY <1>1, <1>5, <2>1 DEF LegInv, TakenDown
<1>9. WithinCap' BY <1>1 DEF LegInv, WithinCap
<1>10. Decided' BY <1>3, <1>5 DEF Decided
<1> QED BY <1>4, <1>6, <1>7, <1>8, <1>9, <1>10 DEF LegInv

\* The server gives an answer.
LEMMA AnswerKept ==
  ASSUME LegInv, ServerAnswers
  PROVE  LegInv'
<1>1. /\ UNCHANGED <<leg, upload, reader, fold, outcome>>
      /\ net.status = "open" /\ net'.status = net.status
      /\ server.script # <<>> /\ server'.script = Tail(server.script)
      /\ net'.answers = Append(net.answers, Head(server.script))
      /\ DOMAIN net' = DOMAIN net /\ DOMAIN server' = DOMAIN server
      /\ net.answers \in Seq(ScriptAnswers) /\ server.script \in Seq(ScriptAnswers)
  BY DEF ServerAnswers, LegInv, Shaped
<1>2. Head(server.script) \in ScriptAnswers /\ Tail(server.script) \in Seq(ScriptAnswers)
  BY <1>1, HeadApart
<1>3. Append(net.answers, Head(server.script)) \in Seq(ScriptAnswers) BY <1>1, <1>2
<1>4. Shaped' BY <1>1, <1>2, <1>3 DEF LegInv, Shaped, ScriptAnswers
<1>5. Remote' = Remote /\ Cut' = Cut BY <1>1 DEF Remote, Cut
<1>6. Phased' BY <1>1, <1>5 DEF LegInv, Phased
<1>7. reader.phase \notin {"joining", "dialing", "gathering", "done"} \/ ~Remote
  BY <1>1 DEF LegInv, CallOver
<1>8. CallOver' BY <1>1, <1>5, <1>7 DEF CallOver
<1>9. TakenDown'
  <2>1. ASSUME NEW type PROVE Ahead(type)' = Ahead(type)
    <3>1. Says(server.script, type) <=> Head(server.script).type = type \/ Says(server'.script, type)
      BY <1>1, HeadApart
    <3>2. Says(net'.answers, type) <=> Head(server.script).type = type \/ Says(net.answers, type)
      BY <1>1, <1>2, JoinedBy
    <3> QED BY <1>1, <3>1, <3>2 DEF Ahead
  <2>2. \A type : Sent(type)' = Sent(type) BY <1>1 DEF Sent
  <2> QED BY <1>1, <1>5, <2>1, <2>2 DEF LegInv, TakenDown
<1>10. WithinCap' BY <1>1 DEF LegInv, WithinCap
<1>11. Decided' BY <1>1, <1>5, <1>7 DEF Decided
<1> QED BY <1>4, <1>6, <1>8, <1>9, <1>10, <1>11 DEF LegInv

\* The call ends, by the server's word or cut; what it was cut in may be lost.
LEMMA EndKept ==
  ASSUME LegInv, ServerEnds \/ WatchCancels \/ DeadlineEnds
  PROVE  LegInv'
<1>1. /\ UNCHANGED <<leg, upload, server, reader, fold, outcome>>
      /\ net.status = "open" /\ DOMAIN net' = DOMAIN net
      /\ net'.answers \in {net.answers, <<>>}
      /\ \/ net'.answers = net.answers /\ server.script = <<>>
         \/ net'.status \in {"CANCELLED", "DEADLINE_EXCEEDED"}
  BY DEF ServerEnds, WatchCancels, DeadlineEnds, EndCall, LegInv, Shaped
<1>2. net'.answers \in Seq(ScriptAnswers)
  <2>1. <<>> \in Seq(ScriptAnswers) /\ net.answers \in Seq(ScriptAnswers) BY DEF LegInv, Shaped
  <2> QED BY <1>1, <2>1
<1>3. Shaped' BY <1>1, <1>2 DEF LegInv, Shaped, ScriptAnswers
<1>4. Remote' = Remote /\ ~Cut BY <1>1 DEF Remote, Cut
<1>5. Phased' BY <1>1, <1>4 DEF LegInv, Phased
<1>6. reader.phase \notin {"joining", "dialing", "gathering", "done"} \/ ~Remote
  BY <1>1 DEF LegInv, CallOver
<1>7. CallOver' BY <1>1, <1>4, <1>6 DEF CallOver, Cut
<1>8. TakenDown'
  <2>1. ASSUME ~Cut' PROVE \A type : Ahead(type)' = Ahead(type)
    BY <1>1, <2>1 DEF Ahead, Cut
  <2>2. \A type : Sent(type)' = Sent(type) BY <1>1 DEF Sent
  <2> QED BY <1>1, <1>4, <2>1, <2>2 DEF LegInv, TakenDown
<1>9. WithinCap' BY <1>1 DEF LegInv, WithinCap
<1>10. Decided' BY <1>1, <1>4, <1>6 DEF Decided
<1> QED BY <1>3, <1>5, <1>7, <1>8, <1>9, <1>10 DEF LegInv

\* What reading an answer of a remote leg does: the answer leaves the queue,
\* or the book's cap cuts the call; and flags go up for what it says.
Reads(e) ==
  /\ net.answers # <<>> /\ e = Head(net.answers) /\ reader.phase = "reading"
  /\ UNCHANGED <<leg, upload, server, outcome>>
  /\ DOMAIN net' = DOMAIN net /\ DOMAIN reader' = DOMAIN reader
  /\ reader'.phase = reader.phase
  /\ \/ net'.status = net.status /\ net'.answers = Tail(net.answers)
     \/ net'.status = "CANCELLED" /\ net'.answers \in {Tail(net.answers), <<>>}
  /\ reader'.trailer \in BOOLEAN /\ reader'.document \in BOOLEAN /\ reader'.over \in BOOLEAN
  /\ leg.kind = "html" =>
       /\ reader'.trailer = (reader.trailer \/ e.type = "finished")
       /\ (reader'.error # "none") = (reader.error # "none" \/ e.type = "error")
  /\ leg.kind \notin {"html", "warc"} =>
       /\ reader'.trailer = (reader.trailer \/ e.type = "status")
       /\ reader'.document = (reader.document \/ e.type = "document")
  /\ WithinCap'

LEMMA ReadsKept ==
  ASSUME LegInv, NEW e, Reads(e)
  PROVE  LegInv'
<1>1. net.answers \in Seq(ScriptAnswers) /\ net.answers # <<>> BY DEF LegInv, Shaped, Reads
<1>2. Tail(net.answers) \in Seq(ScriptAnswers) /\ <<>> \in Seq(ScriptAnswers) BY <1>1, HeadApart
<1>3. Shaped' BY <1>2 DEF LegInv, Shaped, ScriptAnswers, Reads
<1>4. Remote /\ Remote' BY DEF LegInv, Phased, Reads, Remote
<1>5. outcome.done = FALSE BY DEF LegInv, Phased, Reads
<1>6. Phased' BY <1>4, <1>5 DEF LegInv, Phased, Reads
<1>7. CallOver' BY <1>4 DEF LegInv, CallOver, Reads, Cut
<1>8. TakenDown'
  <2> SUFFICES ASSUME ~Cut' PROVE TakenDown'
    BY DEF TakenDown
  <2>1. ~Cut /\ net'.answers = Tail(net.answers) BY DEF Reads, Cut
  <2>2. \A type : Sent(type)' = Sent(type) BY DEF Sent, Reads
  <2>3. \A type : Ahead(type) <=> e.type = type \/ Ahead(type)'
    <3> SUFFICES ASSUME NEW type PROVE Ahead(type) <=> e.type = type \/ Ahead(type)'
      OBVIOUS
    <3>1. Says(net.answers, type) <=> Head(net.answers).type = type \/ Says(Tail(net.answers), type)
      BY <1>1, HeadApart
    <3> QED BY <2>1, <3>1 DEF Ahead, Reads
  <2>4. CASE leg.kind = "html"
    <3>1. /\ Sent("finished") = (reader.trailer \/ Ahead("finished"))
          /\ Sent("error") = (reader.error # "none" \/ Ahead("error"))
      BY <1>4, <2>1, <2>4 DEF LegInv, TakenDown
    <3>2. leg'.kind = "html" BY <2>4 DEF Reads
    <3> QED BY <2>2, <2>3, <2>4, <3>1, <3>2 DEF TakenDown, Reads
  <2>5. CASE leg.kind \notin {"html", "warc"}
    <3>1. /\ Sent("status") = (reader.trailer \/ Ahead("status"))
          /\ Sent("document") = (reader.document \/ Ahead("document"))
      BY <1>4, <2>1, <2>5 DEF LegInv, TakenDown
    <3>2. leg'.kind \notin {"html", "warc"} BY <2>5 DEF Reads
    <3> QED BY <2>2, <2>3, <2>5, <3>1, <3>2 DEF TakenDown, Reads
  <2>6. CASE leg.kind = "warc" BY <2>6 DEF TakenDown, Reads
  <2> QED BY <2>4, <2>5, <2>6
<1>9. WithinCap' BY DEF Reads
<1>10. Decided' BY DEF Decided, Reads
<1> QED BY <1>3, <1>6, <1>7, <1>8, <1>9, <1>10 DEF LegInv

\* An error in a script says which it is.
LEMMA ErrorNamed ==
  ASSUME LegInv, NEW e \in ScriptAnswers, e.type = "error"
  PROVE  e.code # "none"
<1>1. leg \in Legs /\ \E i \in DOMAIN leg.script : e = leg.script[i]
  BY DEF LegInv, Shaped, ScriptAnswers, ToSet
<1> QED BY <1>1, LegAssumption

LEMMA ReadPlainKept ==
  ASSUME LegInv, ReadPlain
  PROVE  LegInv'
<1> DEFINE e == Head(net.answers)
<1>1. /\ leg.kind \in {"plain", "email"} /\ net.answers # <<>> /\ reader.phase = "reading"
      /\ reader' = Drained(e) /\ net' = Rest
      /\ UNCHANGED <<leg, upload, server, outcome>>
  BY DEF ReadPlain, CanRead
<1>2. /\ DOMAIN reader' = DOMAIN reader /\ reader'.phase = reader.phase
      /\ reader'.bytes = reader.bytes /\ reader'.over = reader.over
      /\ reader'.trailer = IF e.type = "status" THEN TRUE ELSE reader.trailer
      /\ reader'.document = IF e.type = "document" THEN TRUE ELSE reader.document
  BY <1>1 DEF Drained, LegInv, Shaped
<1>3. /\ DOMAIN net' = DOMAIN net /\ net'.status = net.status /\ net'.answers = Tail(net.answers)
  BY <1>1 DEF Rest, LegInv, Shaped
<1>4. WithinCap' BY <1>1, <1>2 DEF LegInv, WithinCap
<1>5. Reads(e) BY <1>1, <1>2, <1>3, <1>4 DEF Reads, LegInv, Shaped
<1> QED BY <1>5, ReadsKept

LEMMA ReadBookKept ==
  ASSUME LegInv, ReadBook
  PROVE  LegInv'
<1> DEFINE e == Head(net.answers)
<1>1. /\ leg.kind = "epub" /\ net.answers # <<>> /\ reader.phase = "reading"
      /\ UNCHANGED <<leg, upload, server, outcome>>
  BY DEF ReadBook, CanRead
<1>2. \/ net' = Rest
      \/ \E kept \in BOOLEAN :
           net' = [Rest EXCEPT !.status = "CANCELLED", !.answers = IF kept THEN @ ELSE <<>>]
  BY DEF ReadBook
<1>3. /\ DOMAIN net' = DOMAIN net
      /\ \/ net'.status = net.status /\ net'.answers = Tail(net.answers)
         \/ net'.status = "CANCELLED" /\ net'.answers \in {Tail(net.answers), <<>>}
  BY <1>2 DEF Rest, LegInv, Shaped
<1>4. \/ e.type = "document" /\ reader' = [reader EXCEPT !.document = TRUE]
      \/ e.type = "status" /\ reader' = [reader EXCEPT !.trailer = TRUE]
      \/ /\ e.type \notin {"document", "status"}
         /\ \E bytes, chapters, images :
              \/ reader' = [reader EXCEPT !.bytes = bytes, !.over = TRUE]
              \/ bytes <= BookByteCap /\ reader' = [reader EXCEPT !.bytes = bytes, !.chapters = chapters]
              \/ bytes <= BookByteCap /\ reader' = [reader EXCEPT !.bytes = bytes, !.images = images]
              \/ reader' = reader
  <2>1. reader' = ReadOfBook(e) BY DEF ReadBook
  <2>2. CASE e.type = "document" BY <2>1, <2>2 DEF ReadOfBook, BookPart, PassesCap
  <2>3. CASE e.type = "status" BY <2>1, <2>3 DEF ReadOfBook, BookPart, PassesCap
  <2> QED BY <2>1, <2>2, <2>3 DEF ReadOfBook, BookPart, PassesCap, KeepsWithin
<1>5. /\ DOMAIN reader' = DOMAIN reader /\ reader'.phase = reader.phase
      /\ reader'.trailer = IF e.type = "status" THEN TRUE ELSE reader.trailer
      /\ reader'.document = IF e.type = "document" THEN TRUE ELSE reader.document
      /\ \/ reader'.over = TRUE
         \/ reader'.bytes = reader.bytes /\ reader'.over = reader.over
         \/ reader'.bytes <= BookByteCap /\ reader'.over = reader.over
  BY ZenonT(40), <1>4 DEF LegInv, Shaped
<1>6. WithinCap' BY <1>1, <1>5 DEF LegInv, WithinCap
<1>7. Reads(e) BY <1>1, <1>3, <1>5, <1>6 DEF Reads, LegInv, Shaped
<1> QED BY <1>7, ReadsKept

LEMMA ReadHtmlKept ==
  ASSUME LegInv, ReadHtml
  PROVE  LegInv'
<1> DEFINE e == Head(net.answers)
<1>1. /\ leg.kind = "html" /\ net.answers # <<>> /\ reader.phase = "reading"
      /\ reader' = [Noted(e) EXCEPT !.read = Append(@, e)] /\ net' = Rest
      /\ UNCHANGED <<leg, upload, server, outcome>>
  BY DEF ReadHtml, CanRead
<1>2. e.type = "error" => e.code # "none"
  <2>1. e \in ScriptAnswers BY <1>1, HeadApart DEF LegInv, Shaped
  <2> QED BY <2>1, ErrorNamed
<1>3. /\ DOMAIN reader' = DOMAIN reader /\ reader'.phase = reader.phase
      /\ reader'.bytes = reader.bytes /\ reader'.over = reader.over
      /\ reader'.document = reader.document
      /\ reader'.trailer = IF e.type = "finished" THEN TRUE ELSE reader.trailer
      /\ reader'.error = IF e.type = "error" THEN e.code ELSE reader.error
  BY <1>1 DEF Noted, NoteFinished, LegInv, Shaped
<1>4. /\ DOMAIN net' = DOMAIN net /\ net'.status = net.status /\ net'.answers = Tail(net.answers)
  BY <1>1 DEF Rest, LegInv, Shaped
<1>5. WithinCap' BY <1>1, <1>3 DEF LegInv, WithinCap
<1>6. Reads(e) BY <1>1, <1>2, <1>3, <1>4, <1>5 DEF Reads, LegInv, Shaped
<1> QED BY <1>6, ReadsKept

LEMMA ReadWarcKept ==
  ASSUME LegInv, ReadWarc
  PROVE  LegInv'
<1> DEFINE e == Head(net.answers)
<1>1. /\ leg.kind = "warc" /\ net.answers # <<>> /\ reader.phase = "reading"
      /\ reader' = [reader EXCEPT !.read = Append(@, e)] /\ net' = Rest
      /\ UNCHANGED <<leg, upload, server, outcome>>
  BY DEF ReadWarc, CanRead
<1>2. /\ DOMAIN reader' = DOMAIN reader /\ reader'.phase = reader.phase
      /\ reader'.bytes = reader.bytes /\ reader'.over = reader.over
      /\ reader'.document = reader.document /\ reader'.trailer = reader.trailer
  BY <1>1 DEF LegInv, Shaped
<1>3. /\ DOMAIN net' = DOMAIN net /\ net'.status = net.status /\ net'.answers = Tail(net.answers)
  BY <1>1 DEF Rest, LegInv, Shaped
<1>4. WithinCap' BY <1>1, <1>2 DEF LegInv, WithinCap
<1>5. Reads(e) BY <1>1, <1>2, <1>3, <1>4 DEF Reads, LegInv, Shaped
<1> QED BY <1>5, ReadsKept

----------------------------------------------------------------------------
(* The end of the reads and the outcome. *)

\* Steps of the leg's own thread that only move its phase on.
LEMMA PhaseMoves ==
  ASSUME LegInv, ReadsEnd \/ GatherBegins
  PROVE  LegInv'
<1>1. /\ UNCHANGED <<leg, upload, net, server, outcome>>
      /\ \/ /\ reader.phase = "reading" /\ reader'.phase = "joining"
            /\ net.answers = <<>> /\ net.status # "open"
         \/ reader.phase = "dialing" /\ reader'.phase = "gathering" /\ fold' = fold
      /\ DOMAIN reader' = DOMAIN reader
      /\ \A f \in {"trailer", "document", "error", "bytes", "over"} : reader'[f] = reader[f]
  BY DEF ReadsEnd, NoneLeft, GatherBegins, LegInv, Shaped
<1>2. Remote /\ Remote' /\ Cut' = Cut BY <1>1 DEF LegInv, Phased, Remote, Cut
<1>3. Shaped' BY <1>1 DEF LegInv, Shaped, ScriptAnswers
<1>4. Phased' BY <1>1, <1>2 DEF LegInv, Phased
<1>5. CallOver' BY <1>1, <1>2 DEF LegInv, CallOver
<1>6. TakenDown'
  <2>1. \A type : Ahead(type)' = Ahead(type) /\ Sent(type)' = Sent(type) BY <1>1 DEF Ahead, Sent
  <2> QED BY <1>1, <1>2, <2>1 DEF LegInv, TakenDown
<1>7. WithinCap' BY <1>1 DEF LegInv, WithinCap
<1>8. Decided'
  <2>1. Complete' = Complete BY <1>1 DEF Complete, Sent
  <2>2. CASE reader.phase = "dialing"
    <3>1. ReadWhole BY <1>2, <2>2 DEF LegInv, Decided
    <3>2. ReadWhole' BY <1>1, <1>2, <2>1, <2>2, <3>1 DEF ReadWhole, Records
    <3> QED BY <1>1, <2>2, <3>2 DEF Decided
  <2>3. CASE reader.phase = "reading" BY <1>1, <2>3 DEF Decided
  <2> QED BY <1>1, <2>2, <2>3
<1> QED BY <1>3, <1>4, <1>5, <1>6, <1>7, <1>8 DEF LegInv

\* What a joined leg of each kind reports.
LEMMA OutcomeOf ==
  ASSUME NEW status
  PROVE  /\ CallOutcome(status).done = TRUE /\ CallOutcome(status).success \in BOOLEAN
         /\ leg.kind = "html" =>
              (CallOutcome(status).success
                 <=> status = "OK" /\ reader.error = "none" /\ reader.trailer)
         /\ leg.kind = "warc" =>
              (CallOutcome(status).success
                 <=> \/ status = "OK"
                     \/ Records(fold) # 0 /\ status \notin {"DEADLINE_EXCEEDED", "CANCELLED"})
         /\ leg.kind \notin {"html", "warc"} =>
              (CallOutcome(status).success
                 <=> /\ status = "OK" /\ reader.trailer /\ reader.document
                     /\ ~(leg.kind = "epub" /\ reader.over))
<1>1. CASE leg.kind = "html"
  <2>1. CallOutcome(status) = HtmlOutcome(status) BY <1>1 DEF CallOutcome
  <2> QED BY <1>1, <2>1 DEF HtmlOutcome, NoteError, Failed, Succeeded
<1>2. CASE leg.kind = "warc"
  <2>1. CallOutcome(status) = WarcOutcome(status) BY <1>2 DEF CallOutcome
  <2>2. CASE status = "OK" BY <1>2, <2>1, <2>2 DEF WarcOutcome, Succeeded
  <2>3. CASE status # "OK" /\ (Records(fold) = 0 \/ status \in {"DEADLINE_EXCEEDED", "CANCELLED"})
    <3>1. WarcOutcome(status) = Failed(MapCode(status)) BY <2>3 DEF WarcOutcome
    <3>2. CallOutcome(status).done = TRUE /\ CallOutcome(status).success = FALSE
      BY <2>1, <3>1 DEF Failed
    <3> QED BY <1>2, <2>3, <3>2
  <2>4. CASE status # "OK" /\ ~(Records(fold) = 0 \/ status \in {"DEADLINE_EXCEEDED", "CANCELLED"})
    <3>1. \E warnings : WarcOutcome(status) = Succeeded(warnings)
      BY <2>4 DEF WarcOutcome
    <3>2. CallOutcome(status).done = TRUE /\ CallOutcome(status).success = TRUE
      BY <2>1, <3>1 DEF Succeeded
    <3> QED BY <1>2, <2>4, <3>2
  <2> QED BY <2>2, <2>3, <2>4
<1>3. CASE leg.kind = "epub" /\ reader.over
  <2>1. CallOutcome(status) = Failed("RESOURCE_EXHAUSTED") BY <1>3 DEF CallOutcome
  <2> QED BY <1>3, <2>1 DEF Failed
<1>4. CASE leg.kind \notin {"html", "warc"} /\ ~(leg.kind = "epub" /\ reader.over)
  <2>1. CallOutcome(status) = FinishOutcome(status) BY <1>4 DEF CallOutcome
  <2> QED BY <1>4, <2>1 DEF FinishOutcome, Failed, Succeeded
<1> QED BY <1>1, <1>2, <1>3, <1>4

\* What completes a script, for each kind of leg.
LEMMA CompleteOf ==
  /\ leg.kind = "html" => (Complete <=> Sent("finished") /\ ~Sent("error"))
  /\ leg.kind = "warc" => Complete
  /\ leg.kind \notin {"html", "warc"} => (Complete <=> Sent("document") /\ Sent("status"))
BY Zenon DEF Complete

\* Nothing is ahead of a leg that joined and was not cut.
LEMMA NothingAhead ==
  ASSUME LegInv, Remote, reader.phase = "joining", ~Cut
  PROVE  /\ server.script = <<>> /\ net.answers = <<>> /\ net.status # "open"
         /\ \A type : ~Ahead(type)
<1>1. server.script = <<>> /\ net.answers = <<>> /\ net.status # "open" BY DEF LegInv, CallOver
<1> QED BY <1>1 DEF Ahead, Says

\* A success is of a whole stream, and a whole stream with an OK is one.
LEMMA OutcomeGrounded ==
  ASSUME LegInv, Remote, reader.phase = "joining"
  PROVE  /\ CallOutcome(net.status).success => ReadWhole
         /\ (net.status = "OK" /\ Complete /\ ~reader.over) => CallOutcome(net.status).success
<1>1. CASE leg.kind = "html"
  <2>1. CallOutcome(net.status).success <=>
          net.status = "OK" /\ reader.error = "none" /\ reader.trailer
    BY <1>1, OutcomeOf
  <2>2. CASE net.status = "OK"
    <3>1. ~Cut BY <2>2 DEF Cut
    <3>2. /\ Sent("finished") = (reader.trailer \/ Ahead("finished"))
          /\ Sent("error") = (reader.error # "none" \/ Ahead("error"))
      BY <1>1, <3>1 DEF LegInv, TakenDown
    <3>3. Complete <=> reader.trailer /\ reader.error = "none"
      BY <1>1, <3>1, <3>2, NothingAhead, CompleteOf
    <3>4. ~reader.over /\ reader.bytes <= BookByteCap BY <1>1 DEF LegInv, WithinCap
    <3> QED BY <2>1, <2>2, <3>1, <3>3, <3>4, NothingAhead DEF ReadWhole
  <2> QED BY <2>1, <2>2
<1>2. CASE leg.kind = "warc"
  <2>1. CallOutcome(net.status).success <=>
          \/ net.status = "OK"
          \/ Records(fold) # 0 /\ net.status \notin {"DEADLINE_EXCEEDED", "CANCELLED"}
    BY <1>2, OutcomeOf
  <2>2. Complete BY <1>2, CompleteOf
  <2>3. ~reader.over /\ reader.bytes <= BookByteCap BY <1>2 DEF LegInv, WithinCap
  <2> QED BY <1>2, <2>1, <2>2, <2>3, NothingAhead DEF ReadWhole, Cut
<1>3. CASE leg.kind \notin {"html", "warc"}
  <2>1. CallOutcome(net.status).success <=>
          /\ net.status = "OK" /\ reader.trailer /\ reader.document
          /\ ~(leg.kind = "epub" /\ reader.over)
    BY <1>3, OutcomeOf
  <2>2. CASE net.status = "OK"
    <3>1. ~Cut BY <2>2 DEF Cut
    <3>2. /\ Sent("status") = (reader.trailer \/ Ahead("status"))
          /\ Sent("document") = (reader.document \/ Ahead("document"))
      BY <1>3, <3>1 DEF LegInv, TakenDown
    <3>3. Complete <=> reader.trailer /\ reader.document
      BY <1>3, <3>1, <3>2, NothingAhead, CompleteOf
    <3>4. (reader.over => leg.kind = "epub") /\ (~reader.over => reader.bytes <= BookByteCap)
      BY DEF LegInv, WithinCap
    <3> QED BY <2>1, <2>2, <3>1, <3>3, <3>4, NothingAhead DEF ReadWhole
  <2> QED BY <2>1, <2>2
<1> QED BY <1>1, <1>2, <1>3

\* The leg joins: it is done, or dials the parts of a book or a message.
LEMMA FinishKept ==
  ASSUME LegInv, Finish
  PROVE  LegInv'
<1> DEFINE result == CallOutcome(net.status)
<1>1. /\ reader.phase = "joining" /\ upload.state # "writing"
      /\ UNCHANGED <<leg, upload, net, server>>
  BY DEF Finish, Joined
<1>2. Remote /\ Remote' /\ Cut' = Cut BY <1>1 DEF LegInv, Phased, Remote, Cut
<1>3. /\ result.done = TRUE /\ result.success \in BOOLEAN
      /\ result.success => ReadWhole
      /\ (net.status = "OK" /\ Complete /\ ~reader.over) => result.success
  BY <1>1, <1>2, OutcomeOf, OutcomeGrounded
<1>4. \/ /\ result.success /\ HasParts /\ outcome' = outcome
         /\ reader' = [reader EXCEPT !.phase = "dialing"]
      \/ /\ outcome' = IF result.success /\ HasParts
                       THEN Succeeded(Append(result.warnings, <<"markup not configured">>))
                       ELSE result
         /\ reader' = [reader EXCEPT !.phase = "done"]
  <2> HIDE DEF result
  <2> QED BY DEF Finish, result
<1>5. /\ DOMAIN reader' = DOMAIN reader
      /\ \A f \in {"trailer", "document", "error", "bytes", "over"} : reader'[f] = reader[f]
  BY <1>4 DEF LegInv, Shaped
<1>6. outcome.done = FALSE BY <1>1 DEF LegInv, Phased
<1>7. \/ /\ result.success /\ leg.kind \in {"epub", "email"}
         /\ reader'.phase = "dialing" /\ outcome'.done = FALSE
      \/ /\ reader'.phase = "done" /\ outcome'.done = TRUE
         /\ outcome'.success = result.success
  <2> HIDE DEF result
  <2>1. CASE /\ result.success /\ HasParts /\ outcome' = outcome
             /\ reader' = [reader EXCEPT !.phase = "dialing"]
    BY <1>6, <2>1 DEF HasParts, LegInv, Shaped
  <2>2. CASE /\ outcome' = IF result.success /\ HasParts
                           THEN Succeeded(Append(result.warnings, <<"markup not configured">>))
                           ELSE result
             /\ reader' = [reader EXCEPT !.phase = "done"]
    BY <1>3, <2>2 DEF Succeeded, LegInv, Shaped
  <2> QED BY <1>4, <2>1, <2>2
<1>8. leg.kind = "warc" => fold' = fold
  <2>1. leg.kind = "warc" => ~leg.page BY LegAssumption DEF LegInv, Shaped
  <2> QED BY <2>1 DEF Finish
<1>9. Shaped' BY <1>1, <1>5 DEF LegInv, Shaped, ScriptAnswers
<1>10. Phased' BY <1>1, <1>2, <1>7 DEF Phased
<1>11. CallOver' BY <1>1, <1>2, <1>7 DEF LegInv, CallOver
<1>12. TakenDown'
  <2>1. \A type : Ahead(type)' = Ahead(type) /\ Sent(type)' = Sent(type) BY <1>1 DEF Ahead, Sent
  <2> QED BY <1>1, <1>2, <1>5, <2>1 DEF LegInv, TakenDown
<1>13. WithinCap' BY <1>1, <1>5 DEF LegInv, WithinCap
<1>14. Decided'
  <2>1. Complete' = Complete BY <1>1 DEF Complete, Sent
  <2>2. ReadWhole => ReadWhole' BY <1>1, <1>2, <1>5, <1>8, <2>1 DEF ReadWhole, Records
  <2> HIDE DEF result
  <2> QED BY <1>1, <1>3, <1>5, <1>7, <2>1, <2>2 DEF Decided
<1> QED BY <1>9, <1>10, <1>11, <1>12, <1>13, <1>14 DEF LegInv

\* The last part is gathered: the success the call earned is reported.
LEMMA GatherEndsKept ==
  ASSUME LegInv, GatherEnds
  PROVE  LegInv'
<1>1. /\ UNCHANGED <<leg, upload, net, server>> /\ reader.phase = "gathering"
      /\ reader' = [reader EXCEPT !.phase = "done"]
      /\ \E warnings : outcome' = Succeeded(warnings)
  BY DEF GatherEnds, AllGathered
<1>2. /\ reader'.phase = "done" /\ outcome'.done = TRUE /\ outcome'.success = TRUE
      /\ DOMAIN reader' = DOMAIN reader
      /\ \A f \in {"trailer", "document", "error", "bytes", "over"} : reader'[f] = reader[f]
  BY <1>1 DEF Succeeded, LegInv, Shaped
<1>3. Remote /\ Remote' /\ Cut' = Cut /\ leg.kind \in {"epub", "email"}
  BY <1>1 DEF LegInv, Phased, Remote, Cut
<1>4. Shaped' BY <1>1, <1>2 DEF LegInv, Shaped, ScriptAnswers
<1>5. Phased' BY <1>2, <1>3 DEF Phased
<1>6. CallOver' BY <1>1, <1>2, <1>3 DEF LegInv, CallOver
<1>7. TakenDown'
  <2>1. \A type : Ahead(type)' = Ahead(type) /\ Sent(type)' = Sent(type) BY <1>1 DEF Ahead, Sent
  <2> QED BY <1>1, <1>2, <1>3, <2>1 DEF LegInv, TakenDown
<1>8. WithinCap' BY <1>1, <1>2 DEF LegInv, WithinCap
<1>9. Decided'
  <2>1. Complete' = Complete BY <1>1 DEF Complete, Sent
  <2>2. ReadWhole BY <1>1, <1>3 DEF LegInv, Decided
  <2>3. ReadWhole' BY <1>1, <1>2, <1>3, <2>1, <2>2 DEF ReadWhole
  <2> QED BY <1>2, <2>3 DEF Decided
<1> QED BY <1>4, <1>5, <1>6, <1>7, <1>8, <1>9 DEF LegInv

----------------------------------------------------------------------------
(* The theorems. *)

LEMMA LegInvInit == Init => LegInv
<1> SUFFICES ASSUME Init PROVE LegInv
  OBVIOUS
<1>1. /\ leg \in Legs /\ net = [frames |-> 0, half |-> FALSE, answers |-> <<>>, status |-> "open"]
      /\ server = [script |-> leg.script, owed |-> 0, seen |-> FALSE]
      /\ upload = [sent |-> 0, state |-> "writing"]
      /\ outcome.done = FALSE
  BY DEF Init, NoOutcome
<1>2. leg.script \in Seq(ScriptAnswers) /\ <<>> \in Seq(ScriptAnswers) /\ BookByteCap \in Nat
  BY <1>1, LegAssumption DEF ScriptAnswers
<1>3. Shaped BY <1>1, <1>2 DEF Shaped, Init
<1>4. reader.phase = "start" /\ reader.trailer = FALSE /\ reader.document = FALSE
      /\ reader.error = "none" /\ reader.bytes = 0 /\ reader.over = FALSE
  BY DEF Init
<1>5. Phased BY <1>1, <1>4 DEF Phased
<1>6. CallOver BY <1>1, <1>4 DEF CallOver, Cut
<1>7. TakenDown
  <2>1. net.answers = <<>> /\ server.script = leg.script BY <1>1
  <2>2. ASSUME NEW type PROVE Ahead(type) <=> Sent(type)
    BY <2>1 DEF Ahead, Says, Sent
  <2> QED BY <1>4, <2>2 DEF TakenDown, Sent, Ahead, Says
<1>8. WithinCap BY <1>2, <1>4 DEF WithinCap
<1>9. Decided BY <1>4 DEF Decided
<1> QED BY <1>3, <1>5, <1>6, <1>7, <1>8, <1>9 DEF LegInv

LEMMA LegInvStep == LegInv /\ [Next]_vars => LegInv'
<1> SUFFICES ASSUME LegInv, [Next]_vars PROVE LegInv'
  OBVIOUS
<1>1. CASE UNCHANGED vars
  <2>1. Still /\ SameFields BY <1>1 DEF vars, Still, SameFields
  <2> QED BY <2>1, StillKept
<1>2. CASE Next
  BY <1>2, WriterKept, ServerListensKept, OutsideKept, PartKept, FoldsKept, HandlerKept, StartKept,
     AnswerKept, EndKept, ReadPlainKept, ReadBookKept, ReadHtmlKept, ReadWarcKept, PhaseMoves,
     FinishKept, GatherEndsKept
     DEF Next
<1> QED BY <1>1, <1>2

\* A leg's flags, its call and its outcome agree at every moment, for every
\* leg, window, number of dialers and cap.
THEOREM LegInvKept == Spec => []LegInv
BY LegInvInit, LegInvStep, PTL DEF Spec

\* What a leg reports is what happened on the wire, for every script a server
\* may give and every moment the call may be cut at.
THEOREM OutcomeAlwaysTruthful == Spec => []OutcomeTruthful
<1>1. LegInv => OutcomeTruthful
  <2> SUFFICES ASSUME LegInv, outcome.done, Remote PROVE OutcomeTruthful
    BY DEF OutcomeTruthful
  <2>1. reader.phase = "done" BY DEF LegInv, Phased
  <2>2. upload.state # "writing" BY <2>1 DEF LegInv, CallOver
  <2>3. /\ outcome.success => ReadWhole
        /\ (net.status = "OK" /\ Complete /\ ~reader.over) => outcome.success
    BY <2>1 DEF LegInv, Decided
  <2> QED BY <2>2, <2>3 DEF OutcomeTruthful, ReadWhole, Cut
<1> QED BY <1>1, LegInvKept, PTL
=============================================================================
