----------------------- MODULE ConsensusSourceProofs -----------------------
(***************************************************************************)
(* A consensus source, for any number of legs, workers, pages, candidates, *)
(* faults and evictions: cancel() stops every leg's calls, and the cancel  *)
(* that follows a failure never hides it; a healthy leg carries every page *)
(* it has; a backend that keeps the document is sent it once.              *)
(***************************************************************************)
EXTENDS ConsensusSource, FiniteSetTheorems, TLAPS

\* The types the argument needs.
CallTypes ==
  /\ handshake \in BOOLEAN
  /\ leg_cancelled \in [Legs -> BOOLEAN]
  /\ cancelling \in 0..(NumLegs + 1)
  /\ op \in [Threads -> [Legs -> OpType]]

\* cancel() has set cancelled_ of the legs it passed and of no other, and has
\* aborted what was registered with them.
LegsCancelled ==
  \A l \in Legs :
    /\ leg_cancelled[l] <=> cancelling > l
    /\ \A t \in Threads :
         /\ op[t][l].st = "call" /\ leg_cancelled[l] => op[t][l].aborted
         /\ op[t][l].aborted => leg_cancelled[l]

\* An operation ends as cancelled only after cancel() began, and cancel()
\* begins only after a failure was recorded or the client cancelled.
CancelHasCause ==
  /\ \A t \in Threads, l \in Legs : op[t][l].st = "cancelled" => cancelling # 0
  /\ cancelling # 0 => failure # NoFailure \/ client_cancelled
  /\ FirstCauseKept

CancelInv == CallTypes /\ LegsCancelled /\ CancelHasCause

----------------------------------------------------------------------------
\* What LegFailures adds up to is one of the failures, or an outage.
LEMMA RaiseKeepsCancel ==
  ASSUME NEW kinds, raise(kinds) = "cancelled"
  PROVE  "cancelled" \in kinds
<1>1. CASE Cardinality(kinds) = 1
  <2>1. kinds # {} BY <1>1, FS_EmptySet
  <2>2. PICK k \in kinds : TRUE BY <2>1
  <2>3. (CHOOSE x \in kinds : TRUE) \in kinds BY <2>2
  <2> QED BY <1>1, <2>3 DEF raise
<1>2. CASE Cardinality(kinds) # 1
  BY <1>2 DEF raise
<1> QED BY <1>1, <1>2

\* What the legs' failures add up to is a failure.
LEMMA RaiseIsFailure ==
  ASSUME NEW kinds, kinds \subseteq Failures
  PROVE  raise(kinds) \in Failures
<1>1. CASE Cardinality(kinds) = 1
  <2>1. kinds # {} BY <1>1, FS_EmptySet
  <2>2. (CHOOSE x \in kinds : TRUE) \in kinds BY <2>1
  <2> QED BY <1>1, <2>2 DEF raise, Failures, Outages
<1>2. CASE Cardinality(kinds) # 1
  BY <1>2 DEF raise, Failures, Outages
<1> QED BY <1>1, <1>2

\* Legs are numbers from 1 and their number is finite.
LEMMA LegsAreNumbers ==
  /\ NumLegs \in Nat \ {0} /\ Legs = 1..NumLegs
  /\ Candidates \in Nat
  /\ Opener \in Threads /\ \A w \in Workers : w \in Threads
BY ConsensusAssumption DEF ConsensusAssumption, Threads

\* The outcomes an operation may end with.
LEMMA OpsAreTyped ==
  /\ Idle \in OpType
  /\ \A kind \in Failures \cup Answers : Ended(kind) \in OpType
  /\ handshake \in BOOLEAN => \A try \in 0..Candidates : Start(try) \in OpType
  /\ NoOps \in [Legs -> OpType]
<1>1. Idle \in OpType
  BY LegsAreNumbers DEF Idle, OpType
<1>2. ASSUME NEW kind \in Failures \cup Answers PROVE Ended(kind) \in OpType
  BY <1>2, LegsAreNumbers DEF Ended, OpType
<1>3. ASSUME handshake \in BOOLEAN, NEW try \in 0..Candidates PROVE Start(try) \in OpType
  BY <1>3 DEF Start, OpType
<1>4. NoOps \in [Legs -> OpType]
  BY <1>1 DEF NoOps
<1> QED BY <1>1, <1>2, <1>3, <1>4

\* A source that was just made has no call, no cancel and no failure.
LEMMA InitCancel == Init => CancelInv
<1> SUFFICES ASSUME Init PROVE CancelInv OBVIOUS
<1>1. CallTypes
  <2>1. op \in [Threads -> [Legs -> OpType]]
    BY OpsAreTyped DEF Init
  <2>2. 0 \in 0..(NumLegs + 1)
    BY LegsAreNumbers
  <2> QED BY <2>1, <2>2 DEF Init, CallTypes
<1>2. LegsCancelled
  BY LegsAreNumbers DEF Init, LegsCancelled, NoOps, Idle
<1>3. CancelHasCause
  BY DEF Init, CancelHasCause, FirstCauseKept, NoOps, Idle, NoFailure
<1> QED BY <1>1, <1>2, <1>3 DEF CancelInv

----------------------------------------------------------------------------
\* The steps that write one operation of one thread and leave the request and
\* the document alone keep the invariant when what they write is typed, is not
\* registered and not newly aborted, and ends as cancelled only after
\* cancel() began.
Harmless(o) ==
  /\ o \in OpType
  /\ o.st # "call" /\ ~o.aborted
  /\ o.st = "cancelled" => cancelling # 0

\* One operation written, by a step that leaves the request and the document alone.
LEMMA WritingOne ==
  ASSUME CancelInv, UNCHANGED <<handshake, request, document>>,
         NEW t \in Threads, NEW l \in Legs, NEW o,
         Harmless(o), op' = [op EXCEPT ![t][l] = o]
  PROVE  CancelInv'
<1> USE DEF request, document
<1>1. CallTypes'
  BY DEF CancelInv, CallTypes, Harmless
<1>2. ASSUME NEW t1 \in Threads, NEW l1 \in Legs
      PROVE  op'[t1][l1] = op[t1][l1] \/ op'[t1][l1] = o
  BY <1>2 DEF CancelInv, CallTypes
<1>3. LegsCancelled'
  BY <1>2 DEF CancelInv, LegsCancelled, Harmless
<1>4. CancelHasCause'
  BY <1>2 DEF CancelInv, CancelHasCause, FirstCauseKept, Harmless
<1> QED BY <1>1, <1>3, <1>4 DEF CancelInv

\* The same for a step that writes all operations of one thread.
LEMMA WritingAll ==
  ASSUME CancelInv, UNCHANGED <<handshake, leg_cancelled>>,
         NEW t \in Threads, NEW ops,
         \A l \in Legs : Harmless(ops[l]),
         ops \in [Legs -> OpType],
         op' = [op EXCEPT ![t] = ops]
  PROVE  /\ UNCHANGED cancelling => CallTypes' /\ LegsCancelled'
         /\ cancelling = 0 /\ cancelling' = 1 => CallTypes' /\ LegsCancelled'
         /\ UNCHANGED <<cancelling, failure, client_cancelled>> => CancelInv'
<1>1. ASSUME NEW t1 \in Threads, NEW l1 \in Legs
      PROVE  op'[t1][l1] = op[t1][l1] \/ op'[t1][l1] = ops[l1]
  BY <1>1 DEF CancelInv, CallTypes
<1>2. UNCHANGED cancelling => CallTypes'
  BY DEF CancelInv, CallTypes
<1>3. UNCHANGED cancelling => LegsCancelled'
  BY <1>1 DEF CancelInv, LegsCancelled, Harmless
<1>4. cancelling = 0 /\ cancelling' = 1 => CallTypes'
  BY LegsAreNumbers DEF CancelInv, CallTypes
<1>5. cancelling = 0 /\ cancelling' = 1 => LegsCancelled'
  BY <1>1, LegsAreNumbers DEF CancelInv, LegsCancelled, Harmless
<1>6. UNCHANGED <<cancelling, failure, client_cancelled>> => CancelHasCause'
  BY <1>1 DEF CancelInv, CancelHasCause, FirstCauseKept, Harmless
<1> QED BY <1>2, <1>3, <1>4, <1>5, <1>6 DEF CancelInv

\* A page, or the open, that fails: only a cancelled operation makes it fail
\* as cancelled, and then either a cause is on record or the client's is.
LEMMA Failing ==
  ASSUME CancelInv, UNCHANGED handshake, NEW t \in Threads, NEW kind \in Failures,
         kind = "cancelled" => cancelling # 0,
         fail(t, kind), op' = [op EXCEPT ![t] = NoOps]
  PROVE  CancelInv'
<1>1. \A l \in Legs : Harmless(NoOps[l])
  BY OpsAreTyped DEF Harmless, NoOps, Idle
<1>2. cancelling' = cancelling \/ (cancelling = 0 /\ cancelling' = 1)
  BY DEF fail
<1>3. CallTypes' /\ LegsCancelled'
  BY <1>1, <1>2, OpsAreTyped, WritingAll, Zenon DEF fail
<1>4. ASSUME NEW t1 \in Threads, NEW l1 \in Legs, op'[t1][l1].st = "cancelled"
      PROVE  op[t1][l1].st = "cancelled"
  BY <1>4 DEF CancelInv, CallTypes, NoOps, Idle
<1>5. \A t1 \in Threads, l1 \in Legs : op'[t1][l1].st = "cancelled" => cancelling' # 0
  BY <1>4 DEF CancelInv, CancelHasCause, fail
<1>6. failure' # NoFailure
  BY DEF fail, NoFailure, Failures, Outages
<1>7. FirstCauseKept'
  BY DEF fail, CancelInv, CancelHasCause, FirstCauseKept
<1> QED BY <1>3, <1>5, <1>6, <1>7 DEF CancelInv, CancelHasCause

\* A step that changes none of what the invariant reads.
LEMMA Stutter ==
  ASSUME CancelInv, UNCHANGED <<handshake, request, failure, op>>
  PROVE  CancelInv'
BY DEF CancelInv, CallTypes, LegsCancelled, CancelHasCause, FirstCauseKept, request

----------------------------------------------------------------------------
(* The operations of a leg.                                                *)

\* A registered call is one the cancel has not passed.
LEMMA RegisterCallStep ==
  ASSUME CancelInv, NEW t \in Threads, NEW l \in Legs, RegisterCall(t, l)
  PROVE  CancelInv'
<1>1. CASE leg_cancelled[l]
  <2>1. cancelling # 0
    BY <1>1, LegsAreNumbers DEF CancelInv, CallTypes, LegsCancelled
  <2>2. Harmless(Ended("cancelled"))
    BY <2>1, OpsAreTyped DEF Harmless, Ended, Failures
  <2>3. /\ op' = [op EXCEPT ![t][l] = Ended("cancelled")]
        /\ UNCHANGED <<handshake, request, document>>
    BY <1>1 DEF RegisterCall, CancelInv, CallTypes
  <2> QED BY <2>2, <2>3, WritingOne
<1>2. CASE ~leg_cancelled[l]
  <2>1. op' = [op EXCEPT ![t][l] = [@ EXCEPT !.st = "call"]]
    BY <1>2 DEF RegisterCall, CancelInv, CallTypes
  <2>2. op' \in [Threads -> [Legs -> OpType]]
    <3>1. op[t][l] \in OpType
      BY DEF CancelInv, CallTypes
    <3>2. [op[t][l] EXCEPT !.st = "call"] \in OpType
      BY <3>1 DEF OpType
    <3> QED BY <2>1, <3>2 DEF CancelInv, CallTypes
  <2>3. ASSUME NEW t1 \in Threads, NEW l1 \in Legs
        PROVE  /\ op'[t1][l1].aborted = op[t1][l1].aborted
               /\ op'[t1][l1].st # op[t1][l1].st => op'[t1][l1].st = "call" /\ l1 = l
    BY <2>1, <2>3 DEF CancelInv, CallTypes, OpType
  <2>4. UNCHANGED <<handshake, request, document>>
    BY DEF RegisterCall
  <2>5. CallTypes'
    BY <2>2, <2>4 DEF CancelInv, CallTypes, request
  <2>6. LegsCancelled'
    BY <1>2, <2>3, <2>4 DEF CancelInv, LegsCancelled, request
  <2>7. CancelHasCause'
    BY <2>3, <2>4 DEF CancelInv, CancelHasCause, FirstCauseKept, request, document
  <2> QED BY <2>5, <2>6, <2>7 DEF CancelInv
<1> QED BY <1>1, <1>2

\* TryCancel reaches a call only through cancel().
LEMMA CallFailsStep ==
  ASSUME CancelInv, NEW t \in Threads, NEW l \in Legs, CallFails(t, l)
  PROVE  CancelInv'
<1>1. UNCHANGED <<handshake, request, document>>
  BY DEF CallFails
<1>2. CASE op[t][l].aborted /\ op' = [op EXCEPT ![t][l] = Ended("cancelled")]
  <2>1. cancelling # 0
    BY <1>2, LegsAreNumbers DEF CancelInv, CallTypes, LegsCancelled
  <2>2. Harmless(Ended("cancelled"))
    BY <2>1, OpsAreTyped DEF Harmless, Ended, Failures
  <2> QED BY <1>1, <1>2, <2>2, WritingOne
<1>3. ASSUME NEW kind \in FaultKinds, op' = [op EXCEPT ![t][l] = Ended(kind)]
      PROVE  CancelInv'
  <2>1. kind \in Failures /\ kind # "cancelled"
    BY ConsensusAssumption DEF ConsensusAssumption, Failures, Outages
  <2>2. Harmless(Ended(kind))
    BY <2>1, OpsAreTyped DEF Harmless, Ended, Failures, Outages
  <2> QED BY <1>1, <1>3, <2>2, WritingOne
<1> QED BY <1>2, <1>3 DEF CallFails

\* The retry with the bytes is a new call: registered and checked afresh.
LEMMA BytesRequiredStep ==
  ASSUME CancelInv, NEW t \in Threads, NEW l \in Legs, BytesRequired(t, l)
  PROVE  CancelInv'
<1> DEFINE o == [op[t][l] EXCEPT !.st = "start", !.bytes = TRUE, !.aborted = FALSE]
<1>1. Harmless(o)
  <2>1. op[t][l] \in OpType
    BY DEF CancelInv, CallTypes
  <2>2. o.st = "start" /\ o.aborted = FALSE
    BY <2>1 DEF OpType
  <2>3. o \in OpType
    BY <2>1 DEF OpType
  <2> QED BY <2>2, <2>3 DEF Harmless
<1>2. /\ op' = [op EXCEPT ![t][l] = o]
      /\ UNCHANGED <<handshake, request, document>>
  BY DEF BytesRequired, CancelInv, CallTypes, backend
<1> HIDE DEF o
<1> QED BY <1>1, <1>2, WritingOne

\* An operation that starts, or ends with an answer or a refusal.
LEMMA PlainOps ==
  ASSUME CancelInv
  PROVE  /\ \A try \in 0..Candidates : Harmless(Start(try))
         /\ \A result \in Answers \cup {"invalid"} : Harmless(Ended(result))
         /\ Harmless(Idle)
<1>1. handshake \in BOOLEAN
  BY DEF CancelInv, CallTypes
<1>2. \A try \in 0..Candidates : Harmless(Start(try))
  BY <1>1, OpsAreTyped DEF Harmless, Start
<1>3. ASSUME NEW result \in Answers \cup {"invalid"} PROVE Harmless(Ended(result))
  BY <1>3, OpsAreTyped DEF Harmless, Ended, Answers, Failures
<1>4. Harmless(Idle)
  BY OpsAreTyped DEF Harmless, Idle
<1> QED BY <1>2, <1>3, <1>4

\* A Probe's answer opens the leg, tries the next candidate, or refuses.
LEMMA ProbeAnsweredStep ==
  ASSUME CancelInv, NEW l \in Legs, ProbeAnswered(l)
  PROVE  CancelInv'
<1> DEFINE try == op[Opener][l].try
<1>1. UNCHANGED <<handshake, request, document>>
  BY DEF ProbeAnswered, Loaded
<1>2. PICK o : Harmless(o) /\ op' = [op EXCEPT ![Opener][l] = o]
  <2>1. CASE op' = [op EXCEPT ![Opener][l] = Ended("opened")]
    BY <2>1, PlainOps DEF Answers
  <2>2. CASE op' = [op EXCEPT ![Opener][l] = Ended("invalid")]
    BY <2>2, PlainOps
  <2>3. CASE try < Candidates /\ op' = [op EXCEPT ![Opener][l] = Start(try + 1)]
    <3>1. try \in Nat
      BY LegsAreNumbers DEF CancelInv, CallTypes, OpType
    <3>2. try + 1 \in 0..Candidates
      BY <2>3, <3>1, LegsAreNumbers
    <3> QED BY <2>3, <3>2, PlainOps
  <2> QED BY <2>1, <2>2, <2>3 DEF ProbeAnswered
<1> QED BY <1>1, <1>2, WritingOne, LegsAreNumbers

\* A Parse or Render answer ends the operation, never as cancelled.
LEMMA PageAnsweredStep ==
  ASSUME CancelInv, NEW w \in Workers, NEW l \in Legs,
         ParseAnswered(w, l) \/ RenderAnswered(w, l)
  PROVE  CancelInv'
<1>1. UNCHANGED <<handshake, request, document>>
  BY DEF ParseAnswered, RenderAnswered, Loaded
<1>2. PICK result \in Answers \cup {"invalid"} : op' = [op EXCEPT ![w][l] = Ended(result)]
  BY DEF ParseAnswered, RenderAnswered, Answers
<1> QED BY <1>1, <1>2, PlainOps, WritingOne, LegsAreNumbers

----------------------------------------------------------------------------
(* The document's threads.                                                 *)

\* open() starts one Probe per leg.
LEMMA BeginOpenStep ==
  ASSUME CancelInv, BeginOpen
  PROVE  CancelInv'
<1> DEFINE ops == [l \in Legs |-> Start(0)]
<1>1. /\ op' = [op EXCEPT ![Opener] = ops]
      /\ UNCHANGED <<handshake, leg_cancelled, cancelling, failure, client_cancelled>>
  BY DEF BeginOpen, backend, document, request
<1>2. \A l \in Legs : Harmless(ops[l])
  BY PlainOps, LegsAreNumbers
<1>3. ops \in [Legs -> OpType]
  BY <1>2 DEF Harmless
<1> HIDE DEF ops
<1> QED BY <1>1, <1>2, <1>3, WritingAll, LegsAreNumbers

\* A cancelled outcome among a thread's legs means cancel() began.
LEMMA ResultsKnown ==
  ASSUME CancelInv, NEW t \in Threads, "cancelled" \in Results(t)
  PROVE  cancelling # 0
BY DEF CancelInv, CancelHasCause, Results

\* open() folds the Probes: it fails or the document is sized.
LEMMA FinishOpenStep ==
  ASSUME CancelInv, FinishOpen
  PROVE  CancelInv'
<1> DEFINE kind == raise(Results(Opener) \cap Failures)
<1>1. kind \in Failures
  BY RaiseIsFailure
<1>2. kind = "cancelled" => cancelling # 0
  BY RaiseKeepsCancel, ResultsKnown, LegsAreNumbers
<1>3. op' = [op EXCEPT ![Opener] = NoOps] /\ UNCHANGED handshake
  BY DEF FinishOpen, Leave, backend
<1>4. CASE fail(Opener, kind)
  <2> HIDE DEF kind
  <2> QED BY <1>1, <1>2, <1>3, <1>4, Failing, LegsAreNumbers
<1>5. CASE UNCHANGED <<document, request>>
  <2>1. \A l \in Legs : Harmless(NoOps[l])
    BY OpsAreTyped DEF Harmless, NoOps, Idle
  <2>2. UNCHANGED <<handshake, leg_cancelled, cancelling, failure, client_cancelled>>
    BY <1>3, <1>5 DEF document, request
  <2> QED BY <1>3, <2>1, <2>2, OpsAreTyped, WritingAll, LegsAreNumbers
<1> QED BY <1>4, <1>5 DEF FinishOpen

\* The page leaves without failing.
LEMMA Leaving ==
  ASSUME CancelInv, NEW t \in Threads, op' = [op EXCEPT ![t] = NoOps],
         UNCHANGED <<handshake, leg_cancelled, cancelling, failure, client_cancelled>>
  PROVE  CancelInv'
<1>1. \A l \in Legs : Harmless(NoOps[l])
  BY OpsAreTyped DEF Harmless, NoOps, Idle
<1> QED BY <1>1, OpsAreTyped, WritingAll

\* A leg joins the page's vote or sits it out.
LEMMA ScanLegStep ==
  ASSUME CancelInv, NEW w \in Workers, ScanLeg(w)
  PROVE  CancelInv'
<1>1. UNCHANGED <<handshake, request, document>> /\ at[w] \in Legs
  BY DEF ScanLeg, backend
<1>2. Harmless(Start(0)) /\ Harmless(Idle)
  BY PlainOps, LegsAreNumbers
<1>3. PICK o : Harmless(o) /\ op' = [op EXCEPT ![w][at[w]] = o]
  BY <1>2 DEF ScanLeg
<1> QED BY <1>1, <1>3, WritingOne, LegsAreNumbers

\* render_page asks a leg or passes it over.
LEMMA AskRasterStep ==
  ASSUME CancelInv, NEW w \in Workers, AskRaster(w)
  PROVE  CancelInv'
<1>1. UNCHANGED <<handshake, request, document>> /\ at[w] \in Legs
  BY DEF AskRaster, backend
<1>2. CASE op' = [op EXCEPT ![w][at[w]] = Start(0)]
  <2>1. Harmless(Start(0))
    BY PlainOps, LegsAreNumbers
  <2>2. w \in Threads
    BY LegsAreNumbers
  <2> QED BY <1>1, <1>2, <2>1, <2>2, WritingOne
<1>3. CASE UNCHANGED op
  BY <1>1, <1>3, Stutter DEF document
<1> QED BY <1>2, <1>3 DEF AskRaster

\* One leg's outcome of a text page: a cancel fails the page.
LEMMA FoldLegStep ==
  ASSUME CancelInv, NEW w \in Workers, FoldLeg(w)
  PROVE  CancelInv'
<1>1. UNCHANGED handshake
  BY DEF FoldLeg, backend
<1>2. CASE op[w][at[w]].st = "cancelled" /\ fail(w, "cancelled") /\ Leave(w)
  <2>1. cancelling # 0
    BY <1>2, LegsAreNumbers DEF FoldLeg, CancelInv, CancelHasCause
  <2> QED BY <1>1, <1>2, <2>1, Failing, LegsAreNumbers DEF Leave, Failures
<1>3. CASE UNCHANGED <<op, document, request>>
  BY <1>1, <1>3, Stutter DEF document
<1> QED BY <1>2, <1>3 DEF FoldLeg

\* The text page fails, is settled, or goes on to be rendered.
LEMMA EndTextStep ==
  ASSUME CancelInv, NEW w \in Workers, EndText(w)
  PROVE  CancelInv'
<1> DEFINE kind == raise(Results(w) \cap Failures)
<1>1. UNCHANGED handshake
  BY DEF EndText, backend
<1>2. kind \in Failures /\ (kind = "cancelled" => cancelling # 0)
  BY RaiseIsFailure, RaiseKeepsCancel, ResultsKnown, LegsAreNumbers
<1>3. CASE fail(w, kind) /\ Leave(w)
  <2> HIDE DEF kind
  <2> QED BY <1>1, <1>2, <1>3, Failing, LegsAreNumbers DEF Leave
<1>4. CASE /\ op' = [op EXCEPT ![w] = NoOps]
           /\ UNCHANGED <<failure, request>>
  BY <1>1, <1>4, Leaving, LegsAreNumbers DEF request
<1> QED BY <1>3, <1>4 DEF EndText, Leave, document

\* One leg's outcome of a raster.
LEMMA TakeRasterStep ==
  ASSUME CancelInv, NEW w \in Workers, TakeRaster(w)
  PROVE  CancelInv'
<1>1. UNCHANGED handshake
  BY DEF TakeRaster, backend
<1>2. CASE op[w][at[w]].st = "cancelled" /\ fail(w, "cancelled") /\ Leave(w)
  <2>1. cancelling # 0
    BY <1>2, LegsAreNumbers DEF TakeRaster, CancelInv, CancelHasCause
  <2> QED BY <1>1, <1>2, <2>1, Failing, LegsAreNumbers DEF Leave, Failures
<1>3. CASE Leave(w) /\ UNCHANGED <<failure, request>>
  BY <1>1, <1>3, Leaving, LegsAreNumbers DEF Leave, request
<1>4. CASE UNCHANGED <<op, document, request>>
  BY <1>1, <1>4, Stutter DEF document
<1> QED BY <1>2, <1>3, <1>4 DEF TakeRaster

\* No leg rendered the page.
LEMMA EndRasterStep ==
  ASSUME CancelInv, NEW w \in Workers, EndRaster(w)
  PROVE  CancelInv'
<1> DEFINE failed == Results(w) \cap Failures
           kind == IF failed = {} THEN "invalid" ELSE raise(failed)
<1>1. UNCHANGED handshake /\ fail(w, kind) /\ Leave(w)
  BY DEF EndRaster, backend
<1>2. kind \in Failures
  BY RaiseIsFailure DEF Failures
<1>3. kind = "cancelled" => cancelling # 0
  BY RaiseKeepsCancel, ResultsKnown, LegsAreNumbers
<1> HIDE DEF kind
<1> QED BY <1>1, <1>2, <1>3, Failing, LegsAreNumbers DEF Leave

\* cancel() reaches one more leg and everything registered with it.
LEMMA CancelLegStep ==
  ASSUME CancelInv, CancelLeg
  PROVE  CancelInv'
<1>1. /\ cancelling \in Legs /\ cancelling' = cancelling + 1
      /\ leg_cancelled' = [leg_cancelled EXCEPT ![cancelling] = TRUE]
      /\ UNCHANGED <<handshake, failure, client_cancelled>>
  BY DEF CancelLeg, backend, document
<1>2. cancelling \in 1..NumLegs /\ cancelling' \in 1..(NumLegs + 1)
  BY <1>1, LegsAreNumbers
<1>3. ASSUME NEW t \in Threads, NEW l \in Legs
      PROVE  /\ op'[t][l] \in OpType
             /\ op'[t][l].st = op[t][l].st
             /\ l # cancelling => op'[t][l] = op[t][l]
             /\ l = cancelling =>
                  (op'[t][l].aborted <=> op[t][l].aborted \/ op[t][l].st = "call")
  <2>1. op[t][l] \in OpType /\ op[t] \in [Legs -> OpType]
    BY DEF CancelInv, CallTypes
  <2>2. op'[t] = [op[t] EXCEPT ![cancelling].aborted =
                    op[t][cancelling].aborted \/ op[t][cancelling].st = "call"]
    BY DEF CancelLeg
  <2>3. CASE l # cancelling
    BY <2>1, <2>2, <2>3
  <2>4. CASE l = cancelling
    BY ZenonT(40), <2>1, <2>2, <2>4 DEF OpType
  <2> QED BY <2>1, <2>3, <2>4
<1>4. op' \in [Threads -> [Legs -> OpType]]
  <2>1. op' = [t \in Threads |-> [op[t] EXCEPT ![cancelling].aborted =
                 op[t][cancelling].aborted \/ op[t][cancelling].st = "call"]]
    BY DEF CancelLeg
  <2>2. ASSUME NEW t \in Threads
        PROVE  op'[t] = [l \in Legs |-> op'[t][l]]
    BY <2>1 DEF CancelInv, CallTypes
  <2>3. ASSUME NEW t \in Threads
        PROVE  op'[t] \in [Legs -> OpType]
    BY <1>3, <2>2
  <2> QED BY <2>1, <2>3
<1>5. CallTypes'
  BY <1>1, <1>2, <1>4 DEF CancelInv, CallTypes
<1>6. LegsCancelled'
  BY <1>1, <1>2, <1>3, LegsAreNumbers DEF CancelInv, CallTypes, LegsCancelled
<1>7. CancelHasCause'
  BY <1>1, <1>2, <1>3 DEF CancelInv, CancelHasCause, FirstCauseKept
<1> QED BY <1>5, <1>6, <1>7 DEF CancelInv

\* The client's cancel is a cause of its own.
LEMMA ClientCancelsStep ==
  ASSUME CancelInv, ClientCancels
  PROVE  CancelInv'
<1>1. /\ client_cancelled'
      /\ cancelling' = cancelling \/ (cancelling = 0 /\ cancelling' = 1)
      /\ UNCHANGED <<handshake, leg_cancelled, op, failure>>
  BY DEF ClientCancels, backend, document
<1>2. CallTypes'
  BY <1>1, LegsAreNumbers DEF CancelInv, CallTypes
<1>3. LegsCancelled'
  BY <1>1, LegsAreNumbers DEF CancelInv, LegsCancelled
<1>4. CancelHasCause'
  BY <1>1 DEF CancelInv, CancelHasCause, FirstCauseKept
<1> QED BY <1>2, <1>3, <1>4 DEF CancelInv

----------------------------------------------------------------------------
\* The steps a call of any thread shares.
LEMMA CallStep ==
  ASSUME CancelInv, NEW t \in Threads, NEW l \in Legs, Call(t, l)
  PROVE  CancelInv'
BY RegisterCallStep, CallFailsStep, BytesRequiredStep DEF Call

\* A render worker's steps.
LEMMA WorkerStepKeeps ==
  ASSUME CancelInv, NEW w \in Workers, WorkerStep(w)
  PROVE  CancelInv'
<1>1. CASE BeginPage(w)
  BY <1>1, Stutter DEF BeginPage, backend
<1>2. CASE \E l \in Legs : Call(w, l)
  BY <1>2, CallStep, LegsAreNumbers
<1> QED
  BY <1>1, <1>2, ScanLegStep, FoldLegStep, EndTextStep, AskRasterStep, TakeRasterStep,
     EndRasterStep, PageAnsweredStep DEF WorkerStep

\* No step of the document, the backends or the client breaks it.
LEMMA NextCancel == CancelInv /\ [Next]_vars => CancelInv'
<1> SUFFICES ASSUME CancelInv, [Next]_vars PROVE CancelInv' OBVIOUS
<1>1. CASE OpenerStep
  BY <1>1, BeginOpenStep, FinishOpenStep, CallStep, ProbeAnsweredStep, LegsAreNumbers
     DEF OpenerStep
<1>2. CASE \E w \in Workers : WorkerStep(w)
  BY <1>2, WorkerStepKeeps
<1>3. CASE \E l \in Legs : Evict(l)
  BY <1>3, Stutter DEF Evict, document
<1>4. CASE ClientCancels
  BY <1>4, ClientCancelsStep
<1>5. CASE CancelLeg
  BY <1>5, CancelLegStep
<1>6. CASE Terminated \/ UNCHANGED vars
  BY <1>6, Stutter DEF Terminated, vars, request
<1> QED BY <1>1, <1>2, <1>3, <1>4, <1>5, <1>6 DEF Next

\* The invariant holds of every reachable state.
LEMMA CancelInvariant == Spec => []CancelInv
BY InitCancel, NextCancel, PTL DEF Spec

\* For every number of legs, workers and pages, a leg that cancel() has passed
\* has no call in flight that was not aborted (Call and cancel() of
\* remote_page_source.cpp).
THEOREM CancelAlwaysStopsCalls == Spec => []CancelStopsCalls
<1>1. CancelInv => CancelStopsCalls
  BY DEF CancelInv, LegsCancelled, CancelStopsCalls
<1> QED BY <1>1, CancelInvariant, PTL

\* A document reported as cancelled was cancelled by its client, whatever
\* failed beside it (Ticket::State::fail of page_scheduler.cpp over the
\* consensus source).
THEOREM FirstCauseAlwaysKept == Spec => []FirstCauseKept
<1>1. CancelInv => FirstCauseKept
  BY DEF CancelInv, CancelHasCause
<1> QED BY <1>1, CancelInvariant, PTL

----------------------------------------------------------------------------
(* What a healthy backend's pages rest on.                                 *)

BackendTypes ==
  /\ handshake \in BOOLEAN /\ lock \in 0..(Candidates + 1)
  /\ cached \in [Legs -> BOOLEAN] /\ uploads \in [Legs -> 0..2]
  /\ bad \in [Legs -> SUBSET Failures]
  /\ evictions \in 0..MaxEvictions /\ faults \in 0..MaxFaults
SourceTypes ==
  /\ opened \in {"closed", "open"} \cup Failures
  /\ pages_of \in [Legs -> Nat] /\ password \in [Legs -> 0..Candidates]
  /\ consecutive \in [Legs -> 0..BreakerFailures] /\ disabled \in [Legs -> BOOLEAN]
ThreadTypes ==
  /\ pc \in [Threads -> {"idle", "opening", "scan", "text", "raster"}]
  /\ at \in [Threads -> 1..(NumLegs + 1)] /\ page \in [Threads -> Nat]
  /\ op \in [Threads -> [Legs -> OpType]]
DocumentTypes ==
  /\ next_page \in Nat \ {0} /\ served \subseteq Nat
  /\ failure \in [kind : Failures \cup {"none"}, page : Nat]
  /\ client_cancelled \in BOOLEAN
Types == BackendTypes /\ SourceTypes /\ ThreadTypes /\ DocumentTypes

\* The document is opened once, by the opener; only then are there pages.
Stages ==
  /\ pc[Opener] \in {"idle", "opening"}
  /\ pc[Opener] = "opening" => opened = "closed"
  /\ opened = "closed" => \A l \in Legs : pages_of[l] = 0
  /\ \A w \in Workers :
       pc[w] # "opening" /\ (pc[w] # "idle" => opened = "open" /\ page[w] >= 1)

\* The opener probes while it opens; a page asks only legs that loaded.
OpsPlaced ==
  \A l \in Legs :
    /\ pc[Opener] = "idle" => op[Opener][l].st = "idle"
    /\ pc[Opener] = "opening" =>
         op[Opener][l].st \in {"start", "call", "opened"} \cup Failures
    /\ \A w \in Workers : op[w][l].st # "idle" => pages_of[l] > 0

\* A leg that loaded has a password that opens the document; one still looking
\* has not tried past it.
Doors ==
  \A l \in Legs :
    /\ op[Opener][l].st = "opened" \/ pages_of[l] > 0 => Opens(password[l])
    /\ Running(Opener, l) => lock = 0 \/ op[Opener][l].try <= lock

\* An operation that ends in a failure of its own, and a leg the breaker
\* dropped, had a backend that failed.
Blamed ==
  lock <= Candidates =>
    \A l \in Legs :
      /\ \A t \in Threads : op[t][l].st \in Failures \ {"cancelled"} => bad[l] # {}
      /\ disabled[l] => bad[l] # {}

\* A healthy backend is among the sources, with all its pages.
Sized ==
  lock <= Candidates /\ opened = "open" =>
    \A l \in Legs : bad[l] = {} => pages_of[l] = LegPages[l]

\* Leg l is healthy and has the page worker w reads.
Carries(w, l) == lock <= Candidates /\ bad[l] = {} /\ page[w] <= LegPages[l]

\* The scan asks it, and once the fold has begun nobody is asked any more.
Heard ==
  \A w \in Workers, l \in Legs :
    /\ pc[w] = "text" \/ (pc[w] = "scan" /\ l < at[w]) =>
         (Carries(w, l) => op[w][l].st \in {"start", "call", "text", "blank", "cancelled"})
    /\ pc[w] = "text" /\ at[w] > 1 => ~Running(w, l)

\* Rendering passes over no such leg.
Tried ==
  \A w \in Workers, l \in Legs : pc[w] = "raster" /\ l < at[w] => ~Carries(w, l)

PageInv ==
  /\ CancelInv /\ Types /\ Stages /\ OpsPlaced /\ Doors /\ Blamed /\ Sized
  /\ Heard /\ Tried /\ HealthyLegCarriesPage

\* A backend that keeps the document is sent it while nobody has it, by the
\* one thread that opens it: an operation with bytes not yet sent finds no
\* upload, a leg that opened is cached, and a page's operation carries none.
Sent(l) ==
  /\ pages_of[l] > 0 \/ op[Opener][l].st = "opened" => cached[l]
  /\ \A w \in Workers : ~op[w][l].bytes
  /\ opened = "closed" /\ pc[Opener] = "idle" => uploads[l] = 0
  /\ op[Opener][l].st = "start" /\ op[Opener][l].bytes => uploads[l] = 0
  /\ Running(Opener, l) /\ ~op[Opener][l].bytes => uploads[l] = 0 \/ cached[l]
  /\ uploads[l] <= 1

Uploads == handshake /\ evictions = 0 => \A l \in Legs : Sent(l)

\* Numbers of the configuration.
LEMMA Bounds ==
  /\ NumLegs \in Nat \ {0} /\ Legs = 1..NumLegs /\ Candidates \in Nat
  /\ \A l \in Legs : LegPages[l] \in Nat \ {0}
  /\ BreakerFailures \in Nat \ {0} /\ MaxFaults \in Nat /\ MaxEvictions \in Nat
  /\ FaultKinds \subseteq Outages \cup {"invalid"}
  /\ Opener \in Threads /\ Opener \notin Workers /\ \A w \in Workers : w \in Threads
BY ConsensusAssumption DEF ConsensusAssumption, Threads, Outages

\* A call's kinds of failure are failures, and none of them is a cancel.
LEMMA FaultsAreFailures == \A kind \in FaultKinds : kind \in Failures \ {"cancelled"}
BY Bounds DEF Failures, Outages

\* A source that was just made is typed.
LEMMA InitTypes == Init => Types
<1> SUFFICES ASSUME Init PROVE Types OBVIOUS
<1>1. BackendTypes BY Bounds DEF Init, BackendTypes
<1>2. SourceTypes BY Bounds DEF Init, SourceTypes
<1>3. ThreadTypes
  <2>1. 1 \in 1..(NumLegs + 1) BY Bounds
  <2> QED BY <2>1, OpsAreTyped DEF Init, ThreadTypes
<1>4. DocumentTypes
  <2>1. failure \in [kind : Failures \cup {"none"}, page : Nat] BY DEF Init, NoFailure
  <2>2. next_page \in Nat \ {0} /\ served \subseteq Nat BY DEF Init
  <2>3. client_cancelled \in BOOLEAN BY DEF Init
  <2> QED BY <2>1, <2>2, <2>3 DEF DocumentTypes
<1> QED BY <1>1, <1>2, <1>3, <1>4 DEF Types

\* Writing one operation, or all those of a thread.
LEMMA OneWritten ==
  ASSUME Types, NEW t \in Threads, NEW l \in Legs, NEW o, op' = [op EXCEPT ![t][l] = o]
  PROVE  /\ op'[t][l] = o
         /\ \A t1 \in Threads, l1 \in Legs : t1 # t \/ l1 # l => op'[t1][l1] = op[t1][l1]
BY DEF Types, ThreadTypes

\* All operations of one thread written at once.
LEMMA AllWritten ==
  ASSUME Types, NEW t \in Threads, NEW ops, op' = [op EXCEPT ![t] = ops]
  PROVE  op'[t] = ops /\ \A t1 \in Threads \ {t} : op'[t1] = op[t1]
BY DEF Types, ThreadTypes

\* A worker that leaves its page, and one that goes on with it.
LEMMA Left ==
  ASSUME Types, NEW t \in Threads, Leave(t)
  PROVE  /\ pc'[t] = "idle" /\ page'[t] = 0 /\ op'[t] = NoOps
         /\ \A t1 \in Threads \ {t} :
              pc'[t1] = pc[t1] /\ at'[t1] = at[t1] /\ page'[t1] = page[t1] /\ op'[t1] = op[t1]
         /\ pc' \in [Threads -> {"idle", "opening", "scan", "text", "raster"}]
         /\ at' \in [Threads -> 1..(NumLegs + 1)] /\ page' \in [Threads -> Nat]
         /\ op' \in [Threads -> [Legs -> OpType]]
<1>1. op' \in [Threads -> [Legs -> OpType]]
  BY OpsAreTyped DEF Leave, Types, ThreadTypes
<1>2. 1 \in 1..(NumLegs + 1) BY Bounds
<1> QED BY <1>1, <1>2 DEF Leave, Types, ThreadTypes

\* Goto moves one thread and leaves every page where it is.
LEMMA Gone ==
  ASSUME Types, NEW t \in Threads, NEW label, NEW leg, Goto(t, label, leg)
  PROVE  /\ pc'[t] = label /\ at'[t] = leg /\ page' = page
         /\ \A t1 \in Threads \ {t} : pc'[t1] = pc[t1] /\ at'[t1] = at[t1]
         /\ label \in {"idle", "opening", "scan", "text", "raster"} =>
              pc' \in [Threads -> {"idle", "opening", "scan", "text", "raster"}]
         /\ leg \in 1..(NumLegs + 1) => at' \in [Threads -> 1..(NumLegs + 1)]
BY DEF Goto, Types, ThreadTypes

\* fail() keeps the document's types.
LEMMA FailTyped ==
  ASSUME Types, NEW t \in Threads, NEW kind \in Failures, fail(t, kind)
  PROVE  DocumentTypes'
BY DEF fail, Types, DocumentTypes, ThreadTypes

\* The outcome of a failed page or open is one of the failures.
LEMMA RaisedKind ==
  ASSUME NEW t \in Threads
  PROVE  raise(Results(t) \cap Failures) \in Failures
BY RaiseIsFailure

\* A leg that answered starts its count of failures again.
LEMMA SuccessTyped ==
  ASSUME Types, NEW l \in Legs, record_leg_success(l)
  PROVE  /\ consecutive' \in [Legs -> 0..BreakerFailures]
         /\ disabled' \in [Legs -> BOOLEAN] /\ disabled' = disabled
BY Bounds DEF record_leg_success, Types, SourceTypes

\* A leg that failed counts on, up to the breaker.
LEMMA FailureTyped ==
  ASSUME Types, NEW l \in Legs, record_leg_failure(l)
  PROVE  /\ consecutive' \in [Legs -> 0..BreakerFailures]
         /\ disabled' \in [Legs -> BOOLEAN]
         /\ \A k \in Legs \ {l} : disabled'[k] = disabled[k]
<1>1. consecutive' \in [Legs -> 0..BreakerFailures]
  <2>1. consecutive[l] \in 0..BreakerFailures BY DEF Types, SourceTypes
  <2>2. (IF consecutive[l] < BreakerFailures THEN consecutive[l] + 1 ELSE consecutive[l])
          \in 0..BreakerFailures
    BY <2>1, Bounds
  <2> QED BY <2>2 DEF record_leg_failure, Types, SourceTypes
<1>2. disabled' = [disabled EXCEPT ![l] = disabled[l] \/ consecutive[l] + 1 >= BreakerFailures]
  BY DEF record_leg_failure
<1>3. disabled \in [Legs -> BOOLEAN] BY DEF Types, SourceTypes
<1>4. disabled' \in [Legs -> BOOLEAN] BY Zenon, <1>2, <1>3
<1>5. \A k \in Legs \ {l} : disabled'[k] = disabled[k] BY <1>2, <1>3
<1> QED BY <1>1, <1>4, <1>5

----------------------------------------------------------------------------
\* Every step keeps the types.  CancelInv has already kept those of op.
LEMMA TypesStep ==
  ASSUME CancelInv, CancelInv', Types, [Next]_vars
  PROVE  Types'
<1> USE DEF backend, consensus, breaker, document, request
<1>0. op' \in [Threads -> [Legs -> OpType]] BY DEF CancelInv, CallTypes
<1>t. ASSUME UNCHANGED <<pc, at, page>> PROVE ThreadTypes'
  BY <1>0, <1>t DEF Types, ThreadTypes
<1>d. ASSUME UNCHANGED <<next_page, served, failure, client_cancelled>> PROVE DocumentTypes'
  BY <1>d DEF Types, DocumentTypes
<1>b. ASSUME UNCHANGED backend PROVE BackendTypes'
  BY <1>b DEF Types, BackendTypes
<1>s. ASSUME UNCHANGED <<consensus, breaker>> PROVE SourceTypes'
  BY <1>s DEF Types, SourceTypes
<1>1. ASSUME NEW t \in Threads, NEW l \in Legs, RegisterCall(t, l) PROVE Types'
  <2>1. BackendTypes'
    <3>1. uploads[l] \in 0..2 BY DEF Types, BackendTypes
    <3>2. \A b \in BOOLEAN : (IF b /\ uploads[l] < 2 THEN uploads[l] + 1 ELSE uploads[l]) \in 0..2
      BY <3>1
    <3>3. uploads' \in [Legs -> 0..2]
      BY <1>1, <3>1 DEF RegisterCall, Types, BackendTypes
    <3> QED BY <1>1, <3>3 DEF RegisterCall, Types, BackendTypes
  <2> QED BY <1>1, <2>1, <1>t, <1>d, <1>s DEF RegisterCall, Types
<1>2. ASSUME NEW t \in Threads, NEW l \in Legs, CallFails(t, l) PROVE Types'
  <2>1. BackendTypes'
    <3>1. CASE UNCHANGED <<faults, bad>>
      BY <1>2, <3>1 DEF CallFails, Types, BackendTypes
    <3>2. ASSUME NEW kind \in FaultKinds, faults < MaxFaults, faults' = faults + 1,
                 bad' = [bad EXCEPT ![l] = @ \cup {kind}]
          PROVE  BackendTypes'
      <4>1. faults' \in 0..MaxFaults BY <3>2, Bounds DEF Types, BackendTypes
      <4>2. bad' \in [Legs -> SUBSET Failures]
        BY <3>2, FaultsAreFailures DEF Types, BackendTypes
      <4> QED BY <1>2, <4>1, <4>2 DEF CallFails, Types, BackendTypes
    <3> QED BY <1>2, <3>1, <3>2 DEF CallFails
  <2> QED BY <1>2, <2>1, <1>t, <1>d, <1>s DEF CallFails, Types
<1>3. ASSUME NEW t \in Threads, NEW l \in Legs, BytesRequired(t, l) PROVE Types'
  BY <1>3, <1>t, <1>d, <1>s, <1>b DEF BytesRequired, Types
<1>l. ASSUME NEW t \in Threads, NEW l \in Legs, Loaded(t, l)
      PROVE  BackendTypes' /\ ThreadTypes' /\ DocumentTypes'
  <2>1. op[t][l].bytes \in BOOLEAN BY <1>l DEF Types, ThreadTypes, OpType
  <2>2. cached' = [cached EXCEPT ![l] = cached[l] \/ (handshake /\ op[t][l].bytes)]
    BY <1>l DEF Loaded
  <2>3. cached' \in [Legs -> BOOLEAN] BY Zenon, <2>1, <2>2 DEF Types, BackendTypes
  <2>4. BackendTypes' BY <1>l, <2>3 DEF Loaded, Types, BackendTypes
  <2> QED BY <1>l, <2>4, <1>t, <1>d DEF Loaded
<1>4. ASSUME NEW l \in Legs, ProbeAnswered(l) PROVE Types'
  <2>1. op[Opener][l].try \in 0..Candidates BY Bounds DEF Types, ThreadTypes, OpType
  <2>2. SourceTypes'
    BY <1>4, <2>1 DEF ProbeAnswered, Loaded, Types, SourceTypes
  <2>3. Loaded(Opener, l) BY <1>4 DEF ProbeAnswered
  <2> QED BY <1>l, <2>2, <2>3, Bounds DEF Types
<1>5. ASSUME NEW w \in Workers, NEW l \in Legs, ParseAnswered(w, l) \/ RenderAnswered(w, l)
      PROVE  Types'
  <2>1. Loaded(w, l) /\ UNCHANGED <<consensus, breaker>>
    BY <1>5 DEF ParseAnswered, RenderAnswered, Loaded
  <2> QED BY <1>l, <1>s, <2>1, Bounds DEF Types
<1>6. ASSUME NEW l \in Legs, Evict(l) PROVE Types'
  <2>1. evictions' \in 0..MaxEvictions BY <1>6, Bounds DEF Evict, Types, BackendTypes
  <2>2. BackendTypes' BY <1>6, <2>1 DEF Evict, Types, BackendTypes
  <2> QED BY <1>6, <2>2, <1>t, <1>d, <1>s DEF Evict, Types
<1>7. CASE BeginOpen
  <2>1. 1 \in 1..(NumLegs + 1) BY Bounds
  <2>2. ThreadTypes' BY <1>7, <1>0, <2>1, Gone, Bounds DEF BeginOpen, Goto, Types, ThreadTypes
  <2> QED BY <1>7, <2>2, <1>d, <1>s, <1>b DEF BeginOpen, Types
<1>8. CASE FinishOpen
  <2>1. ThreadTypes' BY <1>8, Left, Bounds DEF FinishOpen, ThreadTypes
  <2>2. SourceTypes'
    <3>1. pages_of' \in [Legs -> Nat]
      <4>1. CASE UNCHANGED pages_of BY <4>1 DEF Types, SourceTypes
      <4>2. CASE pages_of' = [l \in Legs |-> IF op[Opener][l].st = "opened" THEN LegPages[l] ELSE 0]
        <5>1. \A l \in Legs : LegPages[l] \in Nat BY Bounds
        <5> QED BY <4>2, <5>1
      <4> QED BY <1>8, <4>1, <4>2 DEF FinishOpen
    <3>2. opened' \in {"closed", "open"} \cup Failures
      BY <1>8, RaisedKind, Bounds DEF FinishOpen
    <3> QED BY <1>8, <3>1, <3>2 DEF FinishOpen, Types, SourceTypes
  <2>3. DocumentTypes'
    <3>1. CASE fail(Opener, raise(Results(Opener) \cap Failures))
      BY <3>1, RaisedKind, FailTyped, Bounds
    <3>2. CASE UNCHANGED <<document, request>> BY <3>2, <1>d
    <3> QED BY <1>8, <3>1, <3>2 DEF FinishOpen
  <2> QED BY <1>8, <2>1, <2>2, <2>3, <1>b DEF FinishOpen, Types
<1>9. ASSUME NEW w \in Workers, BeginPage(w) PROVE Types'
  <2>1. ThreadTypes'
    <3>1. 1 \in 1..(NumLegs + 1) BY Bounds
    <3>2. pc' \in [Threads -> {"idle", "opening", "scan", "text", "raster"}]
      BY <1>9 DEF BeginPage, Types, ThreadTypes
    <3>3. at' \in [Threads -> 1..(NumLegs + 1)] BY <1>9, <3>1 DEF BeginPage, Types, ThreadTypes
    <3>4. page' \in [Threads -> Nat]
      BY <1>9 DEF BeginPage, Types, ThreadTypes, DocumentTypes
    <3> QED BY <1>0, <3>2, <3>3, <3>4 DEF ThreadTypes
  <2>2. DocumentTypes' BY <1>9 DEF BeginPage, Types, DocumentTypes
  <2> QED BY <1>9, <2>1, <2>2, <1>s, <1>b DEF BeginPage, Types
<1>m. ASSUME NEW w \in Workers, NEW label \in {"scan", "text", "raster"}, NEW leg \in Legs,
             Goto(w, label, leg + 1) \/ Goto(w, label, 1)
      PROVE  ThreadTypes'
  <2>1. leg + 1 \in 1..(NumLegs + 1) /\ 1 \in 1..(NumLegs + 1) BY Bounds
  <2>2. PICK k \in 1..(NumLegs + 1) : Goto(w, label, k) BY <1>m, <2>1
  <2> QED BY <1>0, <2>2, Gone, Bounds DEF ThreadTypes, Types
<1>10. ASSUME NEW w \in Workers, ScanLeg(w) PROVE Types'
  <2>1. ThreadTypes' BY <1>10, <1>m DEF ScanLeg
  <2> QED BY <1>10, <2>1, <1>d, <1>s, <1>b DEF ScanLeg, Types
<1>f. ASSUME NEW w \in Workers, NEW kind \in Failures, fail(w, kind), Leave(w)
      PROVE  DocumentTypes' /\ ThreadTypes'
  BY <1>f, FailTyped, Left, Bounds DEF ThreadTypes
<1>v. ASSUME NEW w \in Workers, served' = served \cup {page[w]}, Leave(w),
             UNCHANGED <<next_page, failure, request>>
      PROVE  DocumentTypes' /\ ThreadTypes'
  <2>1. page[w] \in Nat BY Bounds DEF Types, ThreadTypes
  <2>2. DocumentTypes' BY <1>v, <2>1 DEF Types, DocumentTypes
  <2> QED BY <1>v, <2>2, Left, Bounds DEF ThreadTypes
<1>c. "cancelled" \in Failures /\ "invalid" \in Failures BY DEF Failures
<1>g. ASSUME consecutive' \in [Legs -> 0..BreakerFailures], disabled' \in [Legs -> BOOLEAN],
             UNCHANGED consensus
      PROVE  SourceTypes'
  BY <1>g DEF Types, SourceTypes
<1>h. ASSUME NEW l \in Legs, UNCHANGED consensus,
             UNCHANGED breaker \/ record_leg_success(l) \/ record_leg_failure(l)
      PROVE  SourceTypes'
  BY <1>h, <1>g, <1>s, SuccessTyped, FailureTyped
<1>11. ASSUME NEW w \in Workers, FoldLeg(w) PROVE Types'
  <2>1. SourceTypes' BY <1>11, <1>h DEF FoldLeg
  <2>2. DocumentTypes' /\ ThreadTypes'
    BY <1>11, <1>f, <1>c, <1>m, <1>d DEF FoldLeg
  <2> QED BY <1>11, <2>1, <2>2, <1>b DEF FoldLeg, Types
<1>12. ASSUME NEW w \in Workers, EndText(w) PROVE Types'
  <2>1. DocumentTypes' /\ ThreadTypes'
    <3>1. CASE fail(w, raise(Results(w) \cap Failures)) /\ Leave(w)
      BY <3>1, <1>f, RaisedKind, Bounds
    <3>2. CASE served' = served \cup {page[w]} /\ Leave(w)
               /\ UNCHANGED <<next_page, failure, request>>
      BY <3>2, <1>v
    <3>3. CASE Goto(w, "raster", 1) /\ UNCHANGED <<document, request>>
      <4>1. 1 \in Legs BY Bounds
      <4> QED BY <3>3, <4>1, <1>m, <1>d
    <3> QED BY <1>12, <3>1, <3>2, <3>3 DEF EndText
  <2> QED BY <1>12, <2>1, <1>s, <1>b DEF EndText, Types
<1>13. ASSUME NEW w \in Workers, AskRaster(w) PROVE Types'
  <2>1. ThreadTypes' BY <1>13, <1>t, <1>m DEF AskRaster
  <2> QED BY <1>13, <2>1, <1>d, <1>s, <1>b DEF AskRaster, Types
<1>14. ASSUME NEW w \in Workers, TakeRaster(w) PROVE Types'
  <2>1. SourceTypes' BY <1>14, <1>h DEF TakeRaster
  <2>2. DocumentTypes' /\ ThreadTypes'
    BY <1>14, <1>f, <1>c, <1>v, <1>m, <1>d DEF TakeRaster
  <2> QED BY <1>14, <2>1, <2>2, <1>b DEF TakeRaster, Types
<1>15. ASSUME NEW w \in Workers, EndRaster(w) PROVE Types'
  <2>1. PICK kind \in Failures : fail(w, kind)
    BY <1>15, <1>c, RaisedKind, Bounds DEF EndRaster
  <2> QED BY <1>15, <2>1, <1>f, <1>s, <1>b DEF EndRaster, Types
<1>16. CASE ClientCancels
  BY <1>16, <1>t, <1>s, <1>b DEF ClientCancels, Types, DocumentTypes
<1>17. CASE CancelLeg
  BY <1>17, <1>t, <1>s, <1>b, <1>d DEF CancelLeg, Types
<1>18. CASE Terminated \/ UNCHANGED vars
  BY <1>18, <1>t, <1>s, <1>b, <1>d DEF Terminated, vars, Types
<1> QED BY <1>1, <1>2, <1>3, <1>4, <1>5, <1>6, <1>7, <1>8, <1>9, <1>10, <1>11, <1>12, <1>13,
           <1>14, <1>15, <1>16, <1>17, <1>18, Bounds
        DEF Next, OpenerStep, WorkerStep, Call

----------------------------------------------------------------------------
(* The operations of a leg, as the pages see them.                         *)

\* What a step of one operation leaves alone.
OpFrame(l) ==
  /\ UNCHANGED <<pc, at, page, opened, pages_of, disabled, lock, handshake, evictions,
                 failure>>
  /\ client_cancelled => client_cancelled'
  /\ \A k \in Legs : bad[k] \subseteq bad'[k]
  /\ \A k \in Legs \ {l} : password'[k] = password[k]

\* How thread t's operation on leg l ends, goes on, or is asked again.
Outcome(t, l, o) ==
  \/ /\ o.st \in {"start", "call"} /\ o.try = op[t][l].try /\ password' = password
  \/ o.st = "cancelled" /\ password' = password
  \/ o.st \in Failures /\ bad'[l] # {} /\ password' = password
  \/ t = Opener /\ o.st = "opened" /\ Opens(password'[l])
  \/ /\ t = Opener /\ o.st = "start" /\ password' = password
     /\ o.try <= lock
  \/ t = Opener /\ o.st = "invalid" /\ password' = password /\ lock > Candidates
  \/ t \in Workers /\ pc[t] = "text" /\ o.st \in {"text", "blank"} /\ password' = password
  \/ t \in Workers /\ pc[t] = "raster" /\ o.st = "raster" /\ password' = password

Operation(t, l, o) ==
  /\ op' = [op EXCEPT ![t][l] = o] /\ op[t][l].st \in {"start", "call"}
  /\ OpFrame(l) /\ Outcome(t, l, o)

\* Every step of an operation is one of these.
LEMMA RegisterIs ==
  ASSUME PageInv, NEW t \in Threads, NEW l \in Legs, RegisterCall(t, l)
  PROVE  \E o : Operation(t, l, o)
<1> USE DEF backend, consensus, breaker, document, request
<1>1. OpFrame(l) /\ password' = password /\ op[t][l].st = "start"
  BY DEF RegisterCall, OpFrame
<1>2. CASE leg_cancelled[l]
  <2>1. op' = [op EXCEPT ![t][l] = Ended("cancelled")]
    BY <1>2 DEF RegisterCall, PageInv, Types, ThreadTypes
  <2>2. Ended("cancelled").st = "cancelled" BY DEF Ended
  <2> QED BY <1>1, <2>1, <2>2 DEF Operation, Outcome
<1>3. CASE ~leg_cancelled[l]
  <2> DEFINE o == [op[t][l] EXCEPT !.st = "call"]
  <2>1. op' = [op EXCEPT ![t][l] = o] BY <1>3 DEF RegisterCall, PageInv, Types, ThreadTypes
  <2>2. o.st = "call" /\ o.try = op[t][l].try BY DEF PageInv, Types, ThreadTypes, OpType
  <2> HIDE DEF o
  <2> QED BY <1>1, <2>1, <2>2 DEF Operation, Outcome
<1> QED BY <1>2, <1>3

\* A call fails with its backend's failure, or as cancelled.
LEMMA FailsIs ==
  ASSUME PageInv, NEW t \in Threads, NEW l \in Legs, CallFails(t, l)
  PROVE  \E o : Operation(t, l, o)
<1> USE DEF backend, consensus, breaker, document, request
<1>1. op[t][l].st = "call" /\ password' = password BY DEF CallFails
<1>2. CASE op' = [op EXCEPT ![t][l] = Ended("cancelled")] /\ UNCHANGED <<faults, bad>>
  <2>1. OpFrame(l) BY <1>2 DEF CallFails, OpFrame
  <2>2. Ended("cancelled").st = "cancelled" BY DEF Ended
  <2> QED BY <1>1, <1>2, <2>1, <2>2 DEF Operation, Outcome
<1>3. ASSUME NEW kind \in FaultKinds, bad' = [bad EXCEPT ![l] = @ \cup {kind}],
             op' = [op EXCEPT ![t][l] = Ended(kind)]
      PROVE  \E o : Operation(t, l, o)
  <2>1. \A k \in Legs : bad[k] \subseteq bad'[k] BY <1>3 DEF PageInv, Types, BackendTypes
  <2>2. bad'[l] # {} BY <1>3 DEF PageInv, Types, BackendTypes
  <2>3. OpFrame(l) BY <2>1 DEF CallFails, OpFrame
  <2>4. Ended(kind).st \in Failures BY FaultsAreFailures DEF Ended
  <2> QED BY <1>1, <1>3, <2>2, <2>3, <2>4 DEF Operation, Outcome
<1> QED BY <1>2, <1>3 DEF CallFails

\* A miss starts the operation again with the same password.
LEMMA BytesIs ==
  ASSUME PageInv, NEW t \in Threads, NEW l \in Legs, BytesRequired(t, l)
  PROVE  \E o : Operation(t, l, o)
<1> USE DEF backend, consensus, breaker, document, request
<1> DEFINE o == [op[t][l] EXCEPT !.st = "start", !.bytes = TRUE, !.aborted = FALSE]
<1>1. op' = [op EXCEPT ![t][l] = o] BY DEF BytesRequired, PageInv, Types, ThreadTypes
<1>2. o.st = "start" /\ o.try = op[t][l].try BY DEF PageInv, Types, ThreadTypes, OpType
<1>3. OpFrame(l) /\ password' = password /\ op[t][l].st = "call"
  BY DEF BytesRequired, OpFrame
<1> HIDE DEF o
<1> QED BY <1>1, <1>2, <1>3 DEF Operation, Outcome

\* A loaded answer leaves everything but the operation and the cache alone.
LEMMA LoadedFrame ==
  ASSUME NEW t \in Threads, NEW l \in Legs, Loaded(t, l)
  PROVE  /\ op[t][l].st = "call"
         /\ UNCHANGED <<handshake, lock, evictions, bad, uploads, pc, at, page, failure,
                        client_cancelled, disabled>>
BY DEF Loaded, document, request, breaker

\* With a candidate that opens it, a healthy Probe stops there.
LEMMA ProbeIs ==
  ASSUME PageInv, NEW l \in Legs, ProbeAnswered(l)
  PROVE  \E o : Operation(Opener, l, o)
<1> DEFINE try == op[Opener][l].try
<1>1. Loaded(Opener, l) /\ UNCHANGED <<opened, pages_of>> BY DEF ProbeAnswered
<1>2. /\ op[Opener][l].st = "call" /\ try \in 0..Candidates
      /\ lock \in 0..(Candidates + 1) /\ Candidates \in Nat
  BY <1>1, LoadedFrame, Bounds DEF PageInv, Types, BackendTypes, ThreadTypes, OpType
<1>3. CASE Opens(try) /\ op' = [op EXCEPT ![Opener][l] = Ended("opened")]
           /\ password' = [password EXCEPT ![l] = try]
  <2>1. password'[l] = try /\ \A k \in Legs \ {l} : password'[k] = password[k]
    BY <1>3 DEF PageInv, Types, SourceTypes
  <2>2. OpFrame(l) BY <1>1, <2>1, LoadedFrame, Bounds DEF OpFrame
  <2>3. Opens(password'[l]) BY <1>3, <2>1
  <2>4. Ended("opened").st = "opened" BY DEF Ended
  <2> QED BY <1>2, <1>3, <2>2, <2>3, <2>4 DEF Operation, Outcome
<1>4. CASE ~Opens(try) /\ password' = password
  <2>1. OpFrame(l) BY <1>1, <1>4, LoadedFrame, Bounds DEF OpFrame
  <2>2. lock # 0 /\ try # lock BY <1>4 DEF Opens
  <2>3. try <= lock BY <1>2, <2>2 DEF PageInv, Doors, Running
  <2>4. try + 1 <= lock BY <1>2, <2>2, <2>3
  <2>5. CASE try < Candidates /\ op' = [op EXCEPT ![Opener][l] = Start(try + 1)]
    <3>1. Start(try + 1).st = "start" /\ Start(try + 1).try = try + 1 BY DEF Start
    <3> QED BY <1>2, <1>4, <2>1, <2>4, <2>5, <3>1 DEF Operation, Outcome
  <2>6. CASE ~(try < Candidates) /\ op' = [op EXCEPT ![Opener][l] = Ended("invalid")]
    <3>1. lock > Candidates BY <1>2, <2>4, <2>6
    <3>2. Ended("invalid").st = "invalid" BY DEF Ended
    <3> QED BY <1>2, <1>4, <2>1, <2>6, <3>1, <3>2 DEF Operation, Outcome
  <2>7. op' = [op EXCEPT ![Opener][l] =
                 IF try < Candidates THEN Start(try + 1) ELSE Ended("invalid")]
    BY <1>4 DEF ProbeAnswered
  <2> QED BY <2>5, <2>6, <2>7
<1> QED BY <1>3, <1>4 DEF ProbeAnswered

\* A loaded leg answers a page with text, with none, or with its raster.
LEMMA PageAnswerIs ==
  ASSUME PageInv, NEW w \in Workers, NEW l \in Legs,
         ParseAnswered(w, l) \/ RenderAnswered(w, l)
  PROVE  \E o : Operation(w, l, o)
<1>1. Loaded(w, l) /\ UNCHANGED <<opened, pages_of, password>>
  BY DEF ParseAnswered, RenderAnswered, consensus
<1>2. OpFrame(l) /\ op[w][l].st = "call" BY <1>1, LoadedFrame, Bounds DEF OpFrame
<1>3. Opens(password[l]) BY <1>2, Bounds DEF PageInv, OpsPlaced, Doors
<1>4. CASE ParseAnswered(w, l)
  <2>1. PICK result \in {"text", "blank"} : op' = [op EXCEPT ![w][l] = Ended(result)]
    BY <1>4 DEF ParseAnswered
  <2>2. Ended(result).st = result /\ pc[w] = "text" BY <1>4 DEF ParseAnswered, Ended
  <2> QED BY <1>1, <1>2, <2>1, <2>2 DEF Operation, Outcome
<1>5. CASE RenderAnswered(w, l)
  <2>1. op' = [op EXCEPT ![w][l] = Ended("raster")] BY <1>3, <1>5 DEF RenderAnswered
  <2>2. Ended("raster").st = "raster" /\ pc[w] = "raster" BY <1>5 DEF RenderAnswered, Ended
  <2> QED BY <1>1, <1>2, <2>1, <2>2 DEF Operation, Outcome
<1> QED BY <1>4, <1>5

\* A healthy leg was healthy before, and then carried the same pages.
LEMMA StillCarries ==
  ASSUME NEW w \in Workers, NEW l \in Legs, page'[w] = page[w], lock' = lock,
         bad[l] \subseteq bad'[l], Carries(w, l)'
  PROVE  Carries(w, l)
BY DEF Carries

\* An operation's step keeps what the pages rest on.
LEMMA OperationKeeps ==
  ASSUME PageInv, NEW t \in Threads, NEW l \in Legs, NEW o, Operation(t, l, o)
  PROVE  /\ Stages' /\ OpsPlaced' /\ Doors' /\ Blamed' /\ Sized' /\ Heard' /\ Tried'
         /\ HealthyLegCarriesPage'
<1>1. /\ op'[t][l] = o
      /\ \A t1 \in Threads, l1 \in Legs : t1 # t \/ l1 # l => op'[t1][l1] = op[t1][l1]
  <2>1. op \in [Threads -> [Legs -> OpType]] BY DEF PageInv, Types, ThreadTypes
  <2>2. op' = [op EXCEPT ![t][l] = o] BY DEF Operation
  <2> QED BY <2>1, <2>2
<1>2. /\ UNCHANGED <<pc, at, page, opened, pages_of, disabled, lock, handshake, evictions,
                     failure>>
      /\ client_cancelled => client_cancelled'
      /\ \A k \in Legs : bad[k] \subseteq bad'[k]
      /\ \A k \in Legs \ {l} : password'[k] = password[k]
      /\ op[t][l].st \in {"start", "call"} /\ Outcome(t, l, o)
  BY DEF Operation, OpFrame
<1>3. t = Opener \/ (t \in Workers /\ t # Opener) BY Bounds DEF Threads
<1>4. Stages'
  BY <1>2 DEF PageInv, Stages
<1>5. OpsPlaced'
  <2>1. t = Opener => o.st \in {"start", "call", "opened"} \cup Failures
    BY <1>2, Bounds DEF Outcome, Failures
  <2>2. t = Opener => pc[Opener] # "idle" BY <1>2 DEF PageInv, OpsPlaced
  <2>3. t \in Workers => pages_of[l] > 0 BY <1>2 DEF PageInv, OpsPlaced
  <2> QED BY <1>1, <1>2, <1>3, <2>1, <2>2, <2>3, Bounds DEF PageInv, OpsPlaced
<1>6. Doors'
  <2>1. ASSUME NEW k \in Legs, op'[Opener][k].st = "opened" \/ pages_of'[k] > 0
        PROVE  Opens(password[k])'
    <3>1. CASE k = l /\ password' # password
      BY <1>2, <3>1 DEF Outcome, Opens
    <3>2. CASE password'[k] = password[k] /\ op'[Opener][k].st = op[Opener][k].st
      BY <1>2, <2>1, <3>2 DEF PageInv, Doors, Opens
    <3>3. CASE t = Opener /\ k = l /\ password' = password
      <4>1. op'[Opener][k].st = "opened" => Opens(password[k])'
        BY <1>1, <1>2, <1>3, <3>3 DEF Outcome, Opens, Failures, Outages
      <4>2. pages_of'[k] > 0 => Opens(password[k])'
        BY <1>2, <3>3 DEF PageInv, Doors, Opens
      <4> QED BY <2>1, <4>1, <4>2
    <3>4. CASE k # l
      BY <1>1, <1>2, <3>4, <3>2, Bounds
    <3>5. CASE t # Opener /\ password' = password
      BY <1>1, <1>2, <3>5, <3>2, Bounds
    <3> QED BY <3>1, <3>3, <3>4, <3>5
  <2>2. ASSUME NEW k \in Legs, Running(Opener, k)'
        PROVE  lock' = 0 \/ op'[Opener][k].try <= lock'
    <3>1. CASE t = Opener /\ k = l
      <4>1. o.st \in {"start", "call"} BY <1>1, <2>2, <3>1 DEF Running
      <4>2. o.try = op[t][l].try \/ o.try <= lock
        BY <1>2, <1>3, <3>1, <4>1 DEF Outcome, Failures, Outages
      <4>3. lock = 0 \/ op[t][l].try <= lock BY <1>2, <3>1 DEF PageInv, Doors, Running
      <4>4. op'[Opener][k] = o /\ lock' = lock BY <1>1, <1>2, <3>1
      <4> QED BY <4>2, <4>3, <4>4
    <3>2. CASE op'[Opener][k] = op[Opener][k]
      BY <1>2, <2>2, <3>2 DEF PageInv, Doors, Running
    <3> QED BY <1>1, <3>1, <3>2, Bounds
  <2> QED BY <2>1, <2>2 DEF Doors
<1>7. Blamed'
  <2> SUFFICES ASSUME lock <= Candidates, NEW k \in Legs
               PROVE  /\ \A t1 \in Threads :
                           op'[t1][k].st \in Failures \ {"cancelled"} => bad'[k] # {}
                      /\ disabled'[k] => bad'[k] # {}
    BY <1>2 DEF Blamed
  <2>1. disabled'[k] => bad'[k] # {} BY <1>2 DEF PageInv, Blamed
  <2>2. ASSUME NEW t1 \in Threads, op'[t1][k].st \in Failures \ {"cancelled"}
        PROVE  bad'[k] # {}
    <3>1. CASE t1 = t /\ k = l
      BY <1>1, <1>2, <2>2, <3>1, Bounds DEF Outcome, Failures, Outages, PageInv, Types, BackendTypes
    <3>2. CASE ~(t1 = t /\ k = l)
      BY <1>1, <1>2, <2>2, <3>2 DEF PageInv, Blamed
    <3> QED BY <3>1, <3>2
  <2> QED BY <2>1, <2>2
<1>8. Sized'
  BY <1>2 DEF PageInv, Sized
<1>9. Heard'
  <2> SUFFICES ASSUME NEW w \in Workers, NEW k \in Legs
               PROVE  /\ pc[w] = "text" \/ (pc[w] = "scan" /\ k < at[w]) =>
                           (Carries(w, k)' => op'[w][k].st \in
                              {"start", "call", "text", "blank", "cancelled"})
                      /\ pc[w] = "text" /\ at[w] > 1 => ~Running(w, k)'
    BY <1>2 DEF Heard
  <2>1. CASE ~(w = t /\ k = l)
    BY <1>1, <1>2, <2>1, StillCarries, Bounds DEF PageInv, Heard, Running
  <2>2. CASE w = t /\ k = l
    <3>1. pc[w] # "text" \/ ~(at[w] > 1) BY <1>2, <2>2 DEF PageInv, Heard, Running
    <3>2. Carries(w, k)' => lock <= Candidates /\ bad'[k] = {} BY <1>2 DEF Carries
    <3>3. pc[w] = "text" \/ pc[w] = "scan" => (Carries(w, k)' => op'[w][k].st \in
             {"start", "call", "text", "blank", "cancelled"})
      BY <1>1, <1>2, <1>3, <2>2, <3>2, Bounds DEF Outcome
    <3> QED BY <3>1, <3>3
  <2> QED BY <2>1, <2>2
<1>10. Tried'
  BY <1>2, StillCarries DEF PageInv, Tried
<1>11. HealthyLegCarriesPage'
  BY <1>2 DEF PageInv, HealthyLegCarriesPage, NoFailure
<1> QED BY <1>4, <1>5, <1>6, <1>7, <1>8, <1>9, <1>10, <1>11

----------------------------------------------------------------------------
(* The turns of the threads.                                               *)

\* A failure on record, or a client that left, already answers for the
\* document; a new failure must be on a page no healthy backend has.
LEMMA FailHealthy ==
  ASSUME PageInv, NEW t \in Threads, NEW kind, fail(t, kind), bad' = bad, lock' = lock,
         \/ failure # NoFailure \/ client_cancelled
         \/ lock <= Candidates => \A l \in Legs : bad[l] # {} \/ page[t] > LegPages[l]
  PROVE  HealthyLegCarriesPage'
<1>1. client_cancelled' = client_cancelled BY DEF fail
<1>2. CASE failure # NoFailure
  <2>1. failure' = failure BY <1>2 DEF fail
  <2> QED BY <1>1, <2>1 DEF PageInv, HealthyLegCarriesPage
<1>3. CASE failure = NoFailure /\ ~client_cancelled
  <2>1. failure'.page = page[t] BY <1>3 DEF fail
  <2> QED BY <1>1, <1>3, <2>1 DEF HealthyLegCarriesPage
<1> QED BY <1>1, <1>2, <1>3 DEF HealthyLegCarriesPage

\* An operation ended as cancelled only with such a cause.
LEMMA CancelledIsCaused ==
  ASSUME PageInv, NEW t \in Threads, NEW l \in Legs, op[t][l].st = "cancelled"
  PROVE  failure # NoFailure \/ client_cancelled
BY DEF PageInv, CancelInv, CancelHasCause

\* Without a new failure there is nothing to answer for.
LEMMA StillHealthy ==
  ASSUME PageInv, UNCHANGED <<failure, bad, lock>>, client_cancelled => client_cancelled'
  PROVE  HealthyLegCarriesPage'
BY DEF PageInv, HealthyLegCarriesPage

\* The opener starts a Probe of every leg.
LEMMA BeginOpenKeeps ==
  ASSUME PageInv, BeginOpen
  PROVE  /\ Stages' /\ OpsPlaced' /\ Doors' /\ Blamed' /\ Sized' /\ Heard' /\ Tried'
         /\ HealthyLegCarriesPage'
<1>1. /\ op' = [op EXCEPT ![Opener] = [l \in Legs |-> Start(0)]] /\ Goto(Opener, "opening", 1)
      /\ UNCHANGED <<opened, pages_of, password, disabled, bad, lock, failure, client_cancelled>>
      /\ opened = "closed"
  BY DEF BeginOpen, backend, document, request, consensus, breaker
<1>2. op'[Opener] = [l \in Legs |-> Start(0)] /\ \A t \in Threads \ {Opener} : op'[t] = op[t]
  BY <1>1, AllWritten, Bounds DEF PageInv
<1>3. /\ pc'[Opener] = "opening" /\ page' = page
      /\ \A t \in Threads \ {Opener} : pc'[t] = pc[t] /\ at'[t] = at[t]
  BY <1>1, Gone, Bounds DEF PageInv
<1>4. Start(0).st = "start" /\ Start(0).try = 0 BY DEF Start
<1>5. \A w \in Workers : w \in Threads \ {Opener} BY Bounds
<1>6. Stages' BY <1>1, <1>3, <1>5 DEF PageInv, Stages
<1>7. OpsPlaced' BY <1>1, <1>2, <1>3, <1>4, <1>5 DEF PageInv, OpsPlaced
<1>8. Doors'
  <2>1. lock = 0 \/ 0 <= lock BY DEF PageInv, Types, BackendTypes
  <2> QED BY <1>1, <1>2, <1>4, <2>1 DEF PageInv, Doors, Opens, Running
<1>9. Blamed'
  <2>1. ASSUME NEW t \in Threads, NEW l \in Legs, op'[t][l].st \in Failures \ {"cancelled"}
        PROVE  op[t][l].st \in Failures \ {"cancelled"}
    BY <1>2, <1>4, <2>1 DEF Failures, Outages
  <2> QED BY <1>1, <2>1 DEF PageInv, Blamed
<1>10. Sized' BY <1>1 DEF PageInv, Sized
<1>11. Heard' BY <1>1, <1>2, <1>3, <1>5 DEF PageInv, Heard, Running, Carries
<1>12. Tried' BY <1>1, <1>3, <1>5 DEF PageInv, Tried, Carries
<1> QED BY <1>1, <1>6, <1>7, <1>8, <1>9, <1>10, <1>11, <1>12, StillHealthy

\* The opener keeps every leg that loaded; a healthy one did, unless the
\* open was cancelled.
LEMMA FinishOpenKeeps ==
  ASSUME PageInv, FinishOpen
  PROVE  /\ Stages' /\ OpsPlaced' /\ Doors' /\ Blamed' /\ Sized' /\ Heard' /\ Tried'
         /\ HealthyLegCarriesPage'
<1>1. /\ Leave(Opener) /\ pc[Opener] = "opening"
      /\ UNCHANGED <<password, disabled, bad, lock>>
      /\ \A l \in Legs : ~Running(Opener, l)
  BY DEF FinishOpen, backend, breaker
<1>2. /\ pc'[Opener] = "idle" /\ op'[Opener] = NoOps
      /\ \A t \in Threads \ {Opener} :
           pc'[t] = pc[t] /\ at'[t] = at[t] /\ page'[t] = page[t] /\ op'[t] = op[t]
  BY <1>1, Left, Bounds DEF PageInv
<1>3. \A w \in Workers : w \in Threads \ {Opener} BY Bounds
<1>4. \A l \in Legs : NoOps[l].st = "idle" BY DEF NoOps, Idle
<1>5. opened = "closed" /\ \A l \in Legs : pages_of[l] = 0
  BY <1>1 DEF PageInv, Stages
<1>6. \A w \in Workers : pc[w] = "idle" BY <1>5 DEF PageInv, Stages
<1>7. \A w \in Workers, l \in Legs : op'[w][l].st = "idle"
  BY <1>2, <1>3, <1>5 DEF PageInv, OpsPlaced
<1>8. opened' # "closed" /\ opened' \in {"open"} \cup Failures
  BY RaisedKind, Bounds DEF FinishOpen, Failures, Outages
<1>9. Stages'
  BY <1>2, <1>3, <1>6, <1>8 DEF PageInv, Stages
<1>10. OpsPlaced' BY <1>2, <1>4, <1>7 DEF OpsPlaced
<1>11. Doors'
  <2>1. ASSUME NEW l \in Legs, pages_of'[l] > 0 PROVE op[Opener][l].st = "opened"
    <3>1. pages_of' # pages_of BY <1>5, <2>1
    <3>2. pages_of' = [k \in Legs |-> IF op[Opener][k].st = "opened" THEN LegPages[k] ELSE 0]
      BY <3>1 DEF FinishOpen
    <3> QED BY <2>1, <3>2
  <2>2. \A l \in Legs : op'[Opener][l].st # "opened" /\ ~Running(Opener, l)'
    BY <1>2, <1>4 DEF Running
  <2> QED BY <1>1, <2>1, <2>2 DEF PageInv, Doors, Opens
<1>12. Blamed'
  <2>1. \A t \in Threads, l \in Legs : op'[t][l].st = "idle"
    BY <1>2, <1>4, <1>7, Bounds DEF Threads
  <2> QED BY <1>1, <2>1 DEF PageInv, Blamed, Failures, Outages
<1>13. \A l \in Legs : op[Opener][l].st \in {"opened"} \cup Failures
  BY <1>1 DEF PageInv, OpsPlaced, Running
<1>14. ASSUME lock <= Candidates, NEW l \in Legs, bad[l] = {}, op[Opener][l].st # "cancelled"
       PROVE  op[Opener][l].st = "opened"
  BY <1>13, <1>14, Bounds DEF PageInv, Blamed
<1>15. Sized'
  <2> SUFFICES ASSUME lock <= Candidates, opened' = "open", NEW l \in Legs, bad[l] = {}
               PROVE  pages_of'[l] = LegPages[l]
    BY <1>1 DEF Sized
  <2>1. /\ "cancelled" \notin Results(Opener)
        /\ pages_of' = [k \in Legs |-> IF op[Opener][k].st = "opened" THEN LegPages[k] ELSE 0]
    BY RaisedKind, Bounds DEF FinishOpen, Failures, Outages
  <2>2. op[Opener][l].st = "opened" BY <1>14, <2>1 DEF Results
  <2> QED BY <2>1, <2>2
<1>16. Heard' /\ Tried' BY <1>2, <1>3, <1>6 DEF Heard, Tried
<1>17. HealthyLegCarriesPage'
  <2>1. CASE UNCHANGED <<document, request>>
    BY <1>1, <2>1, StillHealthy DEF document, request
  <2>2. CASE /\ "cancelled" \in Results(Opener) \/ "opened" \notin Results(Opener)
             /\ fail(Opener, raise(Results(Opener) \cap Failures))
    <3>1. \/ failure # NoFailure \/ client_cancelled
          \/ lock <= Candidates => \A l \in Legs : bad[l] # {}
      <4>1. CASE \E l \in Legs : op[Opener][l].st = "cancelled"
        BY <4>1, CancelledIsCaused, Bounds
      <4>2. CASE \A l \in Legs : op[Opener][l].st # "cancelled"
        <5>1. "opened" \notin Results(Opener) BY <2>2, <4>2 DEF Results
        <5> QED BY <1>14, <4>2, <5>1 DEF Results
      <4> QED BY <4>1, <4>2
    <3> QED BY <1>1, <2>2, <3>1, FailHealthy, Bounds
  <2> QED BY <2>1, <2>2 DEF FinishOpen
<1> QED BY <1>9, <1>10, <1>11, <1>12, <1>15, <1>16, <1>17

\* A worker's turn leaves the other threads, the backends and the source alone.
Turn(w) ==
  /\ UNCHANGED <<opened, pages_of, password, bad, lock>>
  /\ \A t \in Threads \ {w} :
       pc'[t] = pc[t] /\ at'[t] = at[t] /\ page'[t] = page[t] /\ op'[t] = op[t]

\* What worker w's turn must keep of its own.
LEMMA TurnKeeps ==
  ASSUME PageInv, NEW w \in Workers, Turn(w),
         pc'[w] # "opening" /\ (pc'[w] # "idle" => opened = "open" /\ page'[w] >= 1),
         \A l \in Legs : op'[w][l].st # "idle" => pages_of[l] > 0,
         \A l \in Legs : op'[w][l].st \in Failures \ {"cancelled"} =>
                           op[w][l].st \in Failures \ {"cancelled"},
         lock <= Candidates => \A l \in Legs : disabled'[l] => bad[l] # {},
         \A l \in Legs :
           /\ pc'[w] = "text" \/ (pc'[w] = "scan" /\ l < at'[w]) =>
                (Carries(w, l)' => op'[w][l].st \in {"start", "call", "text", "blank", "cancelled"})
           /\ pc'[w] = "text" /\ at'[w] > 1 => ~Running(w, l)'
           /\ pc'[w] = "raster" /\ l < at'[w] => ~Carries(w, l)'
  PROVE  Stages' /\ OpsPlaced' /\ Doors' /\ Blamed' /\ Sized' /\ Heard' /\ Tried'
<1>1. Opener # w /\ Opener \in Threads \ {w} /\ \A v \in Workers \ {w} : v \in Threads \ {w}
  BY Bounds
<1>2. Stages' BY <1>1 DEF Turn, PageInv, Stages
<1>3. OpsPlaced' BY <1>1 DEF Turn, PageInv, OpsPlaced
<1>4. Doors' BY <1>1 DEF Turn, PageInv, Doors, Opens, Running
<1>5. Blamed'
  <2>1. ASSUME NEW t \in Threads, NEW l \in Legs, op'[t][l].st \in Failures \ {"cancelled"}
        PROVE  op[t][l].st \in Failures \ {"cancelled"}
    BY <2>1 DEF Turn
  <2> QED BY <2>1 DEF Turn, PageInv, Blamed
<1>6. Sized' BY DEF Turn, PageInv, Sized
<1>7. Heard'
  <2>1. ASSUME NEW v \in Workers \ {w}, NEW l \in Legs
        PROVE  /\ pc'[v] = "text" \/ (pc'[v] = "scan" /\ l < at'[v]) =>
                    (Carries(v, l)' =>
                       op'[v][l].st \in {"start", "call", "text", "blank", "cancelled"})
               /\ pc'[v] = "text" /\ at'[v] > 1 => ~Running(v, l)'
    BY <1>1, <2>1 DEF Turn, PageInv, Heard, Carries, Running
  <2> QED BY <2>1 DEF Heard
<1>8. Tried'
  <2>1. ASSUME NEW v \in Workers \ {w}, NEW l \in Legs, pc'[v] = "raster", l < at'[v]
        PROVE  ~Carries(v, l)'
    BY <1>1, <2>1 DEF Turn, PageInv, Tried, Carries
  <2> QED BY <2>1 DEF Tried
<1> QED BY <1>2, <1>3, <1>4, <1>5, <1>6, <1>7, <1>8

\* A worker that leaves its page keeps all that.
LEMMA LeaveKeeps ==
  ASSUME PageInv, NEW w \in Workers, Leave(w),
         UNCHANGED <<opened, pages_of, password, bad, lock>>,
         lock <= Candidates => \A l \in Legs : disabled'[l] => bad[l] # {}
  PROVE  Stages' /\ OpsPlaced' /\ Doors' /\ Blamed' /\ Sized' /\ Heard' /\ Tried'
<1>1. pc'[w] = "idle" /\ op'[w] = NoOps /\ Turn(w)
  BY Left, Bounds DEF PageInv, Turn
<1>2. \A l \in Legs : op'[w][l].st = "idle" BY <1>1 DEF NoOps, Idle
<1>3. "idle" \notin Failures BY DEF Failures, Outages
<1> QED BY <1>1, <1>2, <1>3, TurnKeeps

\* The breaker drops only a leg whose backend failed.
LEMMA BreakerKeeps ==
  ASSUME PageInv, NEW w \in Workers, NEW l \in Legs,
         \/ UNCHANGED breaker \/ record_leg_success(l)
         \/ record_leg_failure(l) /\ op[w][l].st \in Failures \ {"cancelled"}
  PROVE  lock <= Candidates => \A k \in Legs : disabled'[k] => bad[k] # {}
<1>1. CASE disabled' = disabled BY <1>1 DEF PageInv, Blamed
<1>2. CASE record_leg_failure(l) /\ op[w][l].st \in Failures \ {"cancelled"}
  <2>1. \A k \in Legs \ {l} : disabled'[k] = disabled[k] BY <1>2, FailureTyped DEF PageInv
  <2>2. lock <= Candidates => bad[l] # {} BY <1>2, Bounds DEF PageInv, Blamed
  <2> QED BY <2>1, <2>2 DEF PageInv, Blamed
<1> QED BY <1>1, <1>2 DEF breaker, record_leg_success

\* The legs the breaker had dropped were to blame already.
LEMMA SameBreaker ==
  ASSUME PageInv, disabled' = disabled
  PROVE  lock <= Candidates => \A k \in Legs : disabled'[k] => bad[k] # {}
BY DEF PageInv, Blamed

\* The next page starts with nobody asked.
LEMMA BeginPageKeeps ==
  ASSUME PageInv, NEW w \in Workers, BeginPage(w)
  PROVE  /\ Stages' /\ OpsPlaced' /\ Doors' /\ Blamed' /\ Sized' /\ Heard' /\ Tried'
         /\ HealthyLegCarriesPage'
<1>1. /\ op' = op /\ opened = "open" /\ disabled' = disabled
      /\ UNCHANGED <<opened, pages_of, password, bad, lock, failure, client_cancelled>>
  BY DEF BeginPage, backend, request, consensus, breaker
<1>2. /\ page'[w] = next_page /\ at'[w] = 1 /\ pc'[w] \in {"scan", "raster"} /\ next_page >= 1
      /\ \A t \in Threads \ {w} : pc'[t] = pc[t] /\ at'[t] = at[t] /\ page'[t] = page[t]
  BY Bounds DEF BeginPage, PageInv, Types, ThreadTypes, DocumentTypes
<1>3. Turn(w) BY <1>1, <1>2 DEF Turn
<1>4. \A l \in Legs : ~(l < 1) BY Bounds
<1>5. \A l \in Legs : op'[w][l].st # "idle" => pages_of[l] > 0
  BY <1>1 DEF PageInv, OpsPlaced
<1>6. Stages' /\ OpsPlaced' /\ Doors' /\ Blamed' /\ Sized' /\ Heard' /\ Tried'
  BY <1>1, <1>2, <1>3, <1>4, <1>5, SameBreaker, TurnKeeps
<1> QED BY <1>1, <1>6, StillHealthy

\* A healthy leg that has the page votes on it.
LEMMA CarrierVotes ==
  ASSUME PageInv, NEW w \in Workers, NEW l \in Legs, opened = "open", Carries(w, l)
  PROVE  Votes(l, page[w])
BY DEF PageInv, Carries, Sized, Blamed, Votes

\* A leg that votes on a page was loaded.
LEMMA VoterLoaded ==
  ASSUME PageInv, NEW w \in Workers, NEW l \in Legs, pc[w] # "idle", Votes(l, page[w])
  PROVE  pages_of[l] > 0
<1>1. page[w] >= 1 /\ page[w] \in Nat /\ pages_of[l] \in Nat
  BY Bounds DEF PageInv, Stages, Types, SourceTypes, ThreadTypes
<1> QED BY <1>1 DEF Votes

\* The scan asks every healthy leg that has the page.
LEMMA ScanLegKeeps ==
  ASSUME PageInv, NEW w \in Workers, ScanLeg(w)
  PROVE  /\ Stages' /\ OpsPlaced' /\ Doors' /\ Blamed' /\ Sized' /\ Heard' /\ Tried'
         /\ HealthyLegCarriesPage'
<1> DEFINE l == at[w]
           o == IF Votes(l, page[w]) THEN Start(0) ELSE Idle
<1>1. /\ pc[w] = "scan" /\ l \in Legs /\ op' = [op EXCEPT ![w][l] = o]
      /\ UNCHANGED <<opened, pages_of, password, bad, lock, disabled, failure, client_cancelled>>
  BY DEF ScanLeg, backend, document, request, consensus, breaker
<1>2. /\ \/ pc'[w] = "text" /\ at'[w] = 1 /\ l = NumLegs
         \/ pc'[w] = "scan" /\ at'[w] = l + 1
      /\ page' = page
      /\ \A t \in Threads \ {w} : pc'[t] = pc[t] /\ at'[t] = at[t]
  <2>1. CASE l = NumLegs /\ Goto(w, "text", 1) BY <2>1, Gone, Bounds DEF PageInv
  <2>2. CASE Goto(w, "scan", l + 1) BY <2>2, Gone, Bounds DEF PageInv
  <2> QED BY <2>1, <2>2 DEF ScanLeg
<1>3. op'[w][l] = o /\ \A t \in Threads, k \in Legs : t # w \/ k # l => op'[t][k] = op[t][k]
  <2>1. op \in [Threads -> [Legs -> OpType]] /\ w \in Threads
    BY Bounds DEF PageInv, Types, ThreadTypes
  <2>2. op' = [op EXCEPT ![w][l] = o] /\ l \in Legs BY <1>1
  <2> HIDE DEF o, l
  <2> QED BY <2>1, <2>2
<1>4. Turn(w)
  <2>1. ASSUME NEW t \in Threads \ {w} PROVE op'[t] = op[t]
    BY <1>1, Bounds DEF PageInv, Types, ThreadTypes
  <2> QED BY <1>1, <1>2, <2>1 DEF Turn
<1>5. opened = "open" /\ page[w] >= 1 BY <1>1 DEF PageInv, Stages
<1>6. o.st = "start" \/ (o.st = "idle" /\ ~Votes(l, page[w])) BY DEF Start, Idle
<1>7. ASSUME NEW k \in Legs PROVE op'[w][k].st # "idle" => pages_of[k] > 0
  <2>1. CASE k # l BY <1>3, <2>1, Bounds DEF PageInv, OpsPlaced
  <2>2. CASE k = l
    <3>1. op'[w][k] = o BY <1>3, <2>2
    <3>2. o.st # "idle" => Votes(k, page[w]) BY <2>2 DEF Idle
    <3>3. pc[w] # "idle" BY <1>1
    <3> HIDE DEF o, l
    <3> QED BY <3>1, <3>2, <3>3, VoterLoaded
  <2> QED BY <2>1, <2>2
<1>8. ASSUME NEW k \in Legs, op'[w][k].st \in Failures \ {"cancelled"}
      PROVE  op[w][k].st \in Failures \ {"cancelled"}
  <2>1. k # l BY <1>3, <1>6, <1>8 DEF Failures, Outages
  <2> QED BY <1>3, <1>8, <2>1, Bounds
<1>9. ASSUME NEW k \in Legs, pc'[w] = "text" \/ k < at'[w], Carries(w, k)'
      PROVE  op'[w][k].st \in {"start", "call", "text", "blank", "cancelled"}
  <2>1. Carries(w, k) BY <1>1, <1>2, <1>9 DEF Carries
  <2>2. CASE k = l
    <3>1. Votes(l, page[w]) BY <1>5, <2>1, <2>2, CarrierVotes
    <3> QED BY <1>3, <1>6, <2>2, <3>1
  <2>3. CASE k # l
    <3>1. k < at[w] BY <1>1, <1>2, <1>9, <2>3, Bounds
    <3>2. op'[w][k] = op[w][k] BY <1>3, <2>3, Bounds
    <3> QED BY <1>1, <2>1, <3>1, <3>2 DEF PageInv, Heard
  <2> QED BY <2>2, <2>3
<1>10. Stages' /\ OpsPlaced' /\ Doors' /\ Blamed' /\ Sized' /\ Heard' /\ Tried'
  <2>1. lock <= Candidates => \A k \in Legs : disabled'[k] => bad[k] # {}
    BY <1>1, SameBreaker
  <2>2. pc'[w] \notin {"opening", "raster"} /\ page'[w] >= 1 /\ (pc'[w] = "text" => ~(at'[w] > 1))
    BY <1>2, <1>5
  <2> QED BY <1>4, <1>5, <1>7, <1>8, <1>9, <2>1, <2>2, TurnKeeps
<1> QED BY <1>1, <1>10, StillHealthy

\* A leg's outcome of a text page is folded once nobody is asked any more.
LEMMA FoldLegKeeps ==
  ASSUME PageInv, NEW w \in Workers, FoldLeg(w)
  PROVE  /\ Stages' /\ OpsPlaced' /\ Doors' /\ Blamed' /\ Sized' /\ Heard' /\ Tried'
         /\ HealthyLegCarriesPage'
<1> DEFINE l == at[w]
<1>1. /\ pc[w] = "text" /\ l \in Legs /\ \A k \in Legs : ~Running(w, k)
      /\ UNCHANGED <<opened, pages_of, password, bad, lock>>
  BY DEF FoldLeg, backend, consensus
<1>2. CASE op[w][l].st = "cancelled" /\ fail(w, "cancelled") /\ Leave(w) /\ UNCHANGED breaker
  <2>1. HealthyLegCarriesPage'
    BY <1>1, <1>2, CancelledIsCaused, FailHealthy, Bounds
  <2>2. lock <= Candidates => \A k \in Legs : disabled'[k] => bad[k] # {}
    BY <1>2, SameBreaker DEF breaker
  <2> QED BY <1>1, <1>2, <2>1, <2>2, LeaveKeeps
<1>3. CASE /\ op[w][l].st # "cancelled" /\ Goto(w, "text", l + 1)
           /\ UNCHANGED <<op, document, request>>
  <2>1. /\ pc'[w] = "text" /\ at'[w] = l + 1 /\ page' = page
        /\ \A t \in Threads \ {w} : pc'[t] = pc[t] /\ at'[t] = at[t]
    BY <1>3, Gone, Bounds DEF PageInv
  <2>2. Turn(w) BY <1>1, <1>3, <2>1 DEF Turn
  <2>3. \/ UNCHANGED breaker \/ record_leg_success(l)
        \/ record_leg_failure(l) /\ op[w][l].st \in Failures \ {"cancelled"}
    <3>1. op[w][l].st \in {"idle", "start", "call"} \cup Answers \cup Failures
      BY <1>1, Bounds DEF PageInv, Types, ThreadTypes, OpType
    <3>2. op[w][l].st \notin {"start", "call"} BY <1>1 DEF Running
    <3> QED BY <1>3, <3>1, <3>2 DEF FoldLeg
  <2>4. lock <= Candidates => \A k \in Legs : disabled'[k] => bad[k] # {}
    BY <1>1, <2>3, BreakerKeeps
  <2>5. opened = "open" /\ page[w] >= 1 BY <1>1 DEF PageInv, Stages
  <2>6. ASSUME NEW k \in Legs
        PROVE  /\ op[w][k].st # "idle" => pages_of[k] > 0
               /\ ~Running(w, k)'
               /\ Carries(w, k)' =>
                    op[w][k].st \in {"start", "call", "text", "blank", "cancelled"}
    BY <1>1, <1>3, <2>1 DEF PageInv, OpsPlaced, Heard, Carries, Running
  <2>7. Stages' /\ OpsPlaced' /\ Doors' /\ Blamed' /\ Sized' /\ Heard' /\ Tried'
    BY <1>3, <2>1, <2>2, <2>4, <2>5, <2>6, TurnKeeps
  <2>8. HealthyLegCarriesPage' BY <1>1, <1>3, StillHealthy DEF document, request
  <2> QED BY <2>7, <2>8
<1> QED BY <1>2, <1>3 DEF FoldLeg

\* A page every leg failed is one no healthy leg has.
LEMMA EndTextKeeps ==
  ASSUME PageInv, NEW w \in Workers, EndText(w)
  PROVE  /\ Stages' /\ OpsPlaced' /\ Doors' /\ Blamed' /\ Sized' /\ Heard' /\ Tried'
         /\ HealthyLegCarriesPage'
<1>1. /\ pc[w] = "text" /\ at[w] > NumLegs
      /\ UNCHANGED <<opened, pages_of, password, bad, lock, disabled>>
  BY DEF EndText, backend, consensus, breaker
<1>2. lock <= Candidates => \A k \in Legs : disabled'[k] => bad[k] # {}
  BY <1>1, SameBreaker
<1>3. CASE /\ Results(w) \cap Answers = {} /\ fail(w, raise(Results(w) \cap Failures))
           /\ Leave(w)
  <2>1. \/ failure # NoFailure \/ client_cancelled
        \/ lock <= Candidates => \A l \in Legs : bad[l] # {} \/ page[w] > LegPages[l]
    <3>1. CASE \E l \in Legs : op[w][l].st = "cancelled" BY <3>1, CancelledIsCaused, Bounds
    <3>2. ASSUME \A l \in Legs : op[w][l].st # "cancelled", lock <= Candidates, NEW l \in Legs
          PROVE  bad[l] # {} \/ page[w] > LegPages[l]
      <4>1. at[w] \in 1..(NumLegs + 1) /\ NumLegs \in Nat \ {0}
        BY Bounds DEF PageInv, Types, ThreadTypes
      <4>2. at[w] > 1 BY <1>1, <4>1
      <4>3. ~Running(w, l) BY <1>1, <4>2 DEF PageInv, Heard
      <4>4. op[w][l].st \notin Answers BY <1>3 DEF Results
      <4>5. ~Carries(w, l) BY <1>1, <3>2, <4>3, <4>4 DEF PageInv, Heard, Running, Answers
      <4>6. page[w] \in Nat /\ LegPages[l] \in Nat
        BY Bounds DEF PageInv, Types, ThreadTypes
      <4> QED BY <3>2, <4>5, <4>6 DEF Carries
    <3> QED BY <3>1, <3>2
  <2>2. HealthyLegCarriesPage' BY <1>1, <1>3, <2>1, FailHealthy, Bounds
  <2> QED BY <1>1, <1>2, <1>3, <2>2, LeaveKeeps
<1>4. CASE Leave(w) /\ UNCHANGED <<next_page, failure, request>>
  <2>1. HealthyLegCarriesPage' BY <1>1, <1>4, StillHealthy DEF request
  <2> QED BY <1>1, <1>2, <1>4, <2>1, LeaveKeeps
<1>5. CASE /\ Goto(w, "raster", 1) /\ op' = [op EXCEPT ![w] = NoOps]
           /\ UNCHANGED <<document, request>>
  <2>1. /\ pc'[w] = "raster" /\ at'[w] = 1 /\ page' = page
        /\ \A t \in Threads \ {w} : pc'[t] = pc[t] /\ at'[t] = at[t]
    BY <1>5, Gone, Bounds DEF PageInv
  <2>2. op'[w] = NoOps /\ \A t \in Threads \ {w} : op'[t] = op[t]
    BY <1>5, AllWritten, Bounds DEF PageInv
  <2>3. Turn(w) BY <1>1, <2>1, <2>2 DEF Turn
  <2>4. \A l \in Legs : op'[w][l].st = "idle" BY <2>2 DEF NoOps, Idle
  <2>5. opened = "open" /\ page[w] >= 1 BY <1>1 DEF PageInv, Stages
  <2>6. \A l \in Legs : ~(l < 1) BY Bounds
  <2>7. "idle" \notin Failures BY DEF Failures, Outages
  <2>8. Stages' /\ OpsPlaced' /\ Doors' /\ Blamed' /\ Sized' /\ Heard' /\ Tried'
    BY <1>2, <2>1, <2>3, <2>4, <2>5, <2>6, <2>7, TurnKeeps
  <2>9. HealthyLegCarriesPage' BY <1>1, <1>5, StillHealthy DEF document, request
  <2> QED BY <2>8, <2>9
<1> QED BY <1>3, <1>4, <1>5 DEF EndText

\* What a worker that renders keeps as it goes on to a leg, or past it.
LEMMA RasterKeeps ==
  ASSUME PageInv, NEW w \in Workers, pc[w] = "raster", pc'[w] = "raster", Turn(w),
         page' = page,
         lock <= Candidates => \A k \in Legs : disabled'[k] => bad[k] # {},
         \A l \in Legs : op'[w][l].st # "idle" => pages_of[l] > 0,
         \A l \in Legs : op'[w][l].st \in Failures \ {"cancelled"} =>
                           op[w][l].st \in Failures \ {"cancelled"},
         \A l \in Legs : l < at'[w] => l < at[w] \/ ~Carries(w, l)
  PROVE  Stages' /\ OpsPlaced' /\ Doors' /\ Blamed' /\ Sized' /\ Heard' /\ Tried'
<1>1. opened = "open" /\ page[w] >= 1 BY DEF PageInv, Stages
<1>2. ASSUME NEW l \in Legs, l < at'[w] PROVE ~Carries(w, l)'
  <2>1. ~Carries(w, l) BY <1>2 DEF PageInv, Tried
  <2> QED BY <2>1 DEF Turn, Carries
<1> QED BY <1>1, <1>2, TurnKeeps

\* Rendering passes over a leg only when it lacks the page or was dropped.
LEMMA AskRasterKeeps ==
  ASSUME PageInv, NEW w \in Workers, AskRaster(w)
  PROVE  /\ Stages' /\ OpsPlaced' /\ Doors' /\ Blamed' /\ Sized' /\ Heard' /\ Tried'
         /\ HealthyLegCarriesPage'
<1> DEFINE l == at[w]
<1>1. /\ pc[w] = "raster" /\ l \in Legs /\ op[w][l].st = "idle"
      /\ UNCHANGED <<opened, pages_of, password, bad, lock, disabled, failure, client_cancelled>>
  BY DEF AskRaster, backend, document, request, consensus, breaker
<1>2. lock <= Candidates => \A k \in Legs : disabled'[k] => bad[k] # {}
  BY <1>1, SameBreaker
<1>3. opened = "open" BY <1>1 DEF PageInv, Stages
<1>4. CASE Votes(l, page[w]) /\ op' = [op EXCEPT ![w][l] = Start(0)] /\ UNCHANGED <<pc, at, page>>
  <2>1. /\ op'[w][l] = Start(0)
        /\ \A t \in Threads, k \in Legs : t # w \/ k # l => op'[t][k] = op[t][k]
    <3>1. op \in [Threads -> [Legs -> OpType]] /\ w \in Threads
      BY Bounds DEF PageInv, Types, ThreadTypes
    <3>2. op' = [op EXCEPT ![w][l] = Start(0)] /\ l \in Legs BY <1>1, <1>4
    <3> HIDE DEF l
    <3> QED BY <3>1, <3>2
  <2>2. Turn(w)
    <3>1. ASSUME NEW t \in Threads \ {w} PROVE op'[t] = op[t]
      BY <1>4, Bounds DEF PageInv, Types, ThreadTypes
    <3> QED BY <1>1, <1>4, <3>1 DEF Turn
  <2>3. Start(0).st = "start" BY DEF Start
  <2>4. pages_of[l] > 0 BY <1>1, <1>4, VoterLoaded
  <2>5. ASSUME NEW k \in Legs
        PROVE  /\ op'[w][k].st # "idle" => pages_of[k] > 0
               /\ op'[w][k].st \in Failures \ {"cancelled"} =>
                    op[w][k].st \in Failures \ {"cancelled"}
    <3>1. CASE k = l BY <2>1, <2>3, <2>4, <3>1 DEF Failures, Outages
    <3>2. CASE k # l BY <2>1, <3>2, Bounds DEF PageInv, OpsPlaced
    <3> QED BY <3>1, <3>2
  <2> QED BY <1>1, <1>2, <1>4, <2>2, <2>5, RasterKeeps, StillHealthy
<1>5. CASE ~Votes(l, page[w]) /\ Goto(w, "raster", l + 1) /\ UNCHANGED op
  <2>1. /\ pc'[w] = "raster" /\ at'[w] = l + 1 /\ page' = page
        /\ \A t \in Threads \ {w} : pc'[t] = pc[t] /\ at'[t] = at[t]
    BY <1>5, Gone, Bounds DEF PageInv
  <2>2. Turn(w) BY <1>1, <1>5, <2>1 DEF Turn
  <2>3. ~Carries(w, l) BY <1>1, <1>3, <1>5, CarrierVotes
  <2>4. ASSUME NEW k \in Legs, k < at'[w] PROVE k < at[w] \/ ~Carries(w, k)
    BY <1>1, <2>1, <2>3, <2>4, Bounds
  <2>5. \A k \in Legs : op'[w][k].st # "idle" => pages_of[k] > 0
    BY <1>5 DEF PageInv, OpsPlaced
  <2> QED BY <1>1, <1>2, <1>5, <2>1, <2>2, <2>4, <2>5, RasterKeeps, StillHealthy
<1> QED BY <1>4, <1>5 DEF AskRaster

\* A leg that failed to render the page is not healthy.
LEMMA TakeRasterKeeps ==
  ASSUME PageInv, NEW w \in Workers, TakeRaster(w)
  PROVE  /\ Stages' /\ OpsPlaced' /\ Doors' /\ Blamed' /\ Sized' /\ Heard' /\ Tried'
         /\ HealthyLegCarriesPage'
<1> DEFINE l == at[w]
<1>1. /\ pc[w] = "raster" /\ l \in Legs
      /\ UNCHANGED <<opened, pages_of, password, bad, lock>>
  BY DEF TakeRaster, backend, consensus
<1>2. CASE /\ record_leg_success(l) /\ Leave(w)
           /\ UNCHANGED <<next_page, failure, request>>
  <2>1. lock <= Candidates => \A k \in Legs : disabled'[k] => bad[k] # {}
    BY <1>1, <1>2, BreakerKeeps
  <2>2. HealthyLegCarriesPage' BY <1>1, <1>2, StillHealthy DEF request
  <2> QED BY <1>1, <1>2, <2>1, <2>2, LeaveKeeps
<1>3. CASE op[w][l].st = "cancelled" /\ fail(w, "cancelled") /\ Leave(w) /\ UNCHANGED breaker
  <2>1. HealthyLegCarriesPage'
    BY <1>1, <1>3, CancelledIsCaused, FailHealthy, Bounds
  <2>2. lock <= Candidates => \A k \in Legs : disabled'[k] => bad[k] # {}
    BY <1>3, SameBreaker DEF breaker
  <2> QED BY <1>1, <1>3, <2>1, <2>2, LeaveKeeps
<1>4. CASE /\ op[w][l].st \in Failures \ {"cancelled"} /\ record_leg_failure(l)
           /\ Goto(w, "raster", l + 1) /\ UNCHANGED <<op, document, request>>
  <2>1. /\ pc'[w] = "raster" /\ at'[w] = l + 1 /\ page' = page
        /\ \A t \in Threads \ {w} : pc'[t] = pc[t] /\ at'[t] = at[t]
    BY <1>4, Gone, Bounds DEF PageInv
  <2>2. Turn(w) BY <1>1, <1>4, <2>1 DEF Turn
  <2>3. ~Carries(w, l) BY <1>1, <1>4, Bounds DEF PageInv, Blamed, Carries
  <2>4. ASSUME NEW k \in Legs, k < at'[w] PROVE k < at[w] \/ ~Carries(w, k)
    BY <1>1, <2>1, <2>3, <2>4, Bounds
  <2>5. \A k \in Legs : op'[w][k].st # "idle" => pages_of[k] > 0
    BY <1>4 DEF PageInv, OpsPlaced
  <2>6. lock <= Candidates => \A k \in Legs : disabled'[k] => bad[k] # {}
    BY <1>1, <1>4, BreakerKeeps
  <2>7. Stages' /\ OpsPlaced' /\ Doors' /\ Blamed' /\ Sized' /\ Heard' /\ Tried'
    BY <1>1, <1>4, <2>1, <2>2, <2>4, <2>5, <2>6, RasterKeeps
  <2>8. HealthyLegCarriesPage' BY <1>1, <1>4, StillHealthy DEF document, request
  <2> QED BY <2>7, <2>8
<1> QED BY <1>2, <1>3, <1>4 DEF TakeRaster

\* Nobody rendered the page: no healthy leg has it.
LEMMA EndRasterKeeps ==
  ASSUME PageInv, NEW w \in Workers, EndRaster(w)
  PROVE  /\ Stages' /\ OpsPlaced' /\ Doors' /\ Blamed' /\ Sized' /\ Heard' /\ Tried'
         /\ HealthyLegCarriesPage'
<1>1. /\ pc[w] = "raster" /\ at[w] > NumLegs /\ Leave(w)
      /\ UNCHANGED <<opened, pages_of, password, bad, lock, disabled>>
  BY DEF EndRaster, backend, consensus, breaker
<1>2. PICK kind : fail(w, kind) BY DEF EndRaster
<1>3. ASSUME lock <= Candidates, NEW l \in Legs PROVE bad[l] # {} \/ page[w] > LegPages[l]
  <2>1. at[w] \in Nat /\ l \in 1..NumLegs /\ NumLegs \in Nat
    BY Bounds DEF PageInv, Types, ThreadTypes
  <2>2. ~Carries(w, l) BY <1>1, <2>1 DEF PageInv, Tried
  <2>3. page[w] \in Nat /\ LegPages[l] \in Nat BY Bounds DEF PageInv, Types, ThreadTypes
  <2> QED BY <1>3, <2>2, <2>3 DEF Carries
<1>4. HealthyLegCarriesPage' BY <1>1, <1>2, <1>3, FailHealthy, Bounds
<1>5. lock <= Candidates => \A k \in Legs : disabled'[k] => bad[k] # {}
  BY <1>1, SameBreaker
<1> QED BY <1>1, <1>4, <1>5, LeaveKeeps

\* cancel(), the client and a cache change nothing the pages rest on.
LEMMA AsideKeeps ==
  ASSUME PageInv,
         UNCHANGED <<pc, at, page, opened, pages_of, password, disabled, bad, lock, failure>>,
         client_cancelled => client_cancelled',
         \A t \in Threads, l \in Legs : op'[t][l].st = op[t][l].st /\ op'[t][l].try = op[t][l].try
  PROVE  /\ Stages' /\ OpsPlaced' /\ Doors' /\ Blamed' /\ Sized' /\ Heard' /\ Tried'
         /\ HealthyLegCarriesPage'
<1>1. Stages' BY DEF PageInv, Stages
<1>2. OpsPlaced' BY Bounds DEF PageInv, OpsPlaced
<1>3. Doors' BY Bounds DEF PageInv, Doors, Opens, Running
<1>4. Blamed' BY DEF PageInv, Blamed
<1>5. Sized' BY DEF PageInv, Sized
<1>6. Heard' BY Bounds DEF PageInv, Heard, Carries, Running
<1>7. Tried' BY DEF PageInv, Tried, Carries
<1> QED BY <1>1, <1>2, <1>3, <1>4, <1>5, <1>6, <1>7, StillHealthy

\* cancel() changes nothing of an operation but its aborted mark.
LEMMA CancelLegOps ==
  ASSUME PageInv, CancelLeg, NEW t \in Threads, NEW l \in Legs
  PROVE  /\ op'[t][l].st = op[t][l].st /\ op'[t][l].try = op[t][l].try
         /\ op'[t][l].bytes = op[t][l].bytes
<1>1. op[t][l] \in OpType /\ op[t] \in [Legs -> OpType] BY DEF PageInv, Types, ThreadTypes
<1>2. op'[t] = [op[t] EXCEPT ![cancelling].aborted =
                  op[t][cancelling].aborted \/ op[t][cancelling].st = "call"]
  BY DEF CancelLeg
<1>3. cancelling \in Legs BY DEF CancelLeg
<1>4. CASE l # cancelling BY <1>1, <1>2, <1>4
<1>5. CASE l = cancelling
  <2>1. op'[t][l] = [op[t][l] EXCEPT !.aborted = op[t][l].aborted \/ op[t][l].st = "call"]
    BY <1>1, <1>2, <1>5
  <2> QED BY <1>1, <2>1 DEF OpType
<1> QED BY <1>4, <1>5

----------------------------------------------------------------------------
\* A source that was just made has nothing to answer for.
LEMMA InitPages == Init => PageInv
<1> SUFFICES ASSUME Init PROVE PageInv OBVIOUS
<1>1. Stages BY Bounds DEF Init, Stages
<1>2. \A t \in Threads, l \in Legs : op[t][l].st = "idle" BY DEF Init, NoOps, Idle
<1>3. OpsPlaced
  <2>1. pc[Opener] = "idle" BY Bounds DEF Init
  <2> QED BY <1>2, <2>1, Bounds DEF OpsPlaced
<1>4. Doors BY <1>2, Bounds DEF Init, Doors, Running
<1>5. Blamed BY <1>2 DEF Init, Blamed, Failures, Outages
<1>6. Sized BY DEF Init, Sized
<1>7. \A w \in Workers : pc[w] = "idle" BY Bounds DEF Init
<1>8. Heard /\ Tried BY <1>7 DEF Heard, Tried
<1>9. HealthyLegCarriesPage BY DEF Init, HealthyLegCarriesPage
<1> QED BY <1>1, <1>3, <1>4, <1>5, <1>6, <1>8, <1>9, InitTypes, InitCancel DEF PageInv

\* No step makes a healthy backend lose a page.
LEMMA NextPages == PageInv /\ [Next]_vars => PageInv'
<1> SUFFICES ASSUME PageInv, [Next]_vars PROVE PageInv' OBVIOUS
<1>1. CancelInv' BY NextCancel DEF PageInv
<1>2. Types' BY <1>1, TypesStep DEF PageInv
<1>3. /\ Stages' /\ OpsPlaced' /\ Doors' /\ Blamed' /\ Sized' /\ Heard' /\ Tried'
      /\ HealthyLegCarriesPage'
  <2>1. ASSUME NEW t \in Threads, NEW l \in Legs, Call(t, l)
        PROVE  \E o : Operation(t, l, o)
    BY <2>1, RegisterIs, FailsIs, BytesIs DEF Call
  <2>2. CASE \E t \in Threads, l \in Legs : \E o : Operation(t, l, o)
    BY <2>2, OperationKeeps
  <2>3. CASE OpenerStep
    BY <2>1, <2>2, <2>3, BeginOpenKeeps, FinishOpenKeeps, ProbeIs, Bounds DEF OpenerStep
  <2>4. ASSUME NEW w \in Workers, WorkerStep(w)
        PROVE  /\ Stages' /\ OpsPlaced' /\ Doors' /\ Blamed' /\ Sized' /\ Heard' /\ Tried'
               /\ HealthyLegCarriesPage'
    <3>1. CASE \E l \in Legs : Call(w, l) \/ ParseAnswered(w, l) \/ RenderAnswered(w, l)
      BY <2>1, <2>2, <3>1, PageAnswerIs, Bounds
    <3> QED BY <2>4, <3>1, BeginPageKeeps, ScanLegKeeps, FoldLegKeeps, EndTextKeeps,
               AskRasterKeeps, TakeRasterKeeps, EndRasterKeeps DEF WorkerStep
  <2>5. CASE \E l \in Legs : Evict(l)
    BY <2>5, AsideKeeps DEF Evict, document, request, consensus, breaker
  <2>6. CASE ClientCancels
    BY <2>6, AsideKeeps DEF ClientCancels, backend, document, consensus, breaker
  <2>7. CASE CancelLeg
    <3>1. UNCHANGED <<pc, at, page, opened, pages_of, password, disabled, bad, lock, failure,
                      client_cancelled>>
      BY <2>7 DEF CancelLeg, backend, document, consensus, breaker
    <3> QED BY <2>7, <3>1, CancelLegOps, AsideKeeps
  <2>8. CASE Terminated \/ UNCHANGED vars
    BY <2>8, AsideKeeps DEF Terminated, vars
  <2> QED BY <2>3, <2>4, <2>5, <2>6, <2>7, <2>8 DEF Next
<1> QED BY <1>1, <1>2, <1>3 DEF PageInv

\* The pages' invariant holds of every reachable state.
LEMMA PageInvariant == Spec => []PageInv
BY InitPages, NextPages, PTL DEF Spec

\* The source's and its backends' state always has its types, for every number
\* of legs, workers, pages, candidates, faults and evictions.
THEOREM ConsensusTypeCorrect == Spec => []TypeOK
<1>1. PageInv => TypeOK
  BY DEF PageInv, CancelInv, CallTypes, Types, BackendTypes, SourceTypes, ThreadTypes,
         DocumentTypes, TypeOK
<1> QED BY <1>1, PageInvariant, PTL

\* A document fails, unasked, only on a page every healthy backend lacks,
\* however retries, passwords, failing legs, the breaker and overtaking workers
\* mix (open, extract_digital_page and render_page of consensus_page_source.cpp).
THEOREM HealthyLegAlwaysCarries == Spec => []HealthyLegCarriesPage
<1>1. PageInv => HealthyLegCarriesPage BY DEF PageInv
<1> QED BY <1>1, PageInvariant, PTL


----------------------------------------------------------------------------
(* What a backend is sent.                                                 *)

\* A step of one operation: what it leaves the operation, the cache and the
\* count of uploads of its leg.
LEMMA SentOne ==
  ASSUME PageInv, Uploads, NEW t \in Threads, NEW l \in Legs, NEW o,
         op' = [op EXCEPT ![t][l] = o],
         UNCHANGED <<handshake, evictions, opened, pages_of, pc>>,
         \A k \in Legs \ {l} : cached'[k] = cached[k] /\ uploads'[k] = uploads[k],
         cached[l] => cached'[l],
         t \in Workers => ~o.bytes /\ uploads'[l] = uploads[l],
         t = Opener =>
           /\ pc[Opener] # "idle" /\ uploads'[l] <= 1
           /\ o.st = "opened" => cached'[l]
           /\ o.st = "start" /\ o.bytes => uploads'[l] = 0
           /\ o.st \in {"start", "call"} /\ ~o.bytes => uploads'[l] = 0 \/ cached'[l]
  PROVE  handshake /\ evictions = 0 => \A k \in Legs : Sent(k)'
<1>1. /\ op'[t][l] = o
      /\ \A t1 \in Threads, k \in Legs : t1 # t \/ k # l => op'[t1][k] = op[t1][k]
  BY OneWritten DEF PageInv
<1> SUFFICES ASSUME handshake, evictions = 0, NEW k \in Legs PROVE Sent(k)'
  OBVIOUS
<1>2. Sent(k) BY DEF Uploads
<1>3. t \in Workers \/ t = Opener BY DEF Threads
<1>4. \A w \in Workers : w \in Threads /\ w # Opener BY Bounds
<1>5. CASE k # l
  <2>1. op'[Opener][k] = op[Opener][k] /\ \A w \in Workers : op'[w][k] = op[w][k]
    BY <1>1, <1>4, <1>5, Bounds
  <2>2. cached'[k] = cached[k] /\ uploads'[k] = uploads[k] BY <1>5
  <2> QED BY <1>2, <2>1, <2>2 DEF Sent, Running
<1>6. CASE k = l /\ t = Opener
  <2>1. \A w \in Workers : op'[w][k] = op[w][k] BY <1>1, <1>4, <1>6
  <2>2. op'[Opener][k] = o BY <1>1, <1>6
  <2> QED BY <1>2, <1>6, <2>1, <2>2 DEF Sent, Running
<1>7. CASE k = l /\ t \in Workers
  <2>1. op'[Opener][k] = op[Opener][k] BY <1>1, <1>4, <1>7, Bounds
  <2>2. \A w \in Workers : ~op'[w][k].bytes BY <1>1, <1>2, <1>4, <1>7 DEF Sent
  <2> QED BY <1>2, <1>7, <2>1, <2>2 DEF Sent, Running
<1> QED BY <1>3, <1>5, <1>6, <1>7

\* A thread that has an operation runs: the opener is opening, and the leg of a
\* page's operation has loaded.
LEMMA OperationRuns ==
  ASSUME PageInv, NEW t \in Threads, NEW l \in Legs, op[t][l].st # "idle"
  PROVE  /\ t = Opener => pc[Opener] # "idle"
         /\ t \in Workers => pages_of[l] > 0
BY Bounds DEF PageInv, OpsPlaced

\* Only the opener's call with the bytes is an upload, and then the first.
LEMMA RegisterSends ==
  ASSUME PageInv, Uploads, NEW t \in Threads, NEW l \in Legs, RegisterCall(t, l)
  PROVE  Uploads'
<1> SUFFICES ASSUME handshake, evictions = 0 PROVE \A k \in Legs : Sent(k)'
  BY DEF Uploads, RegisterCall
<1>1. /\ UNCHANGED <<handshake, evictions, cached, opened, pages_of, pc>>
      /\ op[t][l].st = "start"
  BY DEF RegisterCall, consensus
<1>2. Sent(l) BY DEF Uploads
<1>3. op[t][l] \in OpType /\ uploads \in [Legs -> 0..2]
  BY DEF PageInv, Types, ThreadTypes, BackendTypes
<1>4. \A k \in Legs \ {l} : uploads'[k] = uploads[k] BY <1>3 DEF RegisterCall
<1>5. t \in Workers \/ t = Opener BY DEF Threads
<1>6. (t = Opener => pc[Opener] # "idle") /\ Opener \notin Workers
  BY <1>1, OperationRuns, Bounds
<1>7. CASE leg_cancelled[l]
  <2>1. op' = [op EXCEPT ![t][l] = Ended("cancelled")]
    BY <1>7 DEF RegisterCall, PageInv, Types, ThreadTypes
  <2>2. uploads'[l] = uploads[l] BY <1>3, <1>7 DEF RegisterCall
  <2>3. ~Ended("cancelled").bytes /\ Ended("cancelled").st = "cancelled" BY DEF Ended
  <2> QED BY <1>1, <1>2, <1>4, <1>6, <2>1, <2>2, <2>3, SentOne DEF Sent
<1>8. CASE ~leg_cancelled[l]
  <2> DEFINE o == [op[t][l] EXCEPT !.st = "call"]
  <2>1. op' = [op EXCEPT ![t][l] = o] BY <1>8 DEF RegisterCall, PageInv, Types, ThreadTypes
  <2>2. o.st = "call" /\ o.bytes = op[t][l].bytes BY <1>3 DEF OpType
  <2>3. ~op[t][l].bytes => uploads'[l] = uploads[l] BY <1>3 DEF RegisterCall
  <2>4. t \in Workers => ~op[t][l].bytes BY <1>2 DEF Sent
  <2>5. t = Opener => uploads'[l] <= 1
    <3>1. CASE op[t][l].bytes /\ t = Opener
      <4>1. uploads[l] = 0 BY <1>1, <1>2, <3>1 DEF Sent
      <4>2. uploads'[l] = 1 BY <1>3, <1>8, <3>1, <4>1 DEF RegisterCall
      <4> QED BY <4>2
    <3>2. CASE ~op[t][l].bytes
      BY <1>2, <2>3, <3>2 DEF Sent
    <3> QED BY <3>1, <3>2
  <2>6. t = Opener /\ ~op[t][l].bytes => uploads'[l] = 0 \/ cached[l]
    BY <1>1, <1>2, <2>3 DEF Sent, Running
  <2> HIDE DEF o
  <2> QED BY <1>1, <1>4, <1>6, <2>1, <2>2, <2>3, <2>4, <2>5, <2>6, SentOne
<1> QED BY <1>7, <1>8

\* A call that failed carried what it carried.
LEMMA FailSends ==
  ASSUME PageInv, Uploads, NEW t \in Threads, NEW l \in Legs, CallFails(t, l)
  PROVE  Uploads'
<1> SUFFICES ASSUME handshake, evictions = 0 PROVE \A k \in Legs : Sent(k)'
  BY DEF Uploads, CallFails
<1>1. /\ UNCHANGED <<handshake, evictions, cached, uploads, opened, pages_of, pc>>
      /\ op[t][l].st = "call"
  BY DEF CallFails, consensus
<1>2. PICK kind \in Failures : op' = [op EXCEPT ![t][l] = Ended(kind)]
  BY FaultsAreFailures DEF CallFails, Failures
<1>3. ~Ended(kind).bytes /\ Ended(kind).st \notin {"opened", "start", "call"}
  BY DEF Ended, Failures, Outages
<1>4. t = Opener => pc[Opener] # "idle" BY <1>1, OperationRuns
<1>5. uploads[l] <= 1 BY DEF Uploads, Sent
<1> QED BY <1>1, <1>2, <1>3, <1>4, <1>5, SentOne, Bounds

\* A cache miss is the opener's, and of a backend that was sent nothing.
LEMMA BytesSends ==
  ASSUME PageInv, Uploads, NEW t \in Threads, NEW l \in Legs, BytesRequired(t, l)
  PROVE  Uploads'
<1> SUFFICES ASSUME handshake, evictions = 0 PROVE \A k \in Legs : Sent(k)'
  BY DEF Uploads, BytesRequired, backend
<1>1. /\ UNCHANGED <<handshake, evictions, cached, uploads, opened, pages_of, pc>>
      /\ op[t][l].st = "call" /\ ~op[t][l].bytes /\ ~cached[l]
  BY DEF BytesRequired, Missed, consensus, backend
<1>2. Sent(l) BY DEF Uploads
<1>3. t \notin Workers BY <1>1, <1>2, OperationRuns DEF Sent
<1>4. t = Opener BY <1>3 DEF Threads
<1>5. uploads[l] = 0 BY <1>1, <1>2, <1>4 DEF Sent, Running
<1>6. PICK o : op' = [op EXCEPT ![t][l] = o] /\ o.st = "start" /\ o.bytes
  <2> DEFINE again == [op[t][l] EXCEPT !.st = "start", !.bytes = TRUE, !.aborted = FALSE]
  <2>1. op' = [op EXCEPT ![t][l] = again]
    BY DEF BytesRequired, PageInv, Types, ThreadTypes
  <2>2. again.st = "start" /\ again.bytes BY DEF PageInv, Types, ThreadTypes, OpType
  <2> HIDE DEF again
  <2> QED BY <2>1, <2>2
<1>7. pc[Opener] # "idle" BY <1>1, <1>4, OperationRuns
<1>8. uploads'[l] = 0 /\ uploads'[l] <= 1 BY <1>1, <1>5
<1> QED BY <1>1, <1>3, <1>4, <1>6, <1>7, <1>8, SentOne

\* What loaded stays cached, or was.
LEMMA LoadedKept ==
  ASSUME PageInv, NEW t \in Threads, NEW l \in Legs, Loaded(t, l), handshake
  PROVE  cached'[l] /\ \A k \in Legs \ {l} : cached'[k] = cached[k]
<1>1. cached \in [Legs -> BOOLEAN] /\ op[t][l].bytes \in BOOLEAN
  BY DEF PageInv, Types, BackendTypes, ThreadTypes, OpType
<1>2. cached' = [cached EXCEPT ![l] = cached[l] \/ (handshake /\ op[t][l].bytes)]
  BY DEF Loaded
<1>3. cached[l] \/ op[t][l].bytes BY DEF Loaded, Missed
<1>4. cached'[l] = (cached[l] \/ (handshake /\ op[t][l].bytes)) BY <1>1, <1>2
<1>5. \A k \in Legs \ {l} : cached'[k] = cached[k] BY <1>1, <1>2
<1> QED BY <1>3, <1>4, <1>5

\* With the handshake on, an operation starts with the hash alone.
LEMMA HashOnly ==
  ASSUME handshake
  PROVE  (\A try : Start(try).st = "start" /\ ~Start(try).bytes) /\ ~Idle.bytes
<1>1. \A try : ~Start(try).bytes BY DEF Start
<1>2. \A try : Start(try).st = "start" BY DEF Start
<1> QED BY <1>1, <1>2 DEF Idle

\* A Probe that was answered leaves the document with its backend.
LEMMA ProbeSends ==
  ASSUME PageInv, Uploads, NEW l \in Legs, ProbeAnswered(l)
  PROVE  Uploads'
<1>1. Loaded(Opener, l) /\ UNCHANGED <<opened, pages_of>> BY DEF ProbeAnswered
<1>2. /\ UNCHANGED <<handshake, evictions, uploads, pc>> /\ op[Opener][l].st = "call"
  BY <1>1, LoadedFrame, Bounds
<1> SUFFICES ASSUME handshake, evictions = 0 PROVE \A k \in Legs : Sent(k)'
  BY <1>2 DEF Uploads
<1>3. cached'[l] /\ \A k \in Legs \ {l} : cached'[k] = cached[k]
  BY <1>1, LoadedKept, Bounds
<1>4. PICK o : op' = [op EXCEPT ![Opener][l] = o] /\ ~o.bytes
  <2>1. \A kind : ~Ended(kind).bytes BY DEF Ended
  <2>2. \A try : ~Start(try).bytes BY HashOnly
  <2> QED BY <2>1, <2>2 DEF ProbeAnswered
<1>5. pc[Opener] # "idle" BY <1>2, OperationRuns, Bounds
<1>6. uploads[l] <= 1 BY DEF Uploads, Sent
<1> QED BY <1>1, <1>2, <1>3, <1>4, <1>5, <1>6, SentOne, Bounds

\* A page's answer sends nothing.
LEMMA PageSends ==
  ASSUME PageInv, Uploads, NEW w \in Workers, NEW l \in Legs,
         ParseAnswered(w, l) \/ RenderAnswered(w, l)
  PROVE  Uploads'
<1>1. Loaded(w, l) /\ UNCHANGED <<opened, pages_of>>
  BY DEF ParseAnswered, RenderAnswered, consensus
<1>2. w \in Threads /\ w # Opener BY Bounds
<1>3. UNCHANGED <<handshake, evictions, uploads, pc>> BY <1>1, <1>2, LoadedFrame
<1> SUFFICES ASSUME handshake, evictions = 0 PROVE \A k \in Legs : Sent(k)'
  BY <1>3 DEF Uploads
<1>4. cached'[l] /\ \A k \in Legs \ {l} : cached'[k] = cached[k]
  BY <1>1, <1>2, LoadedKept
<1>5. PICK o : op' = [op EXCEPT ![w][l] = o] /\ ~o.bytes
  <2>1. \A kind : ~Ended(kind).bytes BY DEF Ended
  <2> QED BY <2>1 DEF ParseAnswered, RenderAnswered
<1> QED BY <1>1, <1>2, <1>3, <1>4, <1>5, SentOne

\* The opener's own steps, and a worker's between its operations.
LEMMA BeginOpenSends ==
  ASSUME PageInv, Uploads, BeginOpen
  PROVE  Uploads'
<1>1. /\ UNCHANGED <<handshake, evictions, cached, uploads, opened, pages_of>>
      /\ pc[Opener] = "idle" /\ opened = "closed" /\ Goto(Opener, "opening", 1)
      /\ op' = [op EXCEPT ![Opener] = [l \in Legs |-> Start(0)]]
  BY DEF BeginOpen, backend, consensus
<1> SUFFICES ASSUME handshake, evictions = 0, NEW l \in Legs PROVE Sent(l)'
  BY <1>1 DEF Uploads
<1>2. op'[Opener] = [k \in Legs |-> Start(0)] /\ \A t \in Threads \ {Opener} : op'[t] = op[t]
  BY <1>1, AllWritten, Bounds DEF PageInv
<1>3. op'[Opener][l].st = "start" /\ ~op'[Opener][l].bytes BY <1>2, HashOnly
<1>4. pc'[Opener] = "opening" BY <1>1, Gone, Bounds DEF PageInv
<1>5. \A w \in Workers : op'[w] = op[w] BY <1>2, Bounds
<1>6. Sent(l) BY DEF Uploads
<1> QED BY <1>1, <1>3, <1>4, <1>5, <1>6 DEF Sent, Running

\* The legs that loaded have the document.
LEMMA FinishOpenSends ==
  ASSUME PageInv, Uploads, FinishOpen
  PROVE  Uploads'
<1>1. /\ UNCHANGED <<handshake, evictions, cached, uploads>> /\ Leave(Opener)
  BY DEF FinishOpen, backend
<1> SUFFICES ASSUME handshake, evictions = 0, NEW l \in Legs PROVE Sent(l)'
  BY <1>1 DEF Uploads
<1>2. op'[Opener] = NoOps /\ \A t \in Threads \ {Opener} : op'[t] = op[t]
  BY <1>1, Left, Bounds DEF PageInv
<1>3. op'[Opener][l].st = "idle" BY <1>2 DEF NoOps, Idle
<1>4. \A w \in Workers : op'[w] = op[w] BY <1>2, Bounds
<1>5. opened' # "closed"
  BY RaisedKind, Bounds DEF FinishOpen, Failures, Outages
<1>6. Sent(l) BY DEF Uploads
<1>7. pages_of'[l] > 0 => cached[l]
  <2>1. pages_of' = pages_of \/ (pages_of'[l] > 0 => op[Opener][l].st = "opened")
    BY DEF FinishOpen
  <2> QED BY <1>6, <2>1 DEF Sent
<1> QED BY <1>1, <1>3, <1>4, <1>5, <1>6, <1>7 DEF Sent, Running

\* A worker's turn starts operations without bytes and sends nothing.
LEMMA TurnSends ==
  ASSUME PageInv, Uploads, NEW w \in Workers,
         UNCHANGED <<handshake, evictions, cached, uploads, opened, pages_of>>,
         pc'[Opener] = pc[Opener],
         \A t \in Threads \ {w} : op'[t] = op[t],
         handshake => \A l \in Legs : op'[w][l].bytes => op[w][l].bytes
  PROVE  Uploads'
<1> SUFFICES ASSUME handshake, evictions = 0, NEW l \in Legs PROVE Sent(l)'
  BY DEF Uploads
<1>1. Sent(l) BY DEF Uploads
<1>2. op'[Opener] = op[Opener] BY Bounds
<1>3. ASSUME NEW v \in Workers PROVE ~op'[v][l].bytes
  <2>1. ~op[v][l].bytes BY <1>1 DEF Sent
  <2>2. CASE v = w BY <2>1, <2>2
  <2>3. CASE v # w BY <2>1, <2>3, Bounds
  <2> QED BY <2>2, <2>3
<1> QED BY <1>1, <1>2, <1>3 DEF Sent, Running

\* The steps of a worker that are not an operation's.
LEMMA WorkerSends ==
  ASSUME PageInv, Uploads, NEW w \in Workers,
         \/ BeginPage(w) \/ ScanLeg(w) \/ FoldLeg(w) \/ EndText(w)
         \/ AskRaster(w) \/ TakeRaster(w) \/ EndRaster(w)
  PROVE  Uploads'
<1> USE DEF backend, consensus
<1>1. UNCHANGED <<handshake, evictions, cached, uploads, opened, pages_of>>
  BY DEF BeginPage, ScanLeg, FoldLeg, EndText, AskRaster, TakeRaster, EndRaster
<1>2. w \in Threads /\ w # Opener /\ Opener \in Threads BY Bounds
<1>3. pc'[Opener] = pc[Opener]
  <2>1. CASE BeginPage(w) BY <1>2, <2>1 DEF BeginPage, PageInv, Types, ThreadTypes
  <2>2. CASE UNCHANGED pc BY <2>2
  <2>3. CASE Leave(w) BY <1>2, <2>3 DEF Leave, PageInv, Types, ThreadTypes
  <2>4. ASSUME NEW label, NEW leg, Goto(w, label, leg) PROVE pc'[Opener] = pc[Opener]
    BY <1>2, <2>4 DEF Goto, PageInv, Types, ThreadTypes
  <2> QED BY <2>1, <2>2, <2>3, <2>4
          DEF ScanLeg, FoldLeg, EndText, AskRaster, TakeRaster, EndRaster
<1>4. CASE op' = [op EXCEPT ![w] = NoOps]
  <2>1. op'[w] = NoOps /\ \A t \in Threads \ {w} : op'[t] = op[t]
    BY <1>2, <1>4, AllWritten DEF PageInv
  <2>2. \A l \in Legs : ~op'[w][l].bytes BY <2>1 DEF NoOps, Idle
  <2> QED BY <1>1, <1>3, <2>1, <2>2, TurnSends
<1>5. CASE UNCHANGED op
  BY <1>1, <1>3, <1>5, TurnSends
<1>6. CASE at[w] \in Legs /\ \E o \in {Start(0), Idle} : op' = [op EXCEPT ![w][at[w]] = o]
  <2>1. PICK o \in {Start(0), Idle} : op' = [op EXCEPT ![w][at[w]] = o] BY <1>6
  <2>2. handshake => ~o.bytes BY HashOnly
  <2>3. /\ op'[w][at[w]] = o
        /\ \A t \in Threads, l \in Legs : t # w \/ l # at[w] => op'[t][l] = op[t][l]
    <3>1. op \in [Threads -> [Legs -> OpType]] BY DEF PageInv, Types, ThreadTypes
    <3> QED BY <1>2, <1>6, <2>1, <3>1
  <2>4. \A t \in Threads \ {w} : op'[t] = op[t]
    BY <2>1 DEF PageInv, Types, ThreadTypes
  <2>5. handshake => \A l \in Legs : op'[w][l].bytes => op[w][l].bytes
    BY <1>2, <2>2, <2>3
  <2> QED BY <1>1, <1>3, <2>4, <2>5, TurnSends
<1>7. BeginPage(w) => UNCHANGED op BY DEF BeginPage
<1>8. ScanLeg(w) => at[w] \in Legs /\ \E o \in {Start(0), Idle} : op' = [op EXCEPT ![w][at[w]] = o]
  BY DEF ScanLeg
<1>9. FoldLeg(w) \/ EndText(w) \/ TakeRaster(w) \/ EndRaster(w) =>
        UNCHANGED op \/ op' = [op EXCEPT ![w] = NoOps]
  BY DEF FoldLeg, EndText, TakeRaster, EndRaster, Leave
<1>10. AskRaster(w) =>
         \/ UNCHANGED op
         \/ at[w] \in Legs /\ \E o \in {Start(0), Idle} : op' = [op EXCEPT ![w][at[w]] = o]
  BY DEF AskRaster
<1> QED BY <1>4, <1>5, <1>6, <1>7, <1>8, <1>9, <1>10

\* cancel(), the client and a stutter send nothing.
LEMMA AsideSends ==
  ASSUME PageInv, Uploads,
         UNCHANGED <<handshake, evictions, cached, uploads, opened, pages_of, pc>>,
         \A t \in Threads, l \in Legs :
           op'[t][l].st = op[t][l].st /\ op'[t][l].bytes = op[t][l].bytes
  PROVE  Uploads'
<1> SUFFICES ASSUME handshake, evictions = 0, NEW l \in Legs PROVE Sent(l)'
  BY DEF Uploads
<1>1. Sent(l) BY DEF Uploads
<1> QED BY <1>1, Bounds DEF Sent, Running

\* No step sends a backend the document a second time.
LEMMA NextSends == PageInv /\ Uploads /\ [Next]_vars => Uploads'
<1> SUFFICES ASSUME PageInv, Uploads, [Next]_vars PROVE Uploads' OBVIOUS
<1>1. ASSUME NEW t \in Threads, NEW l \in Legs, Call(t, l) PROVE Uploads'
  BY <1>1, RegisterSends, FailSends, BytesSends DEF Call
<1>2. CASE OpenerStep
  BY <1>1, <1>2, BeginOpenSends, FinishOpenSends, ProbeSends, Bounds DEF OpenerStep
<1>3. ASSUME NEW w \in Workers, WorkerStep(w) PROVE Uploads'
  BY <1>1, <1>3, WorkerSends, PageSends, Bounds DEF WorkerStep
<1>4. CASE \E l \in Legs : Evict(l)
  <2>1. evictions' # 0 BY <1>4, Bounds DEF Evict, PageInv, Types, BackendTypes
  <2> QED BY <2>1 DEF Uploads
<1>5. CASE ClientCancels
  BY <1>5, AsideSends DEF ClientCancels, backend, document, consensus, breaker
<1>6. CASE CancelLeg
  <2>1. UNCHANGED <<handshake, evictions, cached, uploads, opened, pages_of, pc>>
    BY <1>6 DEF CancelLeg, backend, consensus
  <2> QED BY <1>6, <2>1, CancelLegOps, AsideSends
<1>7. CASE Terminated \/ UNCHANGED vars
  BY <1>7, AsideSends DEF Terminated, vars
<1> QED BY <1>2, <1>3, <1>4, <1>5, <1>6, <1>7 DEF Next

\* A backend that forgets nothing is sent the document at most once, for every
\* number of legs, passwords, faults and workers (the handshake of
\* remote_page_source.cpp: a hash-only call, and one retry with the bytes).
THEOREM UploadedAlwaysOnce == Spec => []UploadedOnce
<1>1. Init => Uploads
  <2> SUFFICES ASSUME Init, NEW l \in Legs PROVE Sent(l)
    BY DEF Uploads
  <2>1. \A t \in Threads : op[t][l] = Idle BY DEF Init, NoOps
  <2> QED BY <2>1, Bounds DEF Init, Sent, Running, Idle
<1>2. Uploads => UploadedOnce BY DEF Uploads, Sent, UploadedOnce
<1> QED BY <1>1, <1>2, NextSends, PageInvariant, PTL DEF Spec
=============================================================================
