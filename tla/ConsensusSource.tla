-------------------------- MODULE ConsensusSource --------------------------
(***************************************************************************)
(* The source of a PDF's pages: ConsensusPdfPageSource over one            *)
(* RemotePdfPageSource per backend of GRPARSE_PDF_BACKEND, as the page     *)
(* scheduler drives it.  An opener thread sizes the document, render       *)
(* workers read pages, and any thread may cancel.                          *)
(*                                                                         *)
(* A leg's operation (Probe, Parse, Render) is a loop of backend calls     *)
(* with two places another thread can come between: before a Call is       *)
(* registered and while its answer is awaited.  What a page holds, and who *)
(* wins the vote on its words, is left out; which legs answer, how they    *)
(* fail, and what the page's failure is then called, is kept.              *)
(***************************************************************************)
EXTENDS Integers, FiniteSets

CONSTANTS
  LegPages,          \* the page count each backend reports, in target order
  Workers,           \* the scheduler's render workers
  Candidates,        \* how many passwords the request offers
  BreakerFailures,   \* kCircuitBreakerFailures
  FaultKinds,        \* how a backend call may fail
  MaxFaults,         \* failed backend calls (bound of the model)
  MaxEvictions,      \* documents a backend's cache forgets (bound of the model)
  MayCancel          \* whether the client may cancel

Legs == DOMAIN LegPages
NumLegs == Cardinality(Legs)
Opener == "opener"
Threads == Workers \cup {Opener}

ASSUME ConsensusAssumption ==
  /\ NumLegs \in Nat \ {0} /\ Legs = 1..NumLegs
  /\ \A l \in Legs : LegPages[l] \in Nat \ {0}
  /\ Opener \notin Workers
  /\ Candidates \in Nat /\ BreakerFailures \in Nat \ {0}
  /\ FaultKinds \subseteq {"unavailable", "deadline", "exhausted", "invalid"}
  /\ MaxFaults \in Nat /\ MaxEvictions \in Nat
  /\ MayCancel \in BOOLEAN

\* PdfBackendFailure, and InvalidDocument for everything else.
Outages == {"unavailable", "deadline", "exhausted"}
Failures == Outages \cup {"cancelled", "invalid"}
Answers == {"opened", "text", "blank", "raster"}

VARIABLES
  \* the backends
  handshake,          \* GRPARSE_PDF_BACKEND_HANDSHAKE is not off
  lock,               \* the candidate that opens the document; 0: none needed
  cached,             \* the backend holds the document under its hash
  evictions, faults,
  \* each RemotePdfPageSource
  leg_cancelled,      \* cancelled_
  password,           \* password_; 0: nullopt
  \* the ConsensusPdfPageSource
  opened,             \* "closed", "open", or the failure open() remembers
  pages_of,           \* Entry::pages of the legs in sources_, 0 for the others
  consecutive, disabled,
  \* the threads
  pc, at, page, op,
  \* the document, as the scheduler sees it
  next_page, served,
  failure,            \* the first failure: its kind and its page
  client_cancelled,
  cancelling,         \* the leg cancel() comes to next, 0 before
  \* history
  bad,                \* kinds of failure each backend answered with
  uploads             \* documents sent to each backend, up to 2

vars == <<handshake, lock, cached, evictions, faults, leg_cancelled, password, opened,
          pages_of, consecutive, disabled, pc, at, page, op, next_page, served, failure,
          client_cancelled, cancelling, bad, uploads>>

backend == <<handshake, lock, cached, evictions, faults, bad, uploads>>
document == <<next_page, served, failure>>
request == <<client_cancelled, cancelling, leg_cancelled>>
consensus == <<opened, pages_of, password>>
breaker == <<consecutive, disabled>>

\* An operation of one leg: where it stands, sent_bytes, the password tried,
\* and whether cancel() called TryCancel on its registered context.
Idle == [st |-> "idle", bytes |-> FALSE, try |-> 0, aborted |-> FALSE]
\* Mutant: every candidate's Probe carries the bytes.
StartWithBytes(try) ==
  [st |-> "start", bytes |-> ~handshake \/ try > 0, try |-> try, aborted |-> FALSE]
Start(try) == [st |-> "start", bytes |-> ~handshake, try |-> try, aborted |-> FALSE]
Ended(result) == [st |-> result, bytes |-> FALSE, try |-> 0, aborted |-> FALSE]
NoOps == [l \in Legs |-> Idle]
Running(t, l) == op[t][l].st \in {"start", "call"}

\* pages_: the document is the longest reading.
Pages ==
  CHOOSE n \in {pages_of[l] : l \in Legs} : \A l \in Legs : pages_of[l] <= n

NoFailure == [kind |-> "none", page |-> 0]

\* ConsensusPdfPageSource's constructor makes no backend call; the document is
\* new to every backend.
Init ==
  /\ handshake \in BOOLEAN
  /\ lock \in 0..(Candidates + 1)
  /\ cached = [l \in Legs |-> FALSE]
  /\ evictions = 0 /\ faults = 0
  /\ leg_cancelled = [l \in Legs |-> FALSE]
  /\ password = [l \in Legs |-> 0]
  /\ opened = "closed"
  /\ pages_of = [l \in Legs |-> 0]
  /\ consecutive = [l \in Legs |-> 0]
  /\ disabled = [l \in Legs |-> FALSE]
  /\ pc = [t \in Threads |-> "idle"]
  /\ at = [t \in Threads |-> 1]
  /\ page = [t \in Threads |-> 0]
  /\ op = [t \in Threads |-> NoOps]
  /\ next_page = 1 /\ served = {} /\ failure = NoFailure
  /\ client_cancelled = FALSE /\ cancelling = 0
  /\ bad = [l \in Legs |-> {}]
  /\ uploads = [l \in Legs |-> 0]

----------------------------------------------------------------------------
(* What the legs of one question add up to, and the breaker.               *)

\* LegFailures: one refusal makes it the document's fault; one reason is
\* kept; a mix of transport failures is an outage.
raise(kinds) ==
  IF "cancelled" \in kinds THEN "cancelled"
  ELSE IF "invalid" \in kinds THEN "invalid"
  ELSE IF Cardinality(kinds) = 1 THEN CHOOSE k \in kinds : TRUE
  ELSE "unavailable"

record_leg_success(l) ==
  /\ consecutive' = [consecutive EXCEPT ![l] = 0]
  /\ UNCHANGED disabled

\* A disabled leg keeps counting in the code; the count is read no more.
record_leg_failure(l) ==
  /\ consecutive' = [consecutive EXCEPT ![l] = IF @ < BreakerFailures THEN @ + 1 ELSE @]
  /\ disabled' = [disabled EXCEPT ![l] = @ \/ consecutive[l] + 1 >= BreakerFailures]

\* leg_disabled() and the leg's own page count.
Votes(l, p) == p <= pages_of[l] /\ ~disabled[l]

\* Mutant: the last failure is kept.
fail_last(t, kind) ==
  /\ failure' = [kind |-> kind, page |-> page[t]]
  /\ cancelling' = IF cancelling = 0 THEN 1 ELSE cancelling
  /\ UNCHANGED <<next_page, served, client_cancelled, leg_cancelled>>

\* Ticket::State::fail: the first failure is kept, and the source cancelled.
fail(t, kind) ==
  /\ failure' = IF failure = NoFailure THEN [kind |-> kind, page |-> page[t]] ELSE failure
  /\ cancelling' = IF cancelling = 0 THEN 1 ELSE cancelling
  /\ UNCHANGED <<next_page, served, client_cancelled, leg_cancelled>>

\* The worker is done with its page.
Leave(t) ==
  /\ pc' = [pc EXCEPT ![t] = "idle"]
  /\ at' = [at EXCEPT ![t] = 1]
  /\ page' = [page EXCEPT ![t] = 0]
  /\ op' = [op EXCEPT ![t] = NoOps]

Goto(t, label, leg) ==
  /\ pc' = [pc EXCEPT ![t] = label]
  /\ at' = [at EXCEPT ![t] = leg]
  /\ UNCHANGED page

----------------------------------------------------------------------------
(* RemotePdfPageSource: one leg's operation.                               *)

\* Mutant: the call is registered without looking at cancelled_.
RegisterUnchecked(t, l) ==
  /\ pc[t] # "scan" /\ op[t][l].st = "start"
  /\ op' = [op EXCEPT ![t][l].st = "call"]
  /\ uploads' = [uploads EXCEPT ![l] = IF op[t][l].bytes /\ @ < 2 THEN @ + 1 ELSE @]
  /\ UNCHANGED <<handshake, lock, cached, evictions, faults, bad, pc, at, page, document,
                 request, consensus, breaker>>

\* Call's constructor: after cancel() no new call goes out.
RegisterCall(t, l) ==
  /\ pc[t] # "scan" /\ op[t][l].st = "start"
  /\ op' = [op EXCEPT ![t][l] =
              IF leg_cancelled[l] THEN Ended("cancelled") ELSE [@ EXCEPT !.st = "call"]]
  /\ uploads' = [uploads EXCEPT ![l] =
                   IF op[t][l].bytes /\ ~leg_cancelled[l] /\ @ < 2 THEN @ + 1 ELSE @]
  /\ UNCHANGED <<handshake, lock, cached, evictions, faults, bad, pc, at, page, document,
                 request, consensus, breaker>>

\* The call ends with a gRPC error, or a verdict that is a hard error.
\* TryCancel ends it as CANCELLED.
CallFails(t, l) ==
  /\ op[t][l].st = "call"
  /\ \/ /\ op[t][l].aborted
        /\ op' = [op EXCEPT ![t][l] = Ended("cancelled")]
        /\ UNCHANGED <<faults, bad>>
     \/ \E kind \in FaultKinds :
          /\ faults < MaxFaults
          /\ faults' = faults + 1
          /\ bad' = [bad EXCEPT ![l] = @ \cup {kind}]
          /\ op' = [op EXCEPT ![t][l] = Ended(kind)]
  /\ UNCHANGED <<handshake, lock, cached, evictions, uploads, pc, at, page, document, request,
                 consensus, breaker>>

Missed(t, l) == ~op[t][l].bytes /\ ~cached[l]

\* LOAD_STATUS_BYTES_REQUIRED on a hash-only call: one retry with the bytes.
BytesRequired(t, l) ==
  /\ op[t][l].st = "call" /\ Missed(t, l)
  /\ op' = [op EXCEPT ![t][l] = [@ EXCEPT !.st = "start", !.bytes = TRUE, !.aborted = FALSE]]
  /\ UNCHANGED <<backend, pc, at, page, document, request, consensus, breaker>>

\* The backend has the document; bytes that came with the call are cached.
Loaded(t, l) ==
  /\ op[t][l].st = "call" /\ ~Missed(t, l)
  /\ cached' = [cached EXCEPT ![l] = @ \/ (handshake /\ op[t][l].bytes)]
  /\ UNCHANGED <<handshake, lock, evictions, faults, bad, uploads, pc, at, page, document,
                 request, breaker>>

Opens(candidate) == lock = 0 \/ candidate = lock

\* probe(): without a password, then with each candidate until one opens it.
ProbeAnswered(l) ==
  LET try == op[Opener][l].try IN
  /\ Loaded(Opener, l)
  /\ \/ /\ Opens(try)
        /\ op' = [op EXCEPT ![Opener][l] = Ended("opened")]
        /\ password' = [password EXCEPT ![l] = try]
     \/ /\ ~Opens(try)
        /\ op' = [op EXCEPT ![Opener][l] =
                    IF try < Candidates THEN Start(try + 1) ELSE Ended("invalid")]
        /\ UNCHANGED password
  /\ UNCHANGED <<opened, pages_of>>

\* extract_digital_page of a leg: any load verdict but the two handshake ones
\* leaves the page without text.
ParseAnswered(w, l) ==
  /\ pc[w] = "text"
  /\ Loaded(w, l)
  /\ \E result \in IF Opens(password[l]) THEN {"text", "blank"} ELSE {"blank"} :
       op' = [op EXCEPT ![w][l] = Ended(result)]
  /\ UNCHANGED consensus

\* render_page of a leg: a verdict other than OK fails the page.
RenderAnswered(w, l) ==
  /\ pc[w] = "raster"
  /\ Loaded(w, l)
  /\ op' = [op EXCEPT ![w][l] = Ended(IF Opens(password[l]) THEN "raster" ELSE "invalid")]
  /\ UNCHANGED consensus

\* The backend's cache drops the document.
Evict(l) ==
  /\ cached[l] /\ evictions < MaxEvictions
  /\ cached' = [cached EXCEPT ![l] = FALSE]
  /\ evictions' = evictions + 1
  /\ UNCHANGED <<handshake, lock, faults, bad, uploads, pc, at, page, op, document, request,
                 consensus, breaker>>

----------------------------------------------------------------------------
(* ConsensusPdfPageSource.                                                 *)

\* The opener's page_count(): open() probes every leg at once.
BeginOpen ==
  /\ pc[Opener] = "idle" /\ opened = "closed"
  /\ Goto(Opener, "opening", 1)
  /\ op' = [op EXCEPT ![Opener] = [l \in Legs |-> Start(0)]]
  /\ UNCHANGED <<backend, document, request, consensus, breaker>>

Results(t) == {op[t][l].st : l \in Legs}

\* Once every probe ended: the legs that loaded are the sources; a cancel
\* fails the open at once, and no leg at all fails it as the legs add up.
FinishOpen ==
  /\ pc[Opener] = "opening"
  /\ \A l \in Legs : ~Running(Opener, l)
  /\ IF "cancelled" \in Results(Opener) \/ "opened" \notin Results(Opener)
       THEN LET kind == raise(Results(Opener) \cap Failures) IN
            /\ opened' = kind
            /\ fail(Opener, kind)
            /\ UNCHANGED pages_of
       ELSE /\ opened' = "open"
            /\ pages_of' = [l \in Legs |->
                              IF op[Opener][l].st = "opened" THEN LegPages[l] ELSE 0]
            /\ UNCHANGED <<document, request>>
  /\ Leave(Opener)
  /\ UNCHANGED <<backend, password, breaker>>

\* A render worker takes the next page; forced recognition reads no text.
BeginPage(w) ==
  /\ pc[w] = "idle" /\ opened = "open"
  /\ cancelling = 0 /\ ~client_cancelled
  /\ next_page <= Pages
  /\ next_page' = next_page + 1
  /\ page' = [page EXCEPT ![w] = next_page]
  /\ at' = [at EXCEPT ![w] = 1]
  /\ \E mode \in {"scan", "raster"} : pc' = [pc EXCEPT ![w] = mode]
  /\ UNCHANGED <<backend, op, served, failure, request, consensus, breaker>>

\* extract_digital_page collects the active legs one by one.
ScanLeg(w) ==
  /\ pc[w] = "scan" /\ at[w] \in Legs
  /\ op' = [op EXCEPT ![w][at[w]] = IF Votes(at[w], page[w]) THEN Start(0) ELSE Idle]
  /\ IF at[w] = NumLegs THEN Goto(w, "text", 1) ELSE Goto(w, "scan", at[w] + 1)
  /\ UNCHANGED <<backend, document, request, consensus, breaker>>

\* The scan is over and the legs' threads are joined; then the outcomes are
\* folded in target order.  A cancel fails the page at once.
FoldLeg(w) ==
  LET l == at[w] IN
  /\ pc[w] = "text" /\ l \in Legs
  /\ \A k \in Legs : ~Running(w, k)
  /\ \/ /\ op[w][l].st = "cancelled"
        /\ fail(w, "cancelled") /\ Leave(w) /\ UNCHANGED breaker
     \/ /\ op[w][l].st # "cancelled"
        /\ CASE op[w][l].st = "idle" -> UNCHANGED breaker
             [] op[w][l].st \in Answers -> record_leg_success(l)
             [] OTHER -> record_leg_failure(l)
        /\ Goto(w, "text", l + 1)
        /\ UNCHANGED <<op, document, request>>
  /\ UNCHANGED <<backend, consensus>>

\* Mutant: one failed leg fails the page.
EndTextAtFirst(w) ==
  /\ pc[w] = "text" /\ at[w] > NumLegs
  /\ LET failed == Results(w) \cap Failures IN
     \/ failed # {} /\ fail(w, raise(failed)) /\ Leave(w)
     \/ /\ failed = {}
        /\ Goto(w, "raster", 1)
        /\ op' = [op EXCEPT ![w] = NoOps]
        /\ UNCHANGED <<document, request>>
  /\ UNCHANGED <<backend, consensus, breaker>>

\* Every leg that was asked failed: the page fails.  A page with text may be
\* settled by it; any other is rendered.
EndText(w) ==
  /\ pc[w] = "text" /\ at[w] > NumLegs
  /\ LET failed == Results(w) \cap Failures IN
     \/ /\ Results(w) \cap Answers = {} /\ failed # {}
        /\ fail(w, raise(failed)) /\ Leave(w)
     \/ /\ "text" \in Results(w)
        /\ served' = served \cup {page[w]}
        /\ Leave(w)
        /\ UNCHANGED <<next_page, failure, request>>
     \/ /\ Results(w) \cap Answers # {} \/ failed = {}
        /\ Goto(w, "raster", 1)
        /\ op' = [op EXCEPT ![w] = NoOps]
        /\ UNCHANGED <<document, request>>
  /\ UNCHANGED <<backend, consensus, breaker>>

\* render_page asks the legs in target order until one renders.
AskRaster(w) ==
  /\ pc[w] = "raster" /\ at[w] \in Legs
  /\ op[w][at[w]].st = "idle"
  /\ IF Votes(at[w], page[w])
       THEN op' = [op EXCEPT ![w][at[w]] = Start(0)] /\ UNCHANGED <<pc, at, page>>
       ELSE Goto(w, "raster", at[w] + 1) /\ UNCHANGED op
  /\ UNCHANGED <<backend, document, request, consensus, breaker>>

TakeRaster(w) ==
  LET l == at[w] IN
  /\ pc[w] = "raster" /\ l \in Legs
  /\ op[w][l].st # "idle" /\ ~Running(w, l)
  /\ \/ /\ op[w][l].st = "raster"
        /\ record_leg_success(l)
        /\ served' = served \cup {page[w]}
        /\ Leave(w)
        /\ UNCHANGED <<next_page, failure, request>>
     \/ /\ op[w][l].st = "cancelled"
        /\ fail(w, "cancelled") /\ Leave(w) /\ UNCHANGED breaker
     \/ /\ op[w][l].st \in Failures \ {"cancelled"}
        /\ record_leg_failure(l)
        /\ Goto(w, "raster", l + 1)
        /\ UNCHANGED <<op, document, request>>
  /\ UNCHANGED <<backend, consensus>>

\* No leg rendered: as the failures add up, or "no backend rendered the page".
EndRaster(w) ==
  /\ pc[w] = "raster" /\ at[w] > NumLegs
  /\ LET failed == Results(w) \cap Failures IN
       fail(w, IF failed = {} THEN "invalid" ELSE raise(failed))
  /\ Leave(w)
  /\ UNCHANGED <<backend, consensus, breaker>>

----------------------------------------------------------------------------
(* cancel().                                                               *)

\* The client cancels, or its deadline passes.
ClientCancels ==
  /\ MayCancel /\ ~client_cancelled
  /\ client_cancelled' = TRUE
  /\ cancelling' = IF cancelling = 0 THEN 1 ELSE cancelling
  /\ UNCHANGED <<backend, leg_cancelled, pc, at, page, op, document, consensus, breaker>>

\* ConsensusPdfPageSource::cancel() goes from leg to leg; each leg takes its
\* calls_mutex_ and aborts the calls registered with it.
CancelLeg ==
  /\ cancelling \in Legs
  /\ leg_cancelled' = [leg_cancelled EXCEPT ![cancelling] = TRUE]
  /\ op' = [t \in Threads |-> [op[t] EXCEPT ![cancelling].aborted =
              @ \/ op[t][cancelling].st = "call"]]
  /\ cancelling' = cancelling + 1
  /\ UNCHANGED <<backend, pc, at, page, client_cancelled, document, consensus, breaker>>

Settled ==
  /\ \A t \in Threads : pc[t] = "idle"
  /\ \/ failure # NoFailure
     \/ client_cancelled
     \/ opened = "open" /\ served = 1..Pages

\* The document is over and nothing of it runs: the only place to stop.
Terminated == Settled /\ cancelling \notin Legs /\ UNCHANGED vars

\* What a leg's operation may do next.
Call(t, l) == RegisterCall(t, l) \/ CallFails(t, l) \/ BytesRequired(t, l)

OpenerStep ==
  \/ BeginOpen \/ FinishOpen
  \/ \E l \in Legs : Call(Opener, l) \/ ProbeAnswered(l)

WorkerStep(w) ==
  \/ BeginPage(w) \/ ScanLeg(w) \/ FoldLeg(w) \/ EndText(w)
  \/ AskRaster(w) \/ TakeRaster(w) \/ EndRaster(w)
  \/ \E l \in Legs : Call(w, l) \/ ParseAnswered(w, l) \/ RenderAnswered(w, l)

Next ==
  \/ OpenerStep
  \/ \E w \in Workers : WorkerStep(w)
  \/ \E l \in Legs : Evict(l)
  \/ ClientCancels \/ CancelLeg
  \/ Terminated

Spec == Init /\ [][Next]_vars

----------------------------------------------------------------------------
OpType ==
  [st : {"idle", "start", "call"} \cup Answers \cup Failures,
   bytes : BOOLEAN, try : 0..Candidates, aborted : BOOLEAN]

TypeOK ==
  /\ handshake \in BOOLEAN /\ lock \in 0..(Candidates + 1)
  /\ cached \in [Legs -> BOOLEAN]
  /\ evictions \in 0..MaxEvictions /\ faults \in 0..MaxFaults
  /\ leg_cancelled \in [Legs -> BOOLEAN]
  /\ password \in [Legs -> 0..Candidates]
  /\ opened \in {"closed", "open"} \cup Failures
  /\ pages_of \in [Legs -> Nat]
  /\ consecutive \in [Legs -> 0..BreakerFailures]
  /\ disabled \in [Legs -> BOOLEAN]
  /\ pc \in [Threads -> {"idle", "opening", "scan", "text", "raster"}]
  /\ at \in [Threads -> 1..(NumLegs + 1)]
  /\ page \in [Threads -> Nat]
  /\ op \in [Threads -> [Legs -> OpType]]
  /\ next_page \in Nat /\ served \subseteq Nat
  /\ failure \in [kind : Failures \cup {"none"}, page : Nat]
  /\ client_cancelled \in BOOLEAN
  /\ cancelling \in 0..(NumLegs + 1)
  /\ bad \in [Legs -> SUBSET Failures]
  /\ uploads \in [Legs -> 0..2]

\* "cancelling the request, or a page failing the document, aborts the page
\* calls in flight and fails later ones without dialing": once cancel() has
\* passed a leg, each of its registered calls has been aborted, whichever
\* thread registered it and however its Call raced the cancel.
CancelStopsCalls ==
  \A t \in Threads, l \in Legs :
    cancelling > l /\ op[t][l].st = "call" => op[t][l].aborted

\* One backend that never failed carries every page it has: the document
\* fails, unasked, only on a page that every healthy backend lacks.  No
\* mixture of retries, passwords, other legs' failures, the breaker and
\* workers overtaking each other makes a good leg lose its page.
HealthyLegCarriesPage ==
  failure # NoFailure /\ ~client_cancelled /\ lock <= Candidates =>
    \A l \in Legs : bad[l] # {} \/ failure.page > LegPages[l]

\* A document reported as cancelled was cancelled by its client: the cancel
\* that follows a page's failure reaches the pages beside it, and none of
\* them hides the failure that started it.
FirstCauseKept == failure.kind = "cancelled" => client_cancelled

\* "uploading the bytes exactly once per backend when a cache miss verdict
\* asks for them": a backend that forgets nothing is sent the document at
\* most once, whatever passwords are tried and however many workers ask.
UploadedOnce == handshake /\ evictions = 0 => \A l \in Legs : uploads[l] <= 1
=============================================================================
