------------------------------ MODULE ParseCall ------------------------------
(***************************************************************************)
(* The unary and streamed conversion calls of document_parser_service.cpp  *)
(* and what they share: the executor's bounded queue and its workers, the  *)
(* in-flight byte budget, the remote fetch slots, the pool of recognition  *)
(* engines and the embedding engine's mutex.  A call is admitted on the    *)
(* thread that reacted to it and then run by a worker through parse_source *)
(* (source_parse.cpp): fetch, decode, collector legs, merge, passes, and   *)
(* the surface's own shaping.                                              *)
(*                                                                         *)
(* An action is one atomic operation, one section under a lock, or a run   *)
(* of code that touches only its own call.  Documents are the sequence of  *)
(* readings merged into them; options, formats and texts are choices.      *)
(***************************************************************************)
EXTENDS Integers, Sequences, FiniteSets, FiniteSetsExt, SequencesExt

CONSTANTS
  Calls, NoCall,
  Workers,          \* the executor's threads
  Requests,         \* what a call may ask: records of RequestType
  Configured,       \* the collectors that have an endpoint
  QueueCapacity, FetchLimit, PoolSize,
  BudgetLimit,      \* GRPARSE_MAX_INFLIGHT_BYTES, in units
  RequestBytes,     \* charged on admission
  FetchedBytes,     \* charged after a fetch
  Messages,         \* the messages a streamed call writes
  MayStop,          \* whether the executor may be destroyed
  MayFail           \* the outcomes that may go wrong: subset of Faults

\* What may go wrong, by the part that answers it.
Faults == {"options", "fetch", "decode", "collector", "recognition", "factory",
           "structure", "shape", "delivery", "embedding", "write"}
Collectors == {"cv", "pdf", "libreoffice", "calamine", "xml", "vlm"}
Inputs == {"pdf", "raster", "workbook", "xml"}
\* selected: the collectors the options name, none for the routed default.
RequestType == [surface : {"convert", "chunk", "stream"}, remote : BOOLEAN,
                input : Inputs, selected : Seq(Collectors \ {"vlm"}),
                pipeline : {"STANDARD", "NATIVE", "VLM"}]

ASSUME ParseAssumption ==
  /\ IsFiniteSet(Calls) /\ NoCall \notin Calls /\ "exited" \notin Calls \cup {NoCall}
  /\ Calls \cap Workers = {}
  /\ QueueCapacity \in Nat \ {0} /\ FetchLimit \in Nat \ {0} /\ PoolSize \in Nat \ {0}
  /\ BudgetLimit \in Nat /\ RequestBytes \in Nat /\ FetchedBytes \in Nat
  /\ Messages \in Nat \ {0}
  /\ \A r \in Requests : r \in RequestType
  /\ Configured \subseteq Collectors
  /\ MayFail \subseteq Faults /\ MayStop \in BOOLEAN

VARIABLES
  \* shared by the calls
  used,               \* InflightBytes::used_
  tasks, stopping,    \* CallExecutor: the queue, and whether it shuts down
  sleeping, running,  \* workers in work_.wait, and the call each one runs
  in_use,             \* RemoteFetchSlots
  free_slots, built,  \* ResourcePool: the free stack, the slots holding an engine
  engine,             \* who holds the embedding engine's mutex_
  \* one per call
  request, pc, seen,  \* seen: the value a compare_exchange expects
  cancelled,          \* context->IsCancelled()
  charge, fetched, slot, body,   \* what it holds: bytes, a fetch slot, an uncharged body
  collectors_ran,
  legs, lease,        \* where each leg is; the engine its recognition leases
  cv_rows,            \* the CV collector published its offset rows
  doc, failures,      \* the readings merged, the collectors reported failed
  offsets, overlaid,  \* the offset table was derived; the CV rows label it
  partial, status,    \* the conversion's status, the status to finish with
  recorded,           \* the completions recorded for it
  finished, next      \* Finish calls; the messages written

shared   == <<used, tasks, stopping, sleeping, running, in_use, free_slots, built, engine>>
queue    == <<tasks, stopping, sleeping, running>>
pool     == <<free_slots, built>>
held     == <<charge, fetched, slot, body>>
parse    == <<collectors_ran, legs, lease, cv_rows, doc, failures, offsets, overlaid, partial>>
answer   == <<status, recorded, finished, next>>
vars == <<shared, request, pc, seen, cancelled, held, parse, answer>>

\* One code stands for the codes that are told apart by nothing but their text.
Codes == {"OK", "CANCELLED", "INVALID_ARGUMENT", "FAILED_PRECONDITION",
          "RESOURCE_EXHAUSTED", "UNAVAILABLE", "INTERNAL", "none"}
\* is_rejection_code: the refusals that, before any collector ran, are the request's.
Rejections == {"INVALID_ARGUMENT", "FAILED_PRECONDITION", "RESOURCE_EXHAUSTED"}
LegStates == {"idle", "dialed", "cv", "leased", "recognizing", "ok", "ok_cv"} \cup Codes
NoRequest == [surface |-> "convert", remote |-> FALSE, input |-> "raster",
              selected |-> <<>>, pipeline |-> "STANDARD"]
PCs == {"idle", "admit", "admit_cas", "submit", "queued", "dequeued", "slot", "fetch",
        "charge", "charge_cas", "decode", "legs", "finalize", "shape", "engine",
        "infer", "returned", "writing", "finished", "gone"}

TypeOK ==
  /\ used \in Int /\ in_use \in Int /\ stopping \in BOOLEAN
  /\ tasks \in Seq(Calls) /\ sleeping \subseteq Workers
  /\ running \in [Workers -> Calls \cup {NoCall, "exited"}]
  /\ free_slots \in Seq(1..PoolSize) /\ built \subseteq 1..PoolSize
  /\ engine \in Calls \cup {NoCall}
  /\ request \in [Calls -> Requests \cup {NoRequest}] /\ pc \in [Calls -> PCs]
  /\ seen \in [Calls -> Int] /\ cancelled \in [Calls -> BOOLEAN]
  /\ charge \in [Calls -> {0, RequestBytes}] /\ fetched \in [Calls -> {0, FetchedBytes}]
  /\ slot \in [Calls -> BOOLEAN] /\ body \in [Calls -> BOOLEAN]
  /\ \A c \in Calls : \A i \in DOMAIN legs[c] : legs[c][i] \in LegStates
  /\ lease \in [Calls -> 0..PoolSize]
  /\ collectors_ran \in [Calls -> BOOLEAN] /\ cv_rows \in [Calls -> BOOLEAN]
  /\ offsets \in [Calls -> BOOLEAN] /\ overlaid \in [Calls -> BOOLEAN]
  /\ partial \in [Calls -> BOOLEAN]
  /\ status \in [Calls -> Codes] /\ finished \in [Calls -> Nat] /\ next \in [Calls -> 0..Messages]

Init ==
  /\ used = 0 /\ tasks = <<>> /\ stopping = FALSE /\ sleeping = {}
  /\ running = [w \in Workers |-> NoCall] /\ in_use = 0
  /\ free_slots = [i \in 1..PoolSize |-> PoolSize + 1 - i] /\ built = {} /\ engine = NoCall
  /\ request = [c \in Calls |-> NoRequest] /\ pc = [c \in Calls |-> "idle"]
  /\ seen = [c \in Calls |-> 0] /\ cancelled = [c \in Calls |-> FALSE]
  /\ charge = [c \in Calls |-> 0] /\ fetched = [c \in Calls |-> 0]
  /\ slot = [c \in Calls |-> FALSE] /\ body = [c \in Calls |-> FALSE]
  /\ collectors_ran = [c \in Calls |-> FALSE] /\ legs = [c \in Calls |-> <<>>]
  /\ lease = [c \in Calls |-> 0] /\ cv_rows = [c \in Calls |-> FALSE]
  /\ doc = [c \in Calls |-> <<>>] /\ failures = [c \in Calls |-> {}]
  /\ offsets = [c \in Calls |-> FALSE] /\ overlaid = [c \in Calls |-> FALSE]
  /\ partial = [c \in Calls |-> FALSE]
  /\ status = [c \in Calls |-> "none"] /\ recorded = [c \in Calls |-> <<>>]
  /\ finished = [c \in Calls |-> 0] /\ next = [c \in Calls |-> 0]

Go(c, p) == pc' = [pc EXCEPT ![c] = p]
Streamed(c) == request[c].surface = "stream"
Vlm(c) == request[c].pipeline = "VLM"
Native(c) == request[c].pipeline = "NATIVE"
-----------------------------------------------------------------------------
(* The plan: which collectors read the document *)

\* route_collector, by what the name or the bytes say the input is.
RouteCollector(input) ==
  CASE input = "workbook" -> "libreoffice"
    [] input = "xml" -> "xml"
    [] OTHER -> "cv"
\* route_plan sends a PDF nobody chose a collector for to the inspector.
Routed(r) ==
  IF r.selected = <<>> /\ r.input = "pdf" /\ "pdf" \in Configured THEN "pdf"
  ELSE RouteCollector(r.input)

\* resolve_collectors: the selection, or the routed default.  A plan maps
\* places to collectors: each collector stands at the first place it is named.
FirstPlaces(ids) == {i \in DOMAIN ids : \A j \in DOMAIN ids : j < i => ids[j] # ids[i]}
ResolveCollectors(requested, routed) ==
  IF requested = <<>> THEN <<routed>> ELSE [i \in FirstPlaces(requested) |-> requested[i]]

\* append_office_fanout: calamine reads a routed workbook beside libreoffice.
Fanout(r) == r.selected = <<>> /\ Configured # {}
AppendOfficeFanout(r, ids) ==
  IF Fanout(r) /\ r.input = "workbook" /\ "calamine" \in Configured \ Range(ids)
  THEN Append(ids, "calamine") ELSE ids

PlanIds(r) ==
  IF r.pipeline = "VLM" THEN <<"vlm">>
  ELSE AppendOfficeFanout(r, ResolveCollectors(r.selected, Routed(r)))
Plan(c) == PlanIds(request[c])
\* Classification routing, when the pdf collector is the whole plan.
PdfRouting(c) ==
  request[c].input = "pdf" /\ Range(Plan(c)) = {"pdf"} /\ "pdf" \in Configured
-----------------------------------------------------------------------------
(* Admission, on the thread that reacted to the call. *)

Record(c, class) == recorded' = [recorded EXCEPT ![c] = Append(@, class)]
\* Finish(status); nothing follows it in the code that calls it.
Finish(c, code) ==
  /\ finished' = [finished EXCEPT ![c] = @ + 1]
  /\ status' = [status EXCEPT ![c] = code]

\* ConvertSource, Chunk*Source or StreamChunks is called.
Call(c, r) ==
  /\ pc[c] = "idle" /\ request' = [request EXCEPT ![c] = r] /\ Go(c, "admit")
  /\ UNCHANGED <<shared, seen, cancelled, held, parse, answer>>

\* StreamChunks without a chunker is answered before anything is charged.
CallRefused(c, r) ==
  /\ pc[c] = "idle" /\ r.surface = "stream" /\ "options" \in MayFail
  /\ request' = [request EXCEPT ![c] = r]
  /\ Record(c, "rejected") /\ Finish(c, "INVALID_ARGUMENT") /\ Go(c, "finished")
  /\ UNCHANGED <<shared, seen, cancelled, held, parse, next>>

\* InflightBytes::try_acquire: used_.load
AdmitLoad(c) ==
  /\ pc[c] = "admit" /\ seen' = [seen EXCEPT ![c] = used] /\ Go(c, "admit_cas")
  /\ UNCHANGED <<shared, request, cancelled, held, parse, answer>>

Fits(c, bytes) == bytes <= BudgetLimit /\ seen[c] <= BudgetLimit - bytes

\* Mutant: a plain store of the sum.
StoreSum(c, bytes) == used' = seen[c] + bytes /\ UNCHANGED seen

\* compare_exchange stores the sum when used_ still is what was read, and
\* otherwise reads it again.
CompareExchange(c, bytes) ==
  IF used = seen[c] THEN used' = used + bytes /\ UNCHANGED seen
  ELSE UNCHANGED used /\ seen' = [seen EXCEPT ![c] = used]

AdmitCas(c) ==
  /\ pc[c] = "admit_cas"
  /\ \/ /\ ~Fits(c, RequestBytes)
        /\ Record(c, "rejected") /\ Finish(c, "RESOURCE_EXHAUSTED") /\ Go(c, "finished")
        /\ UNCHANGED <<shared, seen, held, next>>
     \/ /\ Fits(c, RequestBytes) /\ CompareExchange(c, RequestBytes)
        /\ IF used = seen[c]
           THEN charge' = [charge EXCEPT ![c] = RequestBytes] /\ Go(c, "submit")
           ELSE UNCHANGED <<charge, pc>>
        /\ UNCHANGED <<queue, in_use, pool, engine, fetched, slot, body, answer>>
  /\ UNCHANGED <<request, cancelled, parse>>

\* A unary task owns the request's charge; a streamed call's reactor does,
\* until OnDone.
TakenBack(c) == IF Streamed(c) THEN 0 ELSE charge[c]

\* Mutant: nobody is told that a task was queued.
SubmitSilent(c) ==
  /\ pc[c] = "submit"
  /\ IF stopping \/ Len(tasks) >= QueueCapacity
     THEN /\ used' = used - TakenBack(c)
          /\ charge' = [charge EXCEPT ![c] = @ - TakenBack(c)]
          /\ Record(c, "rejected") /\ Finish(c, "RESOURCE_EXHAUSTED") /\ Go(c, "finished")
          /\ UNCHANGED <<queue, next>>
     ELSE /\ tasks' = Append(tasks, c) /\ Go(c, "queued")
          /\ UNCHANGED <<used, stopping, sleeping, running, charge, answer>>
  /\ UNCHANGED <<in_use, pool, engine, request, seen, cancelled, fetched, slot, body, parse>>

\* CallExecutor::submit.  work_.notify_one wakes one sleeping worker, if any.
Submit(c) ==
  /\ pc[c] = "submit"
  /\ IF stopping \/ Len(tasks) >= QueueCapacity
     THEN /\ used' = used - TakenBack(c)
          /\ charge' = [charge EXCEPT ![c] = @ - TakenBack(c)]
          /\ Record(c, "rejected") /\ Finish(c, "RESOURCE_EXHAUSTED") /\ Go(c, "finished")
          /\ UNCHANGED <<queue, next>>
     ELSE /\ tasks' = Append(tasks, c) /\ Go(c, "queued")
          /\ IF sleeping = {} THEN UNCHANGED sleeping
             ELSE \E w \in sleeping : sleeping' = sleeping \ {w}
          /\ UNCHANGED <<used, stopping, running, charge, answer>>
  /\ UNCHANGED <<in_use, pool, engine, request, seen, cancelled, fetched, slot, body, parse>>

\* The client cancels, or the call's deadline passes.
Cancel(c) ==
  /\ pc[c] \notin {"idle", "finished", "gone"} /\ ~cancelled[c]
  /\ cancelled' = [cancelled EXCEPT ![c] = TRUE]
  /\ UNCHANGED <<shared, request, pc, seen, held, parse, answer>>
-----------------------------------------------------------------------------
(* CallExecutor *)

\* ~CallExecutor raises stopping_ and wakes every worker.
Stop ==
  /\ MayStop /\ ~stopping /\ stopping' = TRUE /\ sleeping' = {}
  /\ UNCHANGED <<used, tasks, running, in_use, pool, engine, request, pc, seen,
                 cancelled, held, parse, answer>>

Free(w) == running[w] = NoCall /\ w \notin sleeping

\* Mutant: a worker that ends as soon as the executor stops.
WorkerWaitHurried(w) ==
  /\ Free(w) /\ (tasks = <<>> \/ stopping)
  /\ IF stopping THEN running' = [running EXCEPT ![w] = "exited"] /\ UNCHANGED sleeping
     ELSE sleeping' = sleeping \cup {w} /\ UNCHANGED running
  /\ UNCHANGED <<used, tasks, stopping, in_use, pool, engine, request, pc, seen,
                 cancelled, held, parse, answer>>

\* run(): with nothing queued a worker waits, or ends once stopping.
WorkerWait(w) ==
  /\ Free(w) /\ tasks = <<>>
  /\ IF stopping THEN running' = [running EXCEPT ![w] = "exited"] /\ UNCHANGED sleeping
     ELSE sleeping' = sleeping \cup {w} /\ UNCHANGED running
  /\ UNCHANGED <<used, tasks, stopping, in_use, pool, engine, request, pc, seen,
                 cancelled, held, parse, answer>>

WorkerTake(w) ==
  /\ Free(w) /\ tasks # <<>>
  /\ running' = [running EXCEPT ![w] = Head(tasks)] /\ tasks' = Tail(tasks)
  /\ Go(Head(tasks), "dequeued")
  /\ UNCHANGED <<used, stopping, sleeping, in_use, pool, engine, request, seen,
                 cancelled, held, parse, answer>>

\* The task is over: its charge goes back with it and the worker is free.
WorkerDone(w) ==
  LET c == running[w] IN
  /\ c \in Calls /\ pc[c] \in {"writing", "finished", "gone"}
  /\ running' = [running EXCEPT ![w] = NoCall]
  /\ used' = used - TakenBack(c) /\ charge' = [charge EXCEPT ![c] = @ - TakenBack(c)]
  /\ UNCHANGED <<tasks, stopping, sleeping, in_use, pool, engine, request, pc, seen,
                 cancelled, fetched, slot, body, parse, answer>>
-----------------------------------------------------------------------------
(* The task and parse_source up to the bytes *)

\* work() returns `code`: what the parse held is dropped, except that a
\* streamed success hands the fetched charge to the reactor.
Return(c, code) ==
  /\ status' = [status EXCEPT ![c] = code] /\ Go(c, "returned")
  /\ UNCHANGED <<recorded, finished, next>>

\* Target, options, presets, passwords, source policy, chunking and embedding
\* options are refused before any byte is fetched.
OptionsRefused(c) == "options" \in MayFail /\ Return(c, "INVALID_ARGUMENT")

\* The task's first question: is anyone still listening?
Dequeued(c) ==
  /\ pc[c] = "dequeued"
  /\ IF cancelled[c]
     THEN Record(c, "failure") /\ Finish(c, "CANCELLED") /\ Go(c, "finished") /\ UNCHANGED next
     ELSE \/ /\ Go(c, IF request[c].remote THEN "slot" ELSE "decode") /\ UNCHANGED answer
          \/ OptionsRefused(c)
  /\ UNCHANGED <<shared, request, seen, cancelled, held, parse>>

\* RemoteFetchSlots::acquire: a free slot, or giving up once the call is gone.
AcquireSlot(c) ==
  /\ pc[c] = "slot"
  /\ \/ /\ in_use < FetchLimit /\ in_use' = in_use + 1
        /\ slot' = [slot EXCEPT ![c] = TRUE] /\ Go(c, "fetch") /\ UNCHANGED answer
     \/ /\ in_use = FetchLimit /\ cancelled[c] /\ Return(c, "CANCELLED")
        /\ UNCHANGED <<in_use, slot>>
  /\ UNCHANGED <<used, queue, pool, engine, request, seen, cancelled, charge, fetched, body,
                 parse>>

ReleaseSlot(c) ==
  /\ in_use' = in_use - 1 /\ slot' = [slot EXCEPT ![c] = FALSE]
  /\ body' = [body EXCEPT ![c] = FALSE]

\* storage::resolve_source downloads the document the source names.
Fetch(c) ==
  /\ pc[c] = "fetch"
  /\ \/ /\ body' = [body EXCEPT ![c] = TRUE] /\ Go(c, "charge")
        /\ UNCHANGED <<in_use, slot, answer>>
     \/ /\ "fetch" \in MayFail /\ ReleaseSlot(c)
        /\ \E code \in {"INVALID_ARGUMENT", "UNAVAILABLE"} : Return(c, code)
  /\ UNCHANGED <<used, queue, pool, engine, request, seen, cancelled, charge, fetched, parse>>

ChargeLoad(c) ==
  /\ pc[c] = "charge" /\ seen' = [seen EXCEPT ![c] = used] /\ Go(c, "charge_cas")
  /\ UNCHANGED <<shared, request, cancelled, held, parse, answer>>

\* InflightCharge::acquire of the fetched copy, while the slot is still held.
ChargeCas(c) ==
  /\ pc[c] = "charge_cas"
  /\ \/ /\ ~Fits(c, FetchedBytes) /\ ReleaseSlot(c) /\ Return(c, "RESOURCE_EXHAUSTED")
        /\ UNCHANGED <<used, seen, fetched>>
     \/ /\ Fits(c, FetchedBytes) /\ CompareExchange(c, FetchedBytes)
        /\ IF used = seen[c]
           THEN /\ fetched' = [fetched EXCEPT ![c] = FetchedBytes]
                /\ ReleaseSlot(c) /\ Go(c, "decode")
           ELSE UNCHANGED <<fetched, in_use, slot, body, pc>>
        /\ UNCHANGED answer
  /\ UNCHANGED <<queue, pool, engine, request, cancelled, charge, parse>>

\* NATIVE is model-free: a plan with the CV models in it is refused.  VLM needs
\* its endpoint.
Unserved(c) == \/ Native(c) /\ "cv" \in Range(Plan(c))
               \/ Vlm(c) /\ "vlm" \notin Configured

\* Decoding, encryption, from_formats and the pipeline's preconditions; then
\* every leg of the plan is launched on a thread of its own.
Decode(c) ==
  /\ pc[c] = "decode"
  /\ \/ /\ ~Unserved(c)
        /\ collectors_ran' = [collectors_ran EXCEPT ![c] = TRUE] /\ Go(c, "legs")
        /\ legs' = [legs EXCEPT ![c] = [i \in DOMAIN Plan(c) |-> "idle"]]
        /\ UNCHANGED answer
     \/ /\ Unserved(c) /\ Return(c, "FAILED_PRECONDITION")
        /\ UNCHANGED <<collectors_ran, legs>>
     \/ /\ "decode" \in MayFail
        /\ Return(c, "INVALID_ARGUMENT") /\ UNCHANGED <<collectors_ran, legs>>
  /\ UNCHANGED <<shared, request, seen, cancelled, held, lease, cv_rows, doc, failures,
                 offsets, overlaid, partial>>
-----------------------------------------------------------------------------
(* The collector legs *)

SetLeg(c, i, s) == legs' = [legs EXCEPT ![c][i] = s]
LegActive(c, i) == pc[c] = "legs" /\ i \in DOMAIN legs[c]
OnlyLegs == <<used, queue, in_use, engine, request, pc, seen, cancelled, held,
              collectors_ran, doc, failures, offsets, overlaid, partial, answer>>

\* A leg asks whether the call is still wanted before it dials; the CV leg
\* submits to the scheduler straight away.
LegStart(c, i) ==
  /\ LegActive(c, i) /\ legs[c][i] = "idle"
  /\ SetLeg(c, i, IF Plan(c)[i] = "cv" THEN "cv"
                  ELSE IF cancelled[c] THEN "CANCELLED"
                  ELSE IF Plan(c)[i] \notin Configured THEN "FAILED_PRECONDITION"
                  ELSE "dialed")
  /\ UNCHANGED <<pool, lease, cv_rows, OnlyLegs>>

\* route_pdf_leg: an inspector that answered is taken at its word, the fast path
\* or recognition; one that failed leaves the document on the CV path.  NATIVE
\* takes the extraction whatever the classification, and fails without it.
RoutePdfLeg(c, i, answered) ==
  IF Native(c) THEN SetLeg(c, i, IF answered THEN "ok" ELSE "FAILED_PRECONDITION")
  ELSE \/ answered /\ SetLeg(c, i, "ok")
       \/ SetLeg(c, i, "cv")

\* A dialed collector answers, fails, or its call is cancelled.
LegAnswer(c, i) ==
  /\ LegActive(c, i) /\ legs[c][i] = "dialed"
  /\ \E answered \in {TRUE} \cup (IF "collector" \in MayFail \/ cancelled[c]
                                THEN {FALSE} ELSE {}) :
       IF PdfRouting(c) THEN RoutePdfLeg(c, i, answered)
       ELSE SetLeg(c, i, IF answered THEN "ok"
                         ELSE IF cancelled[c] THEN "CANCELLED" ELSE "UNAVAILABLE")
  /\ UNCHANGED <<pool, lease, cv_rows, OnlyLegs>>

\* ResourcePool::acquire: a slot off the free stack, waiting while it is empty.
AcquireLease(c, i) ==
  /\ LegActive(c, i) /\ legs[c][i] = "cv" /\ free_slots # <<>>
  /\ lease' = [lease EXCEPT ![c] = Last(free_slots)]
  /\ free_slots' = Front(free_slots) /\ SetLeg(c, i, "leased")
  /\ UNCHANGED <<built, cv_rows, OnlyLegs>>

ReleaseLease(c) ==
  /\ free_slots' = Append(free_slots, lease[c]) /\ lease' = [lease EXCEPT ![c] = 0]

\* The scheduler drops a document that is cancelled or never got an engine.
CvNotRun(c, i) ==
  /\ LegActive(c, i) /\ legs[c][i] = "cv"
  /\ \/ cancelled[c] /\ SetLeg(c, i, "CANCELLED")
     \/ "recognition" \in MayFail /\ SetLeg(c, i, "RESOURCE_EXHAUSTED")
  /\ UNCHANGED <<pool, lease, cv_rows, OnlyLegs>>

\* The slot's engine is built on first use; a factory that throws gives the
\* slot back before the exception fails the document.
BuildEngine(c, i) ==
  /\ LegActive(c, i) /\ legs[c][i] = "leased"
  /\ \/ /\ built' = built \cup {lease[c]} /\ SetLeg(c, i, "recognizing")
        /\ UNCHANGED <<free_slots, lease>>
     \/ /\ lease[c] \notin built /\ "factory" \in MayFail
        /\ ReleaseLease(c) /\ SetLeg(c, i, "INTERNAL") /\ UNCHANGED built
  /\ UNCHANGED <<cv_rows, OnlyLegs>>

\* Mutant: the rows are published although the run failed.
RecognizedEarlyRows(c, i) ==
  /\ LegActive(c, i) /\ legs[c][i] = "recognizing" /\ ReleaseLease(c)
  /\ \/ /\ ~cancelled[c] /\ SetLeg(c, i, "ok_cv") /\ UNCHANGED built
        /\ cv_rows' = [cv_rows EXCEPT ![c] = TRUE]
     \/ cancelled[c] /\ SetLeg(c, i, "CANCELLED") /\ UNCHANGED <<built, cv_rows>>
     \/ /\ "recognition" \in MayFail /\ built' = built \ {lease[c]}
        /\ SetLeg(c, i, IF cancelled[c] THEN "CANCELLED" ELSE "INTERNAL")
        /\ cv_rows' = [cv_rows EXCEPT ![c] = TRUE]
  /\ UNCHANGED OnlyLegs

\* Recognition ends: the lease goes back, or is discarded with its engine after
\* an error.  A cancel seen by the poll outranks whatever the run brought, and a
\* run whose every page arrived publishes its offset rows.
Recognized(c, i) ==
  /\ LegActive(c, i) /\ legs[c][i] = "recognizing" /\ ReleaseLease(c)
  /\ \/ /\ ~cancelled[c] /\ SetLeg(c, i, "ok_cv") /\ UNCHANGED built
        /\ cv_rows' = [cv_rows EXCEPT ![c] = TRUE]
     \/ cancelled[c] /\ SetLeg(c, i, "CANCELLED") /\ UNCHANGED <<built, cv_rows>>
     \/ /\ "recognition" \in MayFail /\ built' = built \ {lease[c]}
        /\ SetLeg(c, i, IF cancelled[c] THEN "CANCELLED" ELSE "INTERNAL")
        /\ UNCHANGED cv_rows
  /\ UNCHANGED OnlyLegs
-----------------------------------------------------------------------------
(* run_collectors and the passes over the merged document *)

LegOk(s) == s \in {"ok", "ok_cv"}
Succeeded(c) == {i \in DOMAIN legs[c] : LegOk(legs[c][i])}

\* Mutant: claims only, whether or not another leg has a body.
ReadingClaims(c, i) ==
  [by |-> Plan(c)[i], cv |-> legs[c][i] = "ok_cv",
   body |-> ~(Fanout(request[c]) /\ Plan(c)[i] = "calamine")]

\* What leg i adds: a fan-out leg behind a leg that succeeded keeps only its
\* claims (and its cells, which it gives to the sheets already merged).
Reading(c, i) ==
  [by |-> Plan(c)[i], cv |-> legs[c][i] = "ok_cv",
   body |-> ~(/\ Fanout(request[c]) /\ Plan(c)[i] = "calamine"
              /\ \E j \in Succeeded(c) : j < i)]

\* run_collectors waits for every leg and merges in plan order: the reading of
\* a leg that succeeded stands at the leg's place.
Merged(c) == [i \in Succeeded(c) |-> Reading(c, i)]

\* all_failed_status: the first failure's code.
FirstFailure(c) == legs[c][Min(DOMAIN legs[c])]

\* A VLM failure keeps its own code; a cancel outranks everything else.
Gather(c) ==
  /\ pc[c] = "legs" /\ \A i \in DOMAIN legs[c] : legs[c][i] \in Codes \cup {"ok", "ok_cv"}
  /\ doc' = [doc EXCEPT ![c] = Merged(c)]
  /\ failures' = [failures EXCEPT ![c] =
                    {Plan(c)[i] : i \in DOMAIN legs[c] \ Succeeded(c)}]
  /\ legs' = [legs EXCEPT ![c] = <<>>]
  /\ IF cancelled[c] /\ ~(Vlm(c) /\ Succeeded(c) = {}) THEN Return(c, "CANCELLED")
     ELSE IF Succeeded(c) = {} THEN Return(c, FirstFailure(c))
     ELSE Go(c, "finalize") /\ UNCHANGED answer
  /\ UNCHANGED <<shared, request, seen, cancelled, held, collectors_ran, lease, cv_rows,
                 offsets, overlaid, partial>>

OneReading(c) == \E k \in DOMAIN doc[c] : DOMAIN doc[c] = {k}

\* Repair (which may move text), chart derendering, form widgets, the structural
\* rules, and the offset table with the CV rows laid over it.  The VLM branch
\* returns without the table.
Finalize(c) ==
  /\ pc[c] = "finalize"
  /\ \/ \E repaired \in BOOLEAN :
          /\ overlaid' = [overlaid EXCEPT ![c] = OneReading(c) /\ cv_rows[c] /\ ~repaired]
          /\ offsets' = [offsets EXCEPT ![c] = ~Vlm(c)]
          /\ Go(c, "shape") /\ UNCHANGED answer
     \/ /\ "structure" \in MayFail /\ Return(c, "FAILED_PRECONDITION")
        /\ UNCHANGED <<offsets, overlaid>>
  /\ UNCHANGED <<shared, request, seen, cancelled, held, collectors_ran, legs, lease,
                 cv_rows, doc, failures, partial>>
-----------------------------------------------------------------------------
(* The surfaces *)

\* ConvertSource renders, chunks, and delivers to the target: a store that
\* failed leaves a partial conversion, a misconfigured target or a response too
\* large for the wire refuses it.  The chunk surfaces go on to the embedder.
Shape(c) ==
  /\ pc[c] = "shape"
  /\ \/ /\ request[c].surface = "convert"
        /\ \E delivered \in {TRUE} \cup (IF "delivery" \in MayFail THEN {FALSE} ELSE {}) :
             partial' = [partial EXCEPT ![c] = failures[c] # {} \/ ~delivered]
        /\ Return(c, "OK")
     \/ /\ request[c].surface # "convert" /\ Go(c, "engine")
        /\ UNCHANGED <<partial, answer>>
     \/ "shape" \in MayFail /\ Return(c, "RESOURCE_EXHAUSTED") /\ UNCHANGED partial
  /\ UNCHANGED <<shared, request, seen, cancelled, held, collectors_ran, legs, lease,
                 cv_rows, doc, failures, offsets, overlaid>>

\* The embedding engine's mutex, tried for a while and given up once cancelled.
\* Without embedding options the chunks leave as they are.
AcquireEngine(c) ==
  /\ pc[c] = "engine"
  /\ \/ engine = NoCall /\ engine' = c /\ Go(c, "infer") /\ UNCHANGED <<partial, answer>>
     \/ cancelled[c] /\ Return(c, "CANCELLED") /\ UNCHANGED <<engine, partial>>
     \/ /\ partial' = [partial EXCEPT ![c] = failures[c] # {}]
        /\ Return(c, "OK") /\ UNCHANGED engine
  /\ UNCHANGED <<used, queue, in_use, pool, request, seen, cancelled, held, collectors_ran,
                 legs, lease, cv_rows, doc, failures, offsets, overlaid>>

Infer(c) ==
  /\ pc[c] = "infer" /\ engine' = NoCall
  /\ \/ /\ ~cancelled[c] /\ partial' = [partial EXCEPT ![c] = failures[c] # {}]
        /\ Return(c, "OK")
     \/ /\ "embedding" \in MayFail \/ cancelled[c]
        /\ Return(c, IF cancelled[c] THEN "CANCELLED" ELSE "INTERNAL") /\ UNCHANGED partial
  /\ UNCHANGED <<used, queue, in_use, pool, request, seen, cancelled, held, collectors_ran,
                 legs, lease, cv_rows, doc, failures, offsets, overlaid>>

\* record_rpc_completion
Completion(c) ==
  IF status[c] = "OK" THEN (IF partial[c] THEN "partial" ELSE "success")
  ELSE IF ~collectors_ran[c] /\ status[c] \in Rejections THEN "rejected" ELSE "failure"

\* What a call that did not succeed had parsed goes with its SourceParse.
DropParse(c) ==
  IF status[c] = "OK" THEN UNCHANGED <<doc, failures, cv_rows, offsets, overlaid>>
  ELSE /\ doc' = [doc EXCEPT ![c] = <<>>] /\ failures' = [failures EXCEPT ![c] = {}]
       /\ cv_rows' = [cv_rows EXCEPT ![c] = FALSE]
       /\ offsets' = [offsets EXCEPT ![c] = FALSE]
       /\ overlaid' = [overlaid EXCEPT ![c] = FALSE]

\* The work's end: its completion is recorded, the parse is dropped, and the
\* call is finished, unless a stream has its messages still to write.
Returned(c) ==
  LET streams == Streamed(c) /\ status[c] = "OK" IN
  /\ pc[c] = "returned" /\ Record(c, Completion(c)) /\ DropParse(c)
  /\ IF streams THEN Go(c, "writing") /\ UNCHANGED <<used, fetched, finished>>
     ELSE /\ used' = used - fetched[c] /\ fetched' = [fetched EXCEPT ![c] = 0]
          /\ finished' = [finished EXCEPT ![c] = @ + 1] /\ Go(c, "finished")
  /\ UNCHANGED <<queue, in_use, pool, engine, request, seen, cancelled, charge, slot, body,
                 collectors_ran, legs, lease, partial, status, next>>

\* Mutant: a failed write finishes the call but does not return.
WriteDoneGoesOn(c) ==
  /\ pc[c] = "writing"
  /\ \/ /\ next[c] < Messages /\ next' = [next EXCEPT ![c] = @ + 1]
        /\ UNCHANGED <<pc, status, finished>>
     \/ next[c] = Messages /\ Finish(c, "OK") /\ Go(c, "finished") /\ UNCHANGED next
     \/ /\ "write" \in MayFail /\ next[c] > 0
        /\ Finish(c, "CANCELLED") /\ UNCHANGED <<pc, next>>
  /\ UNCHANGED <<shared, request, seen, cancelled, held, parse, recorded>>

\* OnWriteDone and write_next: one write at a time, OK after the last, CANCELLED
\* as soon as one fails.
WriteDone(c) ==
  /\ pc[c] = "writing"
  /\ \/ /\ next[c] < Messages /\ next' = [next EXCEPT ![c] = @ + 1]
        /\ UNCHANGED <<pc, status, finished>>
     \/ next[c] = Messages /\ Finish(c, "OK") /\ Go(c, "finished") /\ UNCHANGED next
     \/ /\ "write" \in MayFail /\ next[c] > 0
        /\ Finish(c, "CANCELLED") /\ Go(c, "finished") /\ UNCHANGED next
  /\ UNCHANGED <<shared, request, seen, cancelled, held, parse, recorded>>

\* OnDone deletes the reactor and with it all the call had; a streamed call's
\* charges go back here.
OnDone(c) ==
  /\ pc[c] = "finished" /\ Go(c, "gone")
  /\ IF Streamed(c)
     THEN /\ used' = used - charge[c] - fetched[c]
          /\ charge' = [charge EXCEPT ![c] = 0] /\ fetched' = [fetched EXCEPT ![c] = 0]
     ELSE UNCHANGED <<used, charge, fetched>>
  /\ request' = [request EXCEPT ![c] = NoRequest] /\ seen' = [seen EXCEPT ![c] = 0]
  /\ cancelled' = [cancelled EXCEPT ![c] = FALSE]
  /\ collectors_ran' = [collectors_ran EXCEPT ![c] = FALSE]
  /\ cv_rows' = [cv_rows EXCEPT ![c] = FALSE]
  /\ offsets' = [offsets EXCEPT ![c] = FALSE] /\ overlaid' = [overlaid EXCEPT ![c] = FALSE]
  /\ doc' = [doc EXCEPT ![c] = <<>>] /\ failures' = [failures EXCEPT ![c] = {}]
  /\ partial' = [partial EXCEPT ![c] = FALSE] /\ status' = [status EXCEPT ![c] = "none"]
  /\ recorded' = [recorded EXCEPT ![c] = <<>>] /\ next' = [next EXCEPT ![c] = 0]
  /\ UNCHANGED <<queue, in_use, pool, engine, slot, body, legs, lease, finished>>
-----------------------------------------------------------------------------
\* Every call is over and the workers wait or have ended.
Quiet ==
  /\ \A c \in Calls : pc[c] = "gone"
  /\ \A w \in Workers : w \in sleeping \/ running[w] = "exited"
  /\ UNCHANGED vars

CallStep(c) ==
  \/ AdmitLoad(c) \/ AdmitCas(c) \/ Submit(c)
  \/ Dequeued(c) \/ AcquireSlot(c) \/ Fetch(c) \/ ChargeLoad(c) \/ ChargeCas(c) \/ Decode(c)
  \/ Gather(c) \/ Finalize(c) \/ Shape(c) \/ AcquireEngine(c) \/ Infer(c)
  \/ Returned(c) \/ WriteDone(c) \/ OnDone(c)
  \/ \E i \in DOMAIN legs[c] :
                     \/ LegStart(c, i) \/ LegAnswer(c, i) \/ AcquireLease(c, i)
                     \/ CvNotRun(c, i) \/ BuildEngine(c, i) \/ Recognized(c, i)
WorkerStep(w) == WorkerWait(w) \/ WorkerTake(w) \/ WorkerDone(w)

Next ==
  \/ \E c \in Calls : \/ \E r \in Requests : Call(c, r) \/ CallRefused(c, r)
                      \/ CallStep(c) \/ Cancel(c)
  \/ \E w \in Workers : WorkerStep(w)
  \/ Stop \/ Quiet

Spec == Init /\ [][Next]_vars
FairSpec == /\ Spec /\ \A c \in Calls : WF_vars(CallStep(c))
            /\ \A w \in Workers : WF_vars(WorkerStep(w))
-----------------------------------------------------------------------------
\* What the calls share is conserved on every exit path: a refusal, a throw, a
\* broken stream. The budget counts exactly what the calls hold and never
\* passes its limit: concurrent charges cannot both fit where one does. The
\* slots bound the fetched bodies no charge covers yet; a call past its
\* charge, or refused one, keeps none. Every engine is free or leased by one
\* recognition under way, also after a factory threw or an engine was discarded.
ResourcesConserved ==
  LET leased == {c \in Calls : lease[c] # 0} IN
  /\ used = RequestBytes * Cardinality({c \in Calls : charge[c] # 0})
            + FetchedBytes * Cardinality({c \in Calls : fetched[c] # 0})
  /\ used <= BudgetLimit
  /\ in_use = Cardinality({c \in Calls : slot[c]})
  /\ \A c \in Calls : /\ body[c] => slot[c]
                      /\ slot[c] => pc[c] \in {"fetch", "charge", "charge_cas"}
  /\ in_use <= FetchLimit
  /\ Range(free_slots) \cup {lease[c] : c \in leased} = 1..PoolSize
  /\ Len(free_slots) + Cardinality(leased) = PoolSize
  /\ \A c \in leased : \E i \in DOMAIN legs[c] : legs[c][i] \in {"leased", "recognizing"}

\* The executor drains: no worker ends while a call is queued, so a call that
\* submit() accepted is answered even when the executor is being destroyed.
DrainedBeforeExit ==
  (\E w \in Workers : running[w] = "exited") => tasks = <<>>

\* A call is answered once and counted once, as what it was: rejected only if no
\* collector ran for it, a success or a partial success only with OK.
AnsweredOnce ==
  \A c \in Calls :
    /\ finished[c] <= 1 /\ Len(recorded[c]) <= 1
    /\ pc[c] = "finished" =>
         /\ finished[c] = 1 /\ Len(recorded[c]) = 1
         /\ recorded[c][1] = "rejected" => ~collectors_ran[c]
         /\ status[c] = "OK" => recorded[c][1] \in {"success", "partial"}

\* An OK conversion is whole: every leg of the plan is merged or reported as
\* failed, readings stand in plan order, some leg brought the body, and legs of a
\* routed workbook never bring it twice.  NATIVE was read by no model.
OKCarriesPlan ==
  \A c \in Calls : pc[c] \in {"writing", "finished"} /\ status[c] = "OK" =>
    LET merged == {doc[c][k].by : k \in DOMAIN doc[c]}
        bodies == {k \in DOMAIN doc[c] : doc[c][k].body}
    IN  /\ merged \cup failures[c] = Range(Plan(c))
        /\ merged \cap failures[c] = {}
        /\ \A k \in DOMAIN doc[c] : k \in DOMAIN Plan(c) /\ doc[c][k].by = Plan(c)[k]
        /\ bodies # {}
        /\ Fanout(request[c]) => Cardinality(bodies) = 1
        /\ failures[c] # {} => partial[c]
        /\ Native(c) => \A k \in DOMAIN doc[c] : ~doc[c][k].cv

\* The CV rows label an offset table only when recognition read everything in the
\* document: a row never names an item another collector or a repair put there.
OverlayIsCv ==
  \A c \in Calls : overlaid[c] => OneReading(c) /\ \A k \in DOMAIN doc[c] : doc[c][k].cv

\* Every call is answered, whatever its client, its collectors and the shutdown do.
EveryCallAnswered == \A c \in Calls : pc[c] # "idle" ~> pc[c] = "gone"
=============================================================================
