--------------------------- MODULE DocumentStream ---------------------------
(***************************************************************************)
(* One StreamProcessDocument call of src/document_streaming_service.cpp:   *)
(* the DocumentStreamReactor, its processing thread, the collector legs,   *)
(* the pdf routing leg and the CV run it submits to the page scheduler.    *)
(*                                                                         *)
(* One action is one section under the reactor's mutex_.  Threads that are *)
(* not gRPC reactions also take the callback gate; the processing thread   *)
(* and the pdf leg hold it over several sections (launch, submit_cv), so   *)
(* gRPC reactions interleave with them and other callbacks do not.         *)
(*                                                                         *)
(* The scheduler is its promise, DocumentDelivery, which PageScheduler is  *)
(* shown to implement.  Chunk contents, page contents, the repair pass and *)
(* what a collector answers are choices.                                   *)
(***************************************************************************)
EXTENDS Integers, Sequences, FiniteSets

CONSTANTS
  DocPages,          \* pages of the document
  PageWindow,        \* page_window, also maximum_buffered_pages_
  Plans,             \* the collector sets a request may resolve to
  Projections,       \* how many pages a leg's Document may project to
  MaxChunks,         \* chunks a client may send (bound of the model)
  MaxDocumentBytes,  \* kMaximumDocumentBytes, in one-unit chunks
  BadUploads,        \* whether the client may break the upload's rules
  MayCancel,         \* whether the client may cancel or its deadline pass
  MayFail,           \* whether legs, the run and threads may fail
  MayBreach          \* whether ENFORCE may find a broken rule

Run == "run"
Pages == 1..DocPages
\* The CV pipeline, the pdf inspector, any other leg, and a collector this
\* build cannot run.
Collectors == {"cv", "pdf", "leg", "unwired"}
Legs == {"pdf", "leg"}
\* The stages of the pdf routing leg, from its start to its part's end.
RouteStates == {"router", "reading", "held", "left_ok", "left_failed", "fallback", "route", "submit",
                "ticket", "deliver_ok", "deliver_failed"}
Codes == {"OK", "CANCELLED", "INVALID_ARGUMENT", "RESOURCE_EXHAUSTED", "INTERNAL",
          "FAILED_PRECONDITION", "UNIMPLEMENTED", "UNAVAILABLE"}

ASSUME StreamAssumption ==
  /\ DocPages \in Nat \ {0} /\ PageWindow \in Nat \ {0}
  /\ Plans \subseteq SUBSET Collectors
  /\ Projections \subseteq Nat
  /\ MaxChunks \in Nat /\ MaxDocumentBytes \in Nat
  /\ BadUploads \in BOOLEAN /\ MayCancel \in BOOLEAN /\ MayFail \in BOOLEAN
  /\ MayBreach \in BOOLEAN

VARIABLES
  \* the gRPC call
  sent,               \* chunks sent
  half_closed,        \* the client ended its side
  read_pending,       \* a StartRead has no OnReadDone yet
  ctx_cancelled,      \* context_->IsCancelled()
  cancel_seen,        \* OnCancel ran
  wire,               \* the events given to StartWrite
  gone,               \* OnDone ran: the gate's reactor is null
  \* the upload
  identified, complete_seen, bytes,
  charged_bytes,      \* what the reactor owes the in-flight budget
  buffer_charge,      \* what the shared buffer owes it
  inflight,           \* this call's share of InflightBytes::used_
  \* the reactor
  client_cancelled, finish_requested, finish_started, finish_status,
  events, write_in_flight, buffered_pages, completed_pages, next_page, total_pages,
  pending_parts, succeeded_parts, first_failure, failures,
  fold_empty, fold_has_cv, fold_settled,
  ticket_set, ticket_cancelled,
  \* the threads
  plan,               \* the resolved collectors
  process,            \* the processing thread
  gate,               \* who holds the callback gate over several sections
  leg,                \* each leg's thread
  pdf_open,           \* fast_path_open of collect_pdf
  pdf_run_open, pdf_next, pdf_streamed, pdf_held,
  cv_first,           \* the first page the CV run was submitted for
  \* DocumentDelivery: the CV run
  admitted, withdrawn, failed, lo, hi, announced, taken, owed, result

Scheduler == INSTANCE DocumentDelivery WITH
  Docs <- {Run}, MaxPage <- DocPages, Results <- {"none", "failed"}

call     == <<sent, half_closed, read_pending, ctx_cancelled, cancel_seen, gone>>
upload   == <<identified, complete_seen, bytes>>
charges  == <<charged_bytes, buffer_charge, inflight>>
finishes == <<finish_requested, finish_started, finish_status>>
writes   == <<events, write_in_flight, wire>>
pagevars == <<buffered_pages, completed_pages, next_page, total_pages>>
parts    == <<pending_parts, succeeded_parts, first_failure, failures>>
folds    == <<fold_empty, fold_has_cv, fold_settled>>
tickets  == <<ticket_set, ticket_cancelled>>
threads  == <<plan, process, gate, leg>>
pdfvars  == <<pdf_open, pdf_run_open, pdf_next, pdf_streamed, pdf_held>>
runvars  == <<admitted, withdrawn, failed, lo, hi, announced, taken, owed, result>>
vars == <<call, upload, charges, client_cancelled, finishes, writes, pagevars, parts, folds,
          tickets, threads, pdfvars, cv_first, runvars>>

Init ==
  /\ sent = 0 /\ half_closed = FALSE /\ read_pending = TRUE
  /\ ctx_cancelled = FALSE /\ cancel_seen = FALSE /\ gone = FALSE
  /\ identified = FALSE /\ complete_seen = FALSE /\ bytes = 0
  /\ charged_bytes = 0 /\ buffer_charge = 0 /\ inflight = 0
  /\ client_cancelled = FALSE
  /\ finish_requested = FALSE /\ finish_started = FALSE /\ finish_status = "OK"
  /\ events = <<>> /\ write_in_flight = FALSE /\ wire = <<>>
  /\ buffered_pages = 0 /\ completed_pages = {} /\ next_page = 1 /\ total_pages = 0
  /\ pending_parts = 0 /\ succeeded_parts = 0 /\ first_failure = "OK" /\ failures = {}
  /\ fold_empty = TRUE /\ fold_has_cv = FALSE /\ fold_settled = FALSE
  /\ ticket_set = FALSE /\ ticket_cancelled = FALSE
  /\ plan = {} /\ process = "none" /\ gate = "free"
  /\ leg = [c \in Legs |-> "idle"]
  /\ pdf_open = FALSE /\ pdf_run_open = FALSE /\ pdf_next = 1 /\ pdf_streamed = 0
  /\ pdf_held = <<>> /\ cv_first = 1
  /\ Scheduler!DInit

\* The events a client may receive.
Event(kind, from, page) == [kind |-> kind, from |-> from, page |-> page]
EventType == [kind : {"page", "repair", "document", "complete"},
              from : Collectors \cup {"slice", ""}, page : Nat]
CvPage(p)         == Event("page", "cv", p)
StreamedPage(p)   == Event("page", "slice", p)
ProjectedPage(c, p) == Event("page", c, p)
Repair(c)         == Event("repair", c, 0)
Document(c)       == Event("document", c, 0)
Complete          == Event("complete", "", 0)
\* ArenaEvent::scheduler_credit: a CV page, whose write returns its credit.
Credited(e)       == e.kind = "page" /\ e.from = "cv"
CreditedIn(q)     == {i \in DOMAIN q : Credited(q[i])}
-----------------------------------------------------------------------------
(* The reactor's helpers, called with mutex_ held. *)

\* Whether a finish request for status takes effect: the first one does, and
\* a failure replaces OK while Finish has not started.
Overrides(status) ==
  ~finish_started /\ (~finish_requested \/ (finish_status = "OK" /\ status # "OK"))

\* request_finish_locked() without its pump; a failure also cancels the
\* ticket once there is one (cancel_ticket_locked).
request_finish(status) ==
  /\ finish_requested' = TRUE
  /\ finish_status' = IF Overrides(status) THEN status ELSE finish_status
  /\ ticket_cancelled' = (ticket_cancelled \/ (Overrides(status) /\ status # "OK" /\ ticket_set))

NoFinish == UNCHANGED <<finish_requested, finish_status, ticket_cancelled>>

\* What cancelling the ticket does to the run.
CancelRun ==
  IF ticket_cancelled' # ticket_cancelled THEN Scheduler!Withdraw(Run) ELSE UNCHANGED runvars

\* pump_locked() on the queue q: the next write starts, or a requested Finish
\* does once the queue has drained.
pump(q, writing, requested) ==
  /\ events' = q
  /\ write_in_flight' = (writing \/ q # <<>>)
  /\ wire' = IF ~writing /\ q # <<>> THEN Append(wire, Head(q)) ELSE wire
  /\ finish_started' = (finish_started \/ (requested /\ ~writing /\ q = <<>>))

\* A section that only finishes the call.
FinishCall(status) ==
  /\ request_finish(status)
  /\ pump(events, write_in_flight, TRUE)

\* emit_fold_delta_locked(): at most one repair event for the pages that
\* streamed; with says whether the passes changed anything.
FoldDelta(settled, with) ==
  IF fold_empty \/ settled \/ ~with THEN <<>>
  ELSE <<Repair(IF fold_has_cv THEN "cv" ELSE "pdf")>>

\* The first failure, or INTERNAL when no part recorded one.
FirstFailure == IF first_failure' = "OK" THEN "INTERNAL" ELSE first_failure'

\* Mutant: the last part completes the stream whether or not any succeeded.
part_done_unserved(q, settled) ==
  LET left == IF pending_parts > 0 THEN pending_parts - 1 ELSE 0
      last == left = 0 /\ ~finish_requested
  IN /\ pending_parts' = left
     /\ IF last THEN request_finish("OK") ELSE NoFinish
     /\ pump(IF last THEN q \o <<Complete>> ELSE q, write_in_flight, finish_requested')
     /\ fold_settled' = settled
     /\ UNCHANGED <<fold_empty, fold_has_cv>>

\* part_done_locked() once the part has queued q: the last part to land fails
\* the stream with the first failure or queues the complete event.
part_done(q, settled) ==
  LET left == IF pending_parts > 0 THEN pending_parts - 1 ELSE 0
      last == left = 0 /\ ~finish_requested
      done == last /\ succeeded_parts' > 0
  IN /\ pending_parts' = left
     /\ IF ~last THEN NoFinish
        ELSE request_finish(IF done THEN "OK" ELSE FirstFailure)
     /\ \E with \in BOOLEAN :
          pump(IF done THEN q \o FoldDelta(settled, with) \o <<Complete>> ELSE q,
               write_in_flight, finish_requested')
     /\ fold_settled' = (settled \/ (done /\ ~fold_empty))
     /\ UNCHANGED <<fold_empty, fold_has_cv>>

\* record_part_failure_locked()
record_part_failure(c, status) ==
  /\ failures' = failures \cup {c}
  /\ first_failure' = IF first_failure = "OK" THEN status ELSE first_failure

\* Mutant: the failed part is never counted as done.
PartFailedSilent(c, status) ==
  /\ record_part_failure(c, status)
  /\ UNCHANGED <<pending_parts, succeeded_parts, folds, finishes, writes, ticket_cancelled>>

\* A part that ends without success.
PartFailed(c, status) ==
  /\ record_part_failure(c, status)
  /\ UNCHANGED succeeded_parts
  /\ part_done(events, fold_settled)

PartSucceeded(q, settled) ==
  /\ UNCHANGED <<failures, first_failure>>
  /\ succeeded_parts' = succeeded_parts + 1
  /\ part_done(q, settled)

reactor == <<client_cancelled, finishes, writes, pagevars, parts, folds, ticket_cancelled>>

-----------------------------------------------------------------------------
(* The client and the upload. *)

ClientHalfClose ==
  /\ ~half_closed /\ (BadUploads \/ complete_seen)
  /\ half_closed' = TRUE
  /\ UNCHANGED <<sent, read_pending, ctx_cancelled, cancel_seen, gone, upload, charges, reactor,
                 ticket_set, threads, pdfvars, cv_first, runvars>>

\* The client cancels or its deadline passes.
ClientCancel ==
  /\ MayCancel /\ ~ctx_cancelled /\ ~gone
  /\ ctx_cancelled' = TRUE
  /\ UNCHANGED <<sent, half_closed, read_pending, cancel_seen, gone, upload, charges, reactor,
                 ticket_set, threads, pdfvars, cv_first, runvars>>

\* What accept_chunk_locked() refuses a chunk for, "OK" when it does not:
\* data after the complete chunk, an unnamed first chunk or a chunk of another
\* document (resolve_identity_locked), a document over the streaming limit,
\* and one the in-flight budget has no room for.
Refusal(names, size, room) ==
  IF complete_seen THEN "INVALID_ARGUMENT"
  ELSE IF ~identified /\ names = "none" THEN "INVALID_ARGUMENT"
  ELSE IF identified /\ names = "other" THEN "INVALID_ARGUMENT"
  ELSE IF size > MaxDocumentBytes - bytes THEN "RESOURCE_EXHAUSTED"
  ELSE IF size > 0 /\ ~room THEN "RESOURCE_EXHAUSTED"
  ELSE "OK"

\* OnReadDone(true): accept_chunk_locked().  An accepted chunk is charged and
\* starts the next read; a refused one finishes the call.
OnChunk(names, size, last, room) ==
  /\ read_pending /\ ~half_closed /\ sent < MaxChunks
  /\ sent' = sent + 1
  /\ IF finish_requested
     THEN /\ read_pending' = FALSE
          /\ UNCHANGED <<upload, charges, finishes, writes, ticket_cancelled, runvars>>
     ELSE IF Refusal(names, size, room) # "OK"
     THEN /\ read_pending' = FALSE
          /\ FinishCall(Refusal(names, size, room)) /\ CancelRun
          /\ identified' = (identified \/ (~complete_seen /\ names # "none"))
          /\ UNCHANGED <<complete_seen, bytes, charges>>
     ELSE /\ identified' = TRUE /\ complete_seen' = last /\ bytes' = bytes + size
          /\ charged_bytes' = charged_bytes + size /\ inflight' = inflight + size
          /\ UNCHANGED <<read_pending, buffer_charge, finishes, writes, ticket_cancelled,
                         runvars>>
  /\ UNCHANGED <<half_closed, ctx_cancelled, cancel_seen, gone, client_cancelled, pagevars,
                 parts, folds, ticket_set, threads, pdfvars, cv_first>>

\* A well-behaved client names its document, sends data and ends with one
\* complete chunk.
ClientChunk ==
  \/ \E last \in BOOLEAN :
       /\ ~complete_seen /\ (sent + 1 = MaxChunks => last)
       /\ OnChunk("same", 1, last, TRUE)
  \/ /\ BadUploads
     /\ \E names \in {"same", "none", "other"}, size \in {0, 1}, last, room \in BOOLEAN :
          OnChunk(names, size, last, room)

\* start_processing(): the parse gets a thread, unless none can start.
start_processing ==
  \/ /\ process' = "resolving"
     /\ UNCHANGED <<finishes, writes, ticket_cancelled, runvars>>
  \/ /\ MayFail
     /\ FinishCall("RESOURCE_EXHAUSTED") /\ CancelRun
     /\ UNCHANGED process

\* OnReadDone(false): ready_to_parse() and then start_processing().
OnReadClosed ==
  /\ read_pending /\ (half_closed \/ ctx_cancelled \/ finish_started)
  /\ read_pending' = FALSE
  /\ IF client_cancelled
     THEN FinishCall("CANCELLED") /\ CancelRun /\ UNCHANGED process
     ELSE IF ~complete_seen \/ bytes = 0
     THEN FinishCall("INVALID_ARGUMENT") /\ CancelRun /\ UNCHANGED process
     ELSE start_processing
  /\ UNCHANGED <<sent, half_closed, ctx_cancelled, cancel_seen, gone, upload, charges,
                 client_cancelled, pagevars, parts, folds, ticket_set, plan, gate, leg, pdfvars,
                 cv_first>>

OnCancel ==
  /\ ctx_cancelled /\ ~cancel_seen /\ ~gone
  /\ cancel_seen' = TRUE
  /\ client_cancelled' = TRUE
  /\ FinishCall("CANCELLED") /\ CancelRun
  /\ UNCHANGED <<sent, half_closed, read_pending, ctx_cancelled, gone, upload, charges, pagevars,
                 parts, folds, ticket_set, threads, pdfvars, cv_first>>

\* Mutant: the written page returns its credit and stays counted.
OnWriteDoneUncounted ==
  /\ write_in_flight /\ ~gone
  /\ IF Credited(Head(events)) /\ ticket_set /\ owed[Run] > 0 THEN Scheduler!Credit(Run)
     ELSE UNCHANGED runvars
  /\ pump(Tail(events), FALSE, finish_requested)
  /\ UNCHANGED <<call, upload, charges, client_cancelled, finish_requested, finish_status,
                 pagevars, parts, folds, tickets, threads, pdfvars, cv_first>>

\* OnWriteDone(true): the page event returns its credit, and the next event
\* or the Finish goes out.  The branch for an empty queue is never taken: a
\* write in flight is the head of events (pump is the only place that starts
\* one, and TypeOK checks it).
OnWriteDone ==
  LET page_written == Credited(Head(events))
  IN /\ write_in_flight /\ ~gone
     /\ buffered_pages' = IF page_written /\ buffered_pages > 0 THEN buffered_pages - 1
                          ELSE buffered_pages
     /\ IF page_written /\ ticket_set /\ owed[Run] > 0 THEN Scheduler!Credit(Run)
        ELSE UNCHANGED runvars
     /\ pump(Tail(events), FALSE, finish_requested)
     /\ UNCHANGED <<call, upload, charges, client_cancelled, finish_requested, finish_status,
                    completed_pages, next_page, total_pages, parts, folds, tickets, threads,
                    pdfvars, cv_first>>

\* OnWriteDone(false): the client stopped reading.
OnWriteFailed ==
  /\ write_in_flight /\ ctx_cancelled /\ ~gone
  /\ client_cancelled' = TRUE
  /\ buffered_pages' = 0
  /\ request_finish("CANCELLED") /\ CancelRun
  /\ pump(<<>>, FALSE, TRUE)
  /\ UNCHANGED <<call, upload, charges, completed_pages, next_page, total_pages, parts, folds,
                 ticket_set, threads, pdfvars, cv_first>>

\* OnDone(): the gate forgets the reactor, which is deleted and returns the
\* charge of bytes it never handed over.
OnDone ==
  /\ finish_started /\ ~write_in_flight /\ ~read_pending /\ ~gone
  /\ gate = "free"
  /\ gone' = TRUE
  /\ inflight' = inflight - charged_bytes /\ charged_bytes' = 0
  /\ UNCHANGED <<sent, half_closed, read_pending, ctx_cancelled, cancel_seen, upload,
                 buffer_charge, reactor, ticket_set, threads, pdfvars, cv_first, runvars>>

\* The last holder of the shared buffer lets go of it (take_bytes_locked's
\* deleter): the processing thread, a leg or the CV run.
DropBuffer ==
  /\ buffer_charge > 0 /\ process = "done"
  /\ \A c \in Legs : leg[c] \in {"idle", "planned", "router", "done"}
  /\ Run \in admitted => result[Run] # "pending"
  /\ inflight' = inflight - buffer_charge /\ buffer_charge' = 0
  /\ UNCHANGED <<call, upload, charged_bytes, reactor, ticket_set, threads, pdfvars, cv_first,
                 runvars>>

-----------------------------------------------------------------------------
(* The processing thread: process_guarded(), process(), launch(). *)

\* The thread ends; when it finds the reactor gone it only ends.
ProcessEnds == process' = "done" /\ UNCHANGED <<plan, gate, leg>>

\* Mutant: the reactor keeps the charge it handed over.
take_bytes_twice == buffer_charge' = charged_bytes /\ UNCHANGED <<charged_bytes, inflight>>

\* take_bytes_locked(): the charge moves to the shared buffer.
take_bytes ==
  buffer_charge' = charged_bytes /\ charged_bytes' = 0 /\ UNCHANGED inflight

\* resolve_plan() refuses the request: before the bytes are taken (tuning,
\* structural options, passwords) or after (the collector selection), in
\* which case the buffer dies with the plan.
ResolveRefused ==
  /\ process = "resolving" /\ gate = "free" /\ BadUploads /\ ~gone
  /\ \/ UNCHANGED charges
     \/ take_bytes
  /\ \E status \in {"INVALID_ARGUMENT", "FAILED_PRECONDITION"} : FinishCall(status)
  /\ CancelRun
  /\ ProcessEnds
  /\ UNCHANGED <<call, upload, client_cancelled, pagevars, parts, folds, ticket_set, pdfvars,
                 cv_first>>

\* resolve_plan() and count_parts_locked(): each collector this build can run
\* is one pending part, the others fail on the spot; a plan with no runnable
\* part fails the stream.  The pdf collector alone routes the document.
ResolvePlan(pl) ==
  LET runnable == pl \cap {"cv", "pdf", "leg"}
  IN /\ process = "resolving" /\ gate = "free" /\ ~gone
     /\ take_bytes
     /\ plan' = pl
     /\ pending_parts' = Cardinality(runnable)
     /\ failures' = pl \ runnable
     /\ first_failure' = IF pl = runnable THEN "OK" ELSE "UNIMPLEMENTED"
     /\ IF runnable = {}
        THEN /\ FinishCall("UNIMPLEMENTED") /\ CancelRun
             /\ process' = "done" /\ UNCHANGED leg
        ELSE /\ process' = "origin"
             /\ \E pdf \in BOOLEAN :
                  leg' = [c \in Legs |-> IF c \notin pl THEN "idle"
                                         ELSE IF pdf /\ pl = {"pdf"} THEN "router" ELSE "planned"]
             /\ UNCHANGED <<finishes, writes, ticket_cancelled, runvars>>
     /\ UNCHANGED <<call, upload, client_cancelled, pagevars, succeeded_parts, folds, ticket_set,
                    gate, pdfvars, cv_first>>

\* read_origin() hashes the upload outside the gate; launch() then holds it.
ProcessLaunch ==
  /\ process = "origin" /\ gate = "free" /\ ~gone
  /\ process' = "launch" /\ gate' = "process"
  /\ UNCHANGED <<call, upload, charges, reactor, ticket_set, plan, leg, pdfvars, cv_first,
                 runvars>>

\* The reactor was gone before the thread reached it again.
ProcessGone ==
  /\ process \in {"resolving", "origin"} /\ gate = "free" /\ gone
  /\ ProcessEnds
  /\ UNCHANGED <<call, upload, charges, reactor, ticket_set, pdfvars, cv_first, runvars>>

\* process_guarded(): a throw finishes the call with its mapped status.
ProcessThrows ==
  /\ MayFail /\ process = "origin" /\ gate = "free" /\ ~gone
  /\ FinishCall("INTERNAL") /\ CancelRun
  /\ ProcessEnds
  /\ UNCHANGED <<call, upload, charges, client_cancelled, pagevars, parts, folds, ticket_set,
                 pdfvars, cv_first>>

\* start_leg(): the leg's thread runs.
LaunchLeg(c) ==
  /\ process = "launch" /\ leg[c] \in {"planned", "router"}
  /\ leg' = [leg EXCEPT ![c] = IF @ = "router" THEN "reading" ELSE "running"]
  /\ IF leg[c] = "router" THEN \E open \in BOOLEAN : pdf_open' = open /\ pdf_run_open' = open
     ELSE UNCHANGED <<pdf_open, pdf_run_open>>
  /\ UNCHANGED <<call, upload, charges, reactor, ticket_set, plan, process, gate, pdf_next,
                 pdf_streamed, pdf_held, cv_first, runvars>>

\* Every leg is off; the CV part, if there is one, is submitted last.
LaunchDone ==
  /\ process = "launch" /\ \A c \in Legs : leg[c] \notin {"planned", "router"}
  /\ IF "cv" \in plan THEN process' = "submit" /\ UNCHANGED gate
     ELSE process' = "done" /\ gate' = "free"
  /\ UNCHANGED <<call, upload, charges, reactor, ticket_set, plan, leg, pdfvars, cv_first,
                 runvars>>

\* The two threads that may run submit_cv(), gate held throughout.
Submitting(who) ==
  \/ who = "process" /\ process = "submit"
  \/ who = "pdf" /\ leg["pdf"] = "submit"
Submitted(who) ==
  \/ who = "process" /\ process = "ticket"
  \/ who = "pdf" /\ leg["pdf"] = "ticket"
SubmitterAt(who, where) ==
  IF who = "process" THEN process' = where /\ UNCHANGED leg
  ELSE leg' = [leg EXCEPT !["pdf"] = where] /\ UNCHANGED process

\* submit_cv() up to the scheduler's answer: admitted ...
SubmitRun(who) ==
  /\ Submitting(who)
  /\ Scheduler!Admit(Run)
  /\ SubmitterAt(who, "ticket")
  /\ UNCHANGED <<call, upload, charges, reactor, ticket_set, plan, gate, pdfvars, cv_first>>

\* ... or refused, which fails the part like any CV failure.
SubmitRefused(who) ==
  /\ MayFail /\ Submitting(who)
  /\ PartFailed("cv", "RESOURCE_EXHAUSTED") /\ CancelRun
  /\ SubmitterAt(who, "done") /\ gate' = "free"
  /\ UNCHANGED <<call, upload, charges, client_cancelled, pagevars, ticket_set, plan, pdfvars,
                 cv_first>>

\* Mutant: a cancel that came before the ticket was stored is forgotten.
SetTicketUnchecked(who) ==
  /\ Submitted(who)
  /\ ticket_set' = TRUE
  /\ SubmitterAt(who, "done") /\ gate' = "free"
  /\ UNCHANGED <<call, upload, charges, client_cancelled, finishes, writes, pagevars, parts,
                 folds, ticket_cancelled, plan, pdfvars, cv_first, runvars>>

\* The ticket is stored; a call that was finished in the meantime cancels it.
SetTicket(who) ==
  /\ Submitted(who)
  /\ ticket_set' = TRUE
  /\ ticket_cancelled' = finish_requested
  /\ CancelRun
  /\ SubmitterAt(who, "done") /\ gate' = "free"
  /\ UNCHANGED <<call, upload, charges, client_cancelled, finishes, writes, pagevars, parts,
                 folds, plan, pdfvars, cv_first>>

-----------------------------------------------------------------------------
(* Collector legs: on_collector_done(). *)

\* A Document that breaks an enforced rule fails the stream.
DocumentRefused ==
  /\ FinishCall("FAILED_PRECONDITION") /\ CancelRun
  /\ UNCHANGED <<pagevars, parts, folds>>

\* A finished Document reaches the stream as its pages, unless they streamed
\* already, the repair event, and the Document itself.
DocumentArrived(c, k, streamed) ==
  LET pages   == IF streamed THEN <<>> ELSE [p \in 1..k |-> ProjectedPage(c, p)]
      settles == streamed /\ ~fold_has_cv /\ ~fold_settled
  IN /\ \E changed \in BOOLEAN :
          PartSucceeded(
            events \o pages
              \o (IF changed /\ (settles \/ pages # <<>>) THEN <<Repair(c)>> ELSE <<>>)
              \o <<Document(c)>>,
            fold_settled \/ settles)
     /\ CancelRun
     /\ total_pages' = IF pages # <<>> /\ k > total_pages THEN k ELSE total_pages
     /\ UNCHANGED <<buffered_pages, completed_pages, next_page>>

\* on_collector_done(): a call that is gone or finishing takes nothing more.
on_collector_done(c, success, k, streamed) ==
  /\ IF gone \/ client_cancelled \/ finish_requested
     THEN UNCHANGED <<finishes, writes, pagevars, parts, folds, ticket_cancelled, runvars>>
     ELSE IF success
     THEN DocumentArrived(c, k, streamed) \/ (MayBreach /\ DocumentRefused)
     ELSE PartFailed(c, "UNAVAILABLE") /\ CancelRun /\ UNCHANGED pagevars
  /\ leg' = [leg EXCEPT ![c] = "done"]
  /\ UNCHANGED <<call, upload, charges, client_cancelled, ticket_set, plan, process, gate, pdfvars,
                 cv_first>>

LegDone(c) ==
  /\ leg[c] = "running" /\ gate = "free"
  /\ \/ \E k \in Projections : on_collector_done(c, TRUE, k, FALSE)
     \/ (MayFail \/ ctx_cancelled) /\ on_collector_done(c, FALSE, 0, FALSE)

\* A leg whose thread cannot start fails on the spot, inside launch().
LegNotStarted(c) ==
  /\ MayFail /\ process = "launch" /\ leg[c] \in {"planned", "router"}
  /\ on_collector_done(c, FALSE, 0, FALSE)

-----------------------------------------------------------------------------
(* The pdf routing leg: run_pdf_route() over collect_pdf(). *)

PdfAt(where) == leg' = [leg EXCEPT !["pdf"] = where]

\* on_streamed_page() is refused once the call is gone or finishing.
StreamTakes == ~(gone \/ client_cancelled \/ finish_requested)

\* Mutant: a streamed page does not move the page that is next.
on_streamed_page_unmoved(p) ==
  /\ total_pages' = IF DocPages > total_pages THEN DocPages ELSE total_pages
  /\ fold_empty' = FALSE
  /\ pump(Append(events, StreamedPage(p)), write_in_flight, finish_requested)
  /\ UNCHANGED <<buffered_pages, completed_pages, next_page, fold_has_cv, fold_settled>>

\* on_streamed_page() queues the page as the next one of the document.
on_streamed_page(p) ==
  /\ total_pages' = IF DocPages > total_pages THEN DocPages ELSE total_pages
  /\ next_page' = p + 1
  /\ fold_empty' = FALSE
  /\ pump(Append(events, StreamedPage(p)), write_in_flight, finish_requested)
  /\ UNCHANGED <<buffered_pages, completed_pages, fold_has_cv, fold_settled>>

NotStreamed == UNCHANGED <<pagevars, fold_empty, fold_has_cv, fold_settled, writes, finish_started>>

\* The inspector's next page: a clean one in an unbroken run streams, the
\* first other one ends the run and later ones are held.
PdfSlice(clean) ==
  /\ leg["pdf"] = "reading" /\ pdf_open /\ pdf_next <= DocPages /\ gate = "free"
  /\ pdf_next' = pdf_next + 1
  /\ IF ~(pdf_run_open /\ clean)
     THEN /\ pdf_run_open' = FALSE /\ pdf_held' = Append(pdf_held, pdf_next)
          /\ NotStreamed /\ UNCHANGED pdf_streamed
     ELSE IF StreamTakes
     THEN /\ on_streamed_page(pdf_next)
          /\ pdf_streamed' = pdf_streamed + 1 /\ UNCHANGED <<pdf_run_open, pdf_held>>
     ELSE /\ pdf_run_open' = FALSE
          /\ NotStreamed /\ UNCHANGED <<pdf_streamed, pdf_held>>
  /\ UNCHANGED <<call, upload, charges, client_cancelled, finish_requested, finish_status, parts,
                 tickets, threads, pdf_open, cv_first, runvars>>

\* collect_pdf() returns and the classification routes the document; or the
\* leg throws, and start_leg() delivers that as the leg's failure.
PdfEnd(success, fast) ==
  /\ leg["pdf"] = "reading"
  /\ IF success THEN pdf_open => pdf_next > DocPages ELSE MayFail \/ ctx_cancelled
  /\ fast => success /\ pdf_open
  /\ \/ PdfAt(IF fast THEN (IF pdf_streamed > 0 THEN "held" ELSE "deliver_ok")
              ELSE IF pdf_streamed > 0 THEN (IF success THEN "left_ok" ELSE "left_failed")
              ELSE IF success THEN "route" ELSE "fallback")
     \/ ~success /\ MayFail /\ PdfAt("deliver_failed")
  /\ UNCHANGED <<call, upload, charges, reactor, ticket_set, plan, process, gate, pdfvars, cv_first,
                 runvars>>

\* The fast path's held pages follow the run; the leg may throw here too.
PdfHeld ==
  /\ leg["pdf"] = "held" /\ gate = "free"
  /\ \/ IF pdf_held # <<>> /\ StreamTakes
        THEN /\ on_streamed_page(Head(pdf_held))
             /\ pdf_held' = Tail(pdf_held) /\ UNCHANGED leg
        ELSE NotStreamed /\ PdfAt("deliver_ok") /\ UNCHANGED pdf_held
     \/ MayFail /\ NotStreamed /\ PdfAt("deliver_failed") /\ UNCHANGED pdf_held
  /\ UNCHANGED <<call, upload, charges, client_cancelled, finish_requested, finish_status, parts,
                 tickets, plan, process, gate, pdf_open, pdf_run_open, pdf_next, pdf_streamed,
                 cv_first, runvars>>

\* Recognition starts at the first page the run did not reach; with none left
\* the part settles on the collector's outcome.
PdfLeft ==
  LET success == leg["pdf"] = "left_ok"
  IN /\ leg["pdf"] \in {"left_ok", "left_failed"} /\ gate = "free"
     /\ IF gone THEN PdfAt("done") /\ UNCHANGED cv_first
        ELSE IF next_page > total_pages
        THEN PdfAt(IF success THEN "deliver_ok" ELSE "deliver_failed") /\ UNCHANGED cv_first
        ELSE PdfAt(IF success THEN "route" ELSE "fallback") /\ cv_first' = next_page
     /\ UNCHANGED <<call, upload, charges, reactor, ticket_set, plan, process, gate, pdfvars,
                    runvars>>

\* note_pdf_fallback(): the failure rides the complete event.
PdfFallback ==
  /\ leg["pdf"] = "fallback" /\ gate = "free"
  /\ IF gone THEN UNCHANGED <<failures, first_failure>>
     ELSE record_part_failure("pdf", "UNAVAILABLE")
  /\ PdfAt("route")
  /\ UNCHANGED <<call, upload, charges, client_cancelled, finishes, writes, pagevars,
                 pending_parts, succeeded_parts, folds, tickets, plan, process, gate, pdfvars,
                 cv_first, runvars>>

\* The leg takes the gate for submit_cv(), unless the reactor is gone.
PdfSubmit ==
  /\ leg["pdf"] = "route" /\ gate = "free"
  /\ IF gone THEN PdfAt("done") /\ UNCHANGED gate
     ELSE PdfAt("submit") /\ gate' = "pdf"
  /\ UNCHANGED <<call, upload, charges, reactor, ticket_set, plan, process, pdfvars, cv_first,
                 runvars>>

PdfDeliver ==
  /\ gate = "free"
  /\ \/ leg["pdf"] = "deliver_ok" /\ on_collector_done("pdf", TRUE, DocPages, pdf_streamed > 0)
     \/ leg["pdf"] = "deliver_failed" /\ on_collector_done("pdf", FALSE, 0, TRUE)

-----------------------------------------------------------------------------
(* The CV run, as DocumentDelivery promises it. *)

\* The run opens its document over the pages it was submitted for.
RunOpens ==
  /\ cv_first <= DocPages
  /\ Scheduler!Size(Run, cv_first, DocPages)
  /\ UNCHANGED <<call, upload, charges, reactor, ticket_set, threads, pdfvars, cv_first>>

\* A page, a model or the source fails.
RunFails ==
  /\ MayFail /\ Scheduler!Live(Run) /\ Scheduler!Break(Run)
  /\ UNCHANGED <<call, upload, charges, reactor, ticket_set, threads, pdfvars, cv_first>>

on_document ==
  /\ gate = "free"
  /\ Scheduler!Announce(Run)
  /\ total_pages' = IF gone THEN total_pages
                    ELSE (next_page - 1) + (hi[Run] - lo[Run] + 1)
  /\ UNCHANGED <<call, upload, charges, client_cancelled, finishes, writes, buffered_pages,
                 completed_pages, next_page, parts, folds, tickets, threads, pdfvars, cv_first>>

\* The pages from next_page on that have all arrived, so that they go out.
InOrder(pages) == {n \in next_page..DocPages : \A m \in next_page..n : m \in pages}

\* on_page() answers kCancelled: the client is gone, or the buffer is full,
\* which fails the stream and drops every page that is not being written.
PageRefused(p) ==
  /\ gate = "free" /\ Scheduler!Deliverable(Run, p)
  /\ Scheduler!Withdraw(Run)
  /\ \/ /\ gone \/ client_cancelled
        /\ UNCHANGED <<finishes, writes, buffered_pages, completed_pages, ticket_cancelled>>
     \/ /\ ~gone /\ ~client_cancelled /\ buffered_pages >= PageWindow
        /\ completed_pages' = {}
        /\ LET kept == IF write_in_flight THEN <<Head(events)>> ELSE <<>>
           IN /\ buffered_pages' = IF kept # <<>> /\ Credited(Head(kept)) THEN 1 ELSE 0
              /\ request_finish("RESOURCE_EXHAUSTED")
              /\ pump(kept, write_in_flight, TRUE)
  /\ UNCHANGED <<call, upload, charges, client_cancelled, next_page, total_pages, parts, folds,
                 ticket_set, threads, pdfvars, cv_first>>

\* on_page() accepts: the page waits for the ones before it, and every page
\* that is next in order becomes an event that owes its credit.
on_page(p) ==
  LET pages == completed_pages \cup {p}
      out   == InOrder(pages)
  IN /\ gate = "free" /\ ~gone /\ ~client_cancelled /\ buffered_pages < PageWindow
     /\ Scheduler!DeliverPage(Run, p)
     /\ buffered_pages' = buffered_pages + 1
     /\ completed_pages' = pages \ out
     /\ next_page' = next_page + Cardinality(out)
     /\ pump(events \o [i \in 1..Cardinality(out) |-> CvPage(next_page + i - 1)],
             write_in_flight, finish_requested)
     /\ fold_empty' = (fold_empty /\ out = {}) /\ fold_has_cv' = (fold_has_cv \/ out # {})
     /\ UNCHANGED <<call, upload, charges, client_cancelled, finish_requested, finish_status,
                    total_pages, parts, fold_settled, tickets, threads, pdfvars, cv_first>>

\* What on_scheduler_finish() makes of the run's result.
RunStatus(why) ==
  IF why # "none" THEN "UNAVAILABLE"
  ELSE IF next_page # total_pages + 1 \/ completed_pages # {} THEN "INTERNAL"
  ELSE "OK"

on_scheduler_finish(why) ==
  /\ gate = "free"
  /\ Scheduler!Finish(Run, why)
  /\ IF gone
     THEN UNCHANGED <<finishes, writes, parts, folds, ticket_cancelled>>
     ELSE IF client_cancelled \/ ctx_cancelled
     THEN FinishCall("CANCELLED") /\ UNCHANGED <<parts, folds>>
     ELSE IF RunStatus(why) = "OK" THEN PartSucceeded(events, fold_settled)
     ELSE PartFailed("cv", RunStatus(why))
  /\ UNCHANGED <<call, upload, charges, client_cancelled, pagevars, ticket_set, threads, pdfvars,
                 cv_first>>

-----------------------------------------------------------------------------
\* Nothing is left of the call.
Quiet ==
  /\ gone /\ buffer_charge = 0
  /\ UNCHANGED vars

Client == ClientChunk \/ ClientHalfClose \/ ClientCancel
Reactions == OnReadClosed \/ OnCancel \/ OnWriteDone \/ OnWriteFailed \/ OnDone
Processing ==
  \/ ResolveRefused \/ (\E pl \in Plans : ResolvePlan(pl)) \/ ProcessLaunch \/ ProcessGone
  \/ ProcessThrows \/ LaunchDone \/ (\E c \in Legs : LaunchLeg(c) \/ LegNotStarted(c))
Submission == \E who \in {"process", "pdf"} : SubmitRun(who) \/ SubmitRefused(who) \/ SetTicket(who)
PdfRoute ==
  \/ (\E clean \in BOOLEAN : PdfSlice(clean))
  \/ (\E success, fast \in BOOLEAN : PdfEnd(success, fast))
  \/ PdfHeld \/ PdfLeft \/ PdfFallback \/ PdfSubmit \/ PdfDeliver
RunCalls ==
  \/ on_document \/ (\E p \in Pages : on_page(p) \/ PageRefused(p))
  \/ (\E why \in {"none", "failed"} : on_scheduler_finish(why))

Next ==
  \/ Client \/ Reactions \/ DropBuffer \/ Processing \/ Submission
  \/ (\E c \in Legs : LegDone(c)) \/ PdfRoute
  \/ RunOpens \/ RunFails \/ RunCalls
  \/ Quiet

Spec == Init /\ [][Next]_vars

\* The threads run: a write completes because the client reads or the call
\* ends, a leg's call is bounded by its deadline, and the scheduler finishes
\* every document it admitted (PageScheduler's EveryDocumentFinishes).  The
\* client owes nothing once it has half-closed.
Fairness ==
  /\ WF_vars(OnReadClosed) /\ WF_vars(OnCancel) /\ WF_vars(OnWriteDone \/ OnWriteFailed)
  /\ WF_vars(OnDone) /\ WF_vars(DropBuffer)
  /\ WF_vars(Processing) /\ WF_vars(Submission) /\ WF_vars(PdfRoute)
  /\ \A c \in Legs : WF_vars(LegDone(c))
  /\ WF_vars(RunOpens) /\ WF_vars(RunCalls)

FairSpec == Spec /\ Fairness

-----------------------------------------------------------------------------
(* Properties *)

CallTypeOK ==
  /\ sent \in 0..MaxChunks /\ bytes \in 0..MaxDocumentBytes
  /\ {half_closed, read_pending, ctx_cancelled, cancel_seen, gone} \subseteq BOOLEAN
  /\ {identified, complete_seen} \subseteq BOOLEAN
  /\ charged_bytes \in Nat /\ buffer_charge \in Nat /\ inflight \in Nat

FinishTypeOK ==
  /\ {client_cancelled, finish_requested, finish_started, ticket_set, ticket_cancelled}
       \subseteq BOOLEAN
  /\ finish_status \in Codes /\ first_failure \in Codes /\ failures \subseteq Collectors
  /\ pending_parts \in 0..3 /\ succeeded_parts \in 0..3

QueueTypeOK ==
  /\ events \in Seq(EventType)
  /\ write_in_flight = (events # <<>>)
  /\ {fold_empty, fold_has_cv, fold_settled} \subseteq BOOLEAN

PageTypeOK ==
  /\ buffered_pages \in 0..PageWindow /\ completed_pages \subseteq Pages
  /\ next_page \in 1..DocPages + 1 /\ total_pages \in Nat

ThreadTypeOK ==
  /\ plan \subseteq Collectors /\ gate \in {"free", "process", "pdf"}
  /\ process \in {"none", "resolving", "origin", "launch", "submit", "ticket", "done"}
  /\ leg \in [Legs -> {"idle", "planned", "running", "done"} \cup RouteStates]
  /\ {pdf_open, pdf_run_open} \subseteq BOOLEAN
  /\ pdf_next \in 1..DocPages + 1 /\ pdf_streamed \in 0..DocPages
  /\ pdf_held \in Seq(Pages) /\ cv_first \in Pages

TypeOK == CallTypeOK /\ FinishTypeOK /\ QueueTypeOK /\ PageTypeOK /\ ThreadTypeOK

\* The pages that arrive one by one on a stream are CV pages and the inspector's.
OneAtATime(e) == e.kind = "page" /\ e.from \in {"cv", "slice"}
\* How many of them are among the first n events of s.
StreamedIn(s, n) == Cardinality({j \in 1..n : OneAtATime(s[j])})

Written(e) == \E i \in DOMAIN wire : wire[i] = e

\* What a collector of the plan owes the client.
Served(c) ==
  \/ c \in Legs /\ Written(Document(c))
  \/ c \in {"cv", "pdf"} /\ StreamedIn(wire, Len(wire)) = DocPages

\* A stream that ends OK has served every collector of its plan or lists it
\* among the failures, and has served at least one, whatever order the parts
\* landed in and whatever the pdf leg handed over.
OKMeansServed ==
  finish_started /\ finish_status = "OK" =>
    /\ \A c \in plan : Served(c) \/ c \in failures
    /\ \E c \in plan \cup {"cv"} : Served(c)

\* The reactor's buffer count, the pages it holds and the credits the
\* scheduler is owed are the same number while the client is there, so the
\* window is the exact buffer bound and a client that reads is never failed
\* for not reading (on_page, OnWriteDone, Ticket::release).
BufferMatchesCredits ==
  ~client_cancelled =>
    /\ buffered_pages = owed[Run]
    /\ buffered_pages = Cardinality(completed_pages) + Cardinality(CreditedIn(events))

\* A call that is over leaves no CV run working for it: the run has ended,
\* has been cancelled, or is being cancelled by the thread that submitted it.
NoOrphanRun ==
  finish_started /\ Scheduler!Live(Run) =>
    withdrawn[Run] \/ \E who \in {"process", "pdf"} : Submitted(who)

\* The in-flight charge of a call is held by exactly one owner, the reactor
\* or the shared buffer, until it is returned.
ChargeConserved ==
  /\ inflight = charged_bytes + buffer_charge
  /\ gone => charged_bytes = 0

\* Pages whose whole-document changes the repair event of c carries.
PageOf(e, c) == e.kind = "page" /\ (e.from = c \/ (e.from = "slice" /\ c # "leg"))

\* Events are in order. Pages recognized out of order, and pages the inspector
\* streamed before a CV run took over, come as 1, 2, 3, ...: none twice, none
\* missing in between (on_page's drain, on_streamed_page, run_pdf_route's
\* hand-over). A repair event comes once, after the last page it speaks of and
\* before its collector's Document. A complete event is the last one.
Ordered(s) ==
  /\ \A i \in DOMAIN s : OneAtATime(s[i]) => s[i].page = StreamedIn(s, i)
  /\ \A c \in Collectors, i \in DOMAIN s : s[i] = Repair(c) =>
       /\ \A j \in i + 1..Len(s) : s[j] # Repair(c) /\ ~PageOf(s[j], c)
       /\ \A j \in 1..i - 1 : s[j] # Document(c)
  /\ \A i \in DOMAIN s : s[i] = Complete => i = Len(s)

\* What the client reads is in order, and OK is only ever said after the
\* complete event (part_done).
WireInOrder == Ordered(wire) /\ (finish_started /\ finish_status = "OK" => Written(Complete))

\* Once the client has ended its side or is gone, the call ends and returns
\* its charge: no part, write, leg or run keeps it open for ever.
EveryCallEnds == (half_closed \/ ctx_cancelled) ~> (gone /\ inflight = 0)

\* Nothing is written once Finish has been called.
NoWriteAfterFinish == ~(finish_started /\ write_in_flight)
=============================================================================
