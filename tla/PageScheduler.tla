---------------------------- MODULE PageScheduler ----------------------------
(***************************************************************************)
(* The page scheduler of src/page_scheduler.cpp: documents are admitted,   *)
(* opened, cut into page jobs, and every page travels render -> inference  *)
(* -> assembly through bounded queues served by worker threads.  A         *)
(* document owns page_window credits; delivering a page keeps its credit   *)
(* until the consumer releases it through the Ticket.                      *)
(*                                                                         *)
(* One action is one lock-protected section or one atomic operation.  A    *)
(* thread is its program counter pc[t], the document job[t] and the page   *)
(* page[t] it holds.  The pixels and text of a page are abstracted: what   *)
(* the recognizer, the sources and the callbacks answer is a choice.       *)
(***************************************************************************)
EXTENDS Integers, Sequences, FiniteSets, Functions

CONSTANTS
  Docs, NoDoc,     \* documents a caller may submit, and none of them
  Openers, Renderers, Recognizers, Assemblers,   \* the worker threads
  MaxPage,         \* the largest page number (bound of the model)
  OpenSpans,       \* the <<first, last>> page spans a document may open to
  PageWindow, MaxActiveDocuments,
  DocumentCapacity, RenderCapacity, InferenceCapacity, AssemblyCapacity,
  Consumers,       \* the on_page answers: subset of {"accept", "release", "cancel"}
  MayThrow,        \* whether sources, models and callbacks may throw
  MayStop          \* whether the scheduler may be destroyed

Workers == Renderers \cup Recognizers \cup Assemblers
Threads == Openers \cup Workers
Pages   == 1..MaxPage
Jobs    == Docs \X Pages
Queues  == {"documents", "render", "inference", "assembly"}

ASSUME SchedulerAssumption ==
  /\ MaxPage \in Nat \ {0}
  /\ PageWindow \in Nat \ {0}
  /\ MaxActiveDocuments \in Nat \ {0}
  /\ DocumentCapacity \in Nat \ {0} /\ RenderCapacity \in Nat \ {0}
  /\ InferenceCapacity \in Nat \ {0} /\ AssemblyCapacity \in Nat \ {0}
  /\ OpenSpans \subseteq {s \in Pages \X Pages : s[1] <= s[2]}
  /\ Consumers \subseteq {"accept", "release", "cancel"}
  /\ MayThrow \in BOOLEAN /\ MayStop \in BOOLEAN
  /\ NoDoc \notin Docs

\* The threads of each role are different threads.
ASSUME ThreadAssumption ==
  /\ Openers \cap Workers = {}
  /\ Renderers \cap Recognizers = {}
  /\ Renderers \cap Assemblers = {}
  /\ Recognizers \cap Assemblers = {}
  /\ IsFiniteSet(Workers)

VARIABLES
  \* Ticket::State, one per document
  cancelled,           \* the atomic flag
  failure,             \* the first failure recorded, "none" without one
  source,              \* whether the PageSource is published
  source_cancelled,    \* whether PageSource::cancel() has been called
  first_page, total_pages, next_page, available_slots, remaining_pages,
  reschedule_pending, finish_called,
  ticket,              \* where the Ticket's caller is
  \* PageScheduler::Impl
  active_requests,     \* the registry of unfinished documents
  submitted,           \* documents whose submit() returned or threw
  documents, render, inference, assembly,  \* the four BoundedQueues
  space_waiters,       \* documents parked on a full render queue
  closed,              \* the queues close() has been called on
  pending_reschedules, waking, stopping,
  \* threads
  pc, job, page,
  waiters,             \* space waiters a render worker still has to run
  rs, rs_doc, rs_cut,  \* the rescheduler thread
  stop_pc, stop_todo, stop_doc,  \* the thread running stop()
  \* what the callbacks have seen
  announced,           \* on_document was called
  delivered,           \* pages on_page accepted
  owed,                \* accepted pages whose credit is not yet returned
  outcome              \* what on_finish was called with, "pending" before

admission == <<active_requests, submitted, documents>>
ties      == <<cancelled, failure, source, source_cancelled>>
span      == <<first_page, total_pages, next_page, available_slots>>
wakes     == <<reschedule_pending, waking>>
pipe      == <<render, inference, assembly, space_waiters>>
sched     == <<rs, rs_doc, rs_cut, pending_reschedules>>
workers   == <<pc, job, page, waiters>>
stopvars  == <<stopping, stop_pc, stop_todo, stop_doc, closed>>
seen      == <<announced, delivered, owed>>
finishes  == <<finish_called, outcome>>
vars == <<admission, ties, span, remaining_pages, wakes, pipe, sched, workers,
          stopvars, seen, finishes, ticket>>

Failures == {"none", "document", "queue_closed", "shutdown"}
\* Program counters of worker and opener threads.
ThreadPC == {"idle", "opening", "factory", "published", "probing", "sized",
             "announced", "settle", "notify", "held", "work", "rendered",
             "to_inference", "to_assembly",
             "credit", "wake", "fail", "fail_closed", "abort", "complete",
             "count", "exited"}

DocsTypeOK ==
  /\ cancelled \in [Docs -> BOOLEAN] /\ failure \in [Docs -> Failures]
  /\ source \in [Docs -> BOOLEAN] /\ source_cancelled \in [Docs -> BOOLEAN]
  /\ first_page \in [Docs -> 1..MaxPage] /\ total_pages \in [Docs -> 0..MaxPage]
  /\ next_page \in [Docs -> 1..MaxPage + 1]
  /\ available_slots \in [Docs -> 0..PageWindow]
  /\ remaining_pages \in [Docs -> Int]
  /\ reschedule_pending \in [Docs -> BOOLEAN] /\ finish_called \in [Docs -> BOOLEAN]
  /\ ticket \in [Docs -> {"idle", "wake", "abort", "wake_cancel", "closed"}]

QueuesTypeOK ==
  /\ active_requests \subseteq Docs /\ submitted \subseteq Docs
  /\ documents \in Seq(Docs)
  /\ render \in Seq(Jobs) /\ inference \in Seq(Jobs) /\ assembly \in Seq(Jobs)
  /\ space_waiters \subseteq Docs /\ closed \subseteq Queues
  /\ pending_reschedules \in Seq(Docs) /\ waking \subseteq Docs

ThreadsTypeOK ==
  /\ pc \in [Threads -> ThreadPC] /\ job \in [Threads -> Docs \cup {NoDoc}]
  /\ page \in [Threads -> 0..MaxPage] /\ waiters \in [Renderers -> SUBSET Docs]
  /\ rs \in {"wait", "clear", "enter", "push", "cut", "exited"}
  /\ rs_doc \in Docs \cup {NoDoc} /\ rs_cut \in 0..MaxPage
  /\ stop_pc \in {"run", "stopping", "render", "waiters", "assembly", "opening",
                  "fail", "abort", "abandon", "stopped"}
  /\ stop_todo \subseteq Docs /\ stop_doc \in Docs \cup {NoDoc} /\ stopping \in BOOLEAN

SeenTypeOK ==
  /\ announced \in [Docs -> BOOLEAN] /\ delivered \in [Docs -> SUBSET Pages]
  /\ owed \in [Docs -> Int]
  /\ outcome \in [Docs -> Failures \cup {"pending"}]

TypeOK == DocsTypeOK /\ QueuesTypeOK /\ ThreadsTypeOK /\ SeenTypeOK

Init ==
  /\ cancelled = [d \in Docs |-> FALSE] /\ failure = [d \in Docs |-> "none"]
  /\ source = [d \in Docs |-> FALSE] /\ source_cancelled = [d \in Docs |-> FALSE]
  /\ first_page = [d \in Docs |-> 1] /\ total_pages = [d \in Docs |-> 0]
  /\ next_page = [d \in Docs |-> 1] /\ available_slots = [d \in Docs |-> 0]
  /\ remaining_pages = [d \in Docs |-> 0]
  /\ reschedule_pending = [d \in Docs |-> FALSE] /\ finish_called = [d \in Docs |-> FALSE]
  /\ ticket = [d \in Docs |-> "idle"]
  /\ active_requests = {} /\ submitted = {}
  /\ documents = <<>> /\ render = <<>> /\ inference = <<>> /\ assembly = <<>>
  /\ space_waiters = {} /\ closed = {}
  /\ pending_reschedules = <<>> /\ waking = {} /\ stopping = FALSE
  /\ pc = [t \in Threads |-> "idle"] /\ job = [t \in Threads |-> NoDoc]
  /\ page = [t \in Threads |-> 0] /\ waiters = [t \in Renderers |-> {}]
  /\ rs = "wait" /\ rs_doc = NoDoc /\ rs_cut = 0
  /\ stop_pc = "run" /\ stop_todo = {} /\ stop_doc = NoDoc
  /\ announced = [d \in Docs |-> FALSE] /\ delivered = [d \in Docs |-> {}]
  /\ owed = [d \in Docs |-> 0]
  /\ outcome = [d \in Docs |-> "pending"]
-----------------------------------------------------------------------------
(* Pieces shared by several threads. *)

\* The rescheduler holds a document's schedule_mutex while it pushes pages.
ScheduleLocked(d) == rs = "push" /\ rs_doc = d

Goto(t, where) == pc' = [pc EXCEPT ![t] = where]

\* A thread drops the job it holds and goes back to its queue.
Drop(t) ==
  /\ Goto(t, "idle")
  /\ job' = [job EXCEPT ![t] = NoDoc]
  /\ page' = [page EXCEPT ![t] = 0]

\* queue_reschedule(): the exchange on reschedule_pending elects one caller,
\* which then pushes the document (EnqueueReschedule).
queue_reschedule(d) ==
  IF finish_called[d] \/ reschedule_pending[d]
  THEN UNCHANGED wakes
  ELSE /\ reschedule_pending' = [reschedule_pending EXCEPT ![d] = TRUE]
       /\ waking' = waking \cup {d}

\* The elected caller's critical section under reschedule_mutex_; stop() has
\* emptied the deque for good once stopping_ is set.
EnqueueReschedule(d) ==
  /\ d \in waking
  /\ waking' = waking \ {d}
  /\ pending_reschedules' = IF stopping THEN pending_reschedules
                            ELSE Append(pending_reschedules, d)
  /\ UNCHANGED <<admission, ties, span, remaining_pages, reschedule_pending, pipe, rs, rs_doc,
                 rs_cut, workers, stopvars, seen, finishes, ticket>>

\* Mutant: every caller finishes, not only the first.
finish_request_again(d, why) ==
  /\ finish_called' = [finish_called EXCEPT ![d] = TRUE]
  /\ active_requests' = active_requests \ {d}
  /\ outcome' = [outcome EXCEPT ![d] = why]

\* finish_request(): the first caller unregisters the document and runs
\* on_finish with the failure recorded by then.
finish_request(d, why) ==
  IF finish_called[d]
  THEN UNCHANGED <<finishes, active_requests>>
  ELSE /\ finish_called' = [finish_called EXCEPT ![d] = TRUE]
       /\ active_requests' = active_requests \ {d}
       /\ outcome' = [outcome EXCEPT ![d] = why]

\* Mutant: the document is taken for finished with one page still out.
CountDownEarly(d, n) ==
  /\ remaining_pages' = [remaining_pages EXCEPT ![d] = @ - n]
  /\ IF remaining_pages[d] <= n + 1 THEN finish_request(d, failure[d])
     ELSE UNCHANGED <<finishes, active_requests>>

\* remaining_pages.fetch_sub(n): whoever takes the last page finishes the
\* document.
CountDown(d, n) ==
  /\ remaining_pages' = [remaining_pages EXCEPT ![d] = @ - n]
  /\ IF remaining_pages[d] = n THEN finish_request(d, failure[d])
     ELSE UNCHANGED <<finishes, active_requests>>

\* The failure fail() leaves: the first one wins.
FirstFailure(d, why) == IF failure[d] = "none" THEN why ELSE failure[d]

\* State::fail() up to the cancelled flag; reaching the source is Abort.
Fail(d, why) ==
  /\ failure' = [failure EXCEPT ![d] = FirstFailure(d, why)]
  /\ cancelled' = [cancelled EXCEPT ![d] = TRUE]

\* The rest of State::cancel(): read the source under schedule_mutex, and
\* cancel it when there is one.
CancelSource(d) ==
  /\ ~ScheduleLocked(d)
  /\ source_cancelled' = [source_cancelled EXCEPT ![d] = @ \/ source[d]]

\* Mutant: the credit counts twice and past the window.
release_slots_twice(d, slots) ==
  available_slots' = [available_slots EXCEPT ![d] = @ + slots + slots]

\* State::release_slots(): the credit comes back, never past the window.
release_slots(d, slots) ==
  LET back == available_slots[d] + slots
  IN available_slots' = [available_slots EXCEPT ![d] = IF back < PageWindow THEN back
                                                       ELSE PageWindow]

\* fail(): an exception of the document's own, or a push on a closed queue.
ThreadFail(t) ==
  /\ \/ pc[t] = "fail" /\ Fail(job[t], "document")
     \/ pc[t] = "fail_closed" /\ Fail(job[t], "queue_closed")
  /\ Goto(t, "abort")
  /\ UNCHANGED <<admission, source, source_cancelled, span, remaining_pages, wakes, pipe, sched,
                 job, page, waiters, stopvars, seen, finishes, ticket>>

\* The rest of cancel(), reached from fail() or from a consumer that is gone.
ThreadAbort(t) ==
  /\ pc[t] = "abort"
  /\ CancelSource(job[t])
  /\ Goto(t, IF t \in Openers THEN "settle" ELSE "complete")
  /\ UNCHANGED <<admission, cancelled, failure, source, span, remaining_pages, wakes, pipe,
                 sched, job, page, waiters, stopvars, seen, finishes, ticket>>

-----------------------------------------------------------------------------
(* The caller: submit() and the Ticket. *)

\* submit(): admission registers the document before it is queued.  submit()
\* is not called on a scheduler that is being destroyed.
Submit(d) ==
  /\ stop_pc = "run" /\ d \notin submitted
  /\ submitted' = submitted \cup {d}
  /\ \/ /\ Cardinality(active_requests) < MaxActiveDocuments
        /\ Len(documents) < DocumentCapacity
        /\ active_requests' = active_requests \cup {d}
        /\ documents' = Append(documents, d)
     \/ /\ \/ Cardinality(active_requests) >= MaxActiveDocuments
           \/ Len(documents) >= DocumentCapacity      \* throws SchedulerSaturated
        /\ UNCHANGED <<active_requests, documents>>
  /\ UNCHANGED <<ties, span, remaining_pages, wakes, pipe, sched, workers, stopvars, seen,
                 finishes, ticket>>

\* Ticket::cancel(), first step.
TicketCancel(d) ==
  /\ d \in active_requests /\ ticket[d] = "idle"
  /\ cancelled' = [cancelled EXCEPT ![d] = TRUE]
  /\ ticket' = [ticket EXCEPT ![d] = "abort"]
  /\ UNCHANGED <<admission, failure, source, source_cancelled, span, remaining_pages, wakes,
                 pipe, sched, workers, stopvars, seen, finishes>>

TicketAbort(d) ==
  /\ ticket[d] = "abort"
  /\ CancelSource(d)
  /\ ticket' = [ticket EXCEPT ![d] = "wake_cancel"]
  /\ UNCHANGED <<admission, cancelled, failure, source, span, remaining_pages, wakes, pipe,
                 sched, workers, stopvars, seen, finishes>>

\* Ticket::release(): the consumer hands one page credit back.
TicketRelease(d) ==
  /\ ticket[d] = "idle"
  /\ owed[d] > Cardinality({t \in Assemblers : pc[t] = "credit" /\ job[t] = d})
  /\ ~ScheduleLocked(d)
  /\ owed' = [owed EXCEPT ![d] = @ - 1]
  /\ IF finish_called[d]
     THEN UNCHANGED <<span, ticket>>
     ELSE /\ release_slots(d, 1)
          /\ ticket' = [ticket EXCEPT ![d] = "wake"]
          /\ UNCHANGED <<first_page, total_pages, next_page>>
  /\ UNCHANGED <<admission, ties, remaining_pages, wakes, pipe, sched, workers, stopvars,
                 announced, delivered, finishes>>

\* wake_scheduler, the last call of Ticket::cancel() and Ticket::release().
TicketWake(d) ==
  /\ \/ ticket[d] = "wake" /\ ticket' = [ticket EXCEPT ![d] = "idle"]
     \/ ticket[d] = "wake_cancel" /\ ticket' = [ticket EXCEPT ![d] = "closed"]
  /\ queue_reschedule(d)
  /\ UNCHANGED <<admission, ties, span, remaining_pages, pipe, sched, workers, stopvars, seen,
                 finishes>>

-----------------------------------------------------------------------------
(* coordinate(): the opener threads. *)

\* documents_.pop(); closed and empty ends the thread.
OpenerPop(t) ==
  /\ pc[t] = "idle"
  /\ \/ /\ documents # <<>>
        /\ job' = [job EXCEPT ![t] = Head(documents)]
        /\ documents' = Tail(documents)
        /\ Goto(t, "opening")
     \/ /\ documents = <<>> /\ "documents" \in closed
        /\ Goto(t, "exited")
        /\ UNCHANGED <<job, documents>>
  /\ UNCHANGED <<active_requests, submitted, ties, span, remaining_pages, wakes, pipe, sched,
                 page, waiters, stopvars, seen, finishes, ticket>>

\* A document cancelled while it queued finishes unopened.
OpenerCheck(t) ==
  /\ pc[t] = "opening"
  /\ IF cancelled[job[t]]
     THEN finish_request(job[t], failure[job[t]]) /\ Drop(t)
     ELSE Goto(t, "factory") /\ UNCHANGED <<finishes, active_requests, job, page>>
  /\ UNCHANGED <<submitted, documents, ties, span, remaining_pages, wakes, pipe, sched, waiters,
                 stopvars, seen, ticket>>

\* The source factory: it throws, or its source is published before the
\* first backend call.
OpenerPublish(t) ==
  /\ pc[t] = "factory"
  /\ \/ /\ ~ScheduleLocked(job[t])
        /\ source' = [source EXCEPT ![job[t]] = TRUE]
        /\ Goto(t, "published")
     \/ MayThrow /\ Goto(t, "fail") /\ UNCHANGED source
  /\ UNCHANGED <<admission, cancelled, failure, source_cancelled, span, remaining_pages, wakes,
                 pipe, sched, job, page, waiters, stopvars, seen, finishes, ticket>>

\* Mutant: a cancel that ran before the publication is forgotten.
OpenerRecheckForgotten(t) ==
  /\ pc[t] = "published"
  /\ Goto(t, "probing")
  /\ UNCHANGED <<admission, ties, span, remaining_pages, wakes, pipe, sched, job, page, waiters,
                 stopvars, seen, finishes, ticket>>

\* A cancel that ran before the source was published is repeated on it.
OpenerRecheck(t) ==
  /\ pc[t] = "published"
  /\ source_cancelled' = [source_cancelled EXCEPT ![job[t]] = @ \/ cancelled[job[t]]]
  /\ Goto(t, "probing")
  /\ UNCHANGED <<admission, cancelled, failure, source, span, remaining_pages, wakes, pipe,
                 sched, job, page, waiters, stopvars, seen, finishes, ticket>>

\* source->page_count() answers and the span resolves (page_range included);
\* remaining_pages and the schedule fields are set together, as nothing else
\* touches them before total_pages is known.
OpenerSize(t) ==
  LET d == job[t]
  IN /\ pc[t] = "probing"
     /\ \/ \E s \in OpenSpans :
             /\ ~ScheduleLocked(d)
             /\ remaining_pages' = [remaining_pages EXCEPT ![d] = s[2] - s[1] + 1]
             /\ first_page' = [first_page EXCEPT ![d] = s[1]]
             /\ total_pages' = [total_pages EXCEPT ![d] = s[2]]
             /\ next_page' = [next_page EXCEPT ![d] = s[1]]
             /\ available_slots' = [available_slots EXCEPT ![d] = PageWindow]
             /\ Goto(t, "sized")
        \/ MayThrow /\ Goto(t, "fail") /\ UNCHANGED <<remaining_pages, span>>
     /\ UNCHANGED <<admission, ties, wakes, pipe, sched, job, page, waiters, stopvars, seen,
                    finishes, ticket>>

\* on_document(page_count), which may throw.
OpenerAnnounce(t) ==
  /\ pc[t] = "sized"
  /\ \/ /\ announced' = [announced EXCEPT ![job[t]] = TRUE]
        /\ Goto(t, "announced")
     \/ MayThrow /\ Goto(t, "fail") /\ UNCHANGED announced
  /\ UNCHANGED <<admission, ties, span, remaining_pages, wakes, pipe, sched, job, page, waiters,
                 stopvars, delivered, owed, finishes, ticket>>

\* The first wake of an opened document.
OpenerWake(t) ==
  /\ pc[t] = "announced"
  /\ queue_reschedule(job[t])
  /\ Drop(t)
  /\ UNCHANGED <<admission, ties, span, remaining_pages, pipe, sched, waiters, stopvars, seen,
                 finishes, ticket>>

\* The catch block: a document that failed before it was sized finishes
\* here; one that failed in on_document is left to the rescheduler.
OpenerSettle(t) ==
  LET d == job[t]
  IN /\ pc[t] = "settle"
     /\ IF remaining_pages[d] = 0
        THEN finish_request(d, failure[d]) /\ UNCHANGED wakes
        ELSE queue_reschedule(d) /\ UNCHANGED <<finishes, active_requests>>
     /\ Drop(t)
     /\ UNCHANGED <<submitted, documents, ties, span, remaining_pages, pipe, sched, waiters,
                    stopvars, seen, ticket>>

Opener(t) ==
  \/ OpenerPop(t) \/ OpenerCheck(t) \/ OpenerPublish(t) \/ OpenerRecheck(t)
  \/ OpenerSize(t) \/ OpenerAnnounce(t) \/ OpenerWake(t) \/ OpenerSettle(t)
  \/ ThreadFail(t) \/ ThreadAbort(t)

-----------------------------------------------------------------------------
(* reschedule_requests() and schedule_pages(): the one rescheduler thread. *)

\* The thread lets go of its document and waits for the next one.
RescheduleDone == rs' = "wait" /\ rs_doc' = NoDoc

RescheduleNext ==
  /\ rs = "wait"
  /\ IF stopping
     THEN rs' = "exited" /\ UNCHANGED <<rs_doc, pending_reschedules>>
     ELSE /\ pending_reschedules # <<>>
          /\ rs_doc' = Head(pending_reschedules)
          /\ pending_reschedules' = Tail(pending_reschedules)
          /\ rs' = "clear"
  /\ UNCHANGED <<admission, ties, span, remaining_pages, wakes, pipe, rs_cut, workers, stopvars,
                 seen, finishes, ticket>>

\* The pending mark clears before the document is looked at, so a wake that
\* arrives from here on is not lost.
RescheduleClear ==
  /\ rs = "clear"
  /\ reschedule_pending' = [reschedule_pending EXCEPT ![rs_doc] = FALSE]
  /\ rs' = "enter"
  /\ UNCHANGED <<admission, ties, span, remaining_pages, waking, pipe, rs_doc, rs_cut,
                 pending_reschedules, workers, stopvars, seen, finishes, ticket>>

\* schedule_pages() under schedule_mutex: an unopened document is left
\* alone, a cancelled one loses the pages it has not scheduled.
ScheduleEnter ==
  /\ rs = "enter"
  /\ IF ~source[rs_doc] \/ total_pages[rs_doc] <= 0
     THEN RescheduleDone /\ UNCHANGED <<next_page, rs_cut>>
     ELSE IF ~cancelled[rs_doc]
     THEN rs' = "push" /\ UNCHANGED <<rs_doc, next_page, rs_cut>>
     ELSE IF next_page[rs_doc] <= total_pages[rs_doc]
     THEN /\ rs' = "cut" /\ UNCHANGED rs_doc
          /\ rs_cut' = total_pages[rs_doc] - next_page[rs_doc] + 1
          /\ next_page' = [next_page EXCEPT ![rs_doc] = total_pages[rs_doc] + 1]
     ELSE RescheduleDone /\ UNCHANGED <<next_page, rs_cut>>
  /\ UNCHANGED <<admission, ties, first_page, total_pages, available_slots, remaining_pages,
                 wakes, pipe, pending_reschedules, workers, stopvars, seen, finishes, ticket>>

\* Mutant: the page enters the render queue without taking a credit.
PushPageUncounted(d) ==
  /\ render' = Append(render, <<d, next_page[d]>>)
  /\ next_page' = [next_page EXCEPT ![d] = @ + 1]
  /\ UNCHANGED available_slots

PushPage(d) ==
  /\ render' = Append(render, <<d, next_page[d]>>)
  /\ next_page' = [next_page EXCEPT ![d] = @ + 1]
  /\ available_slots' = [available_slots EXCEPT ![d] = @ - 1]

\* Mutant: a full render queue turns the page away and nobody remembers.
ParkForgotten(d) == UNCHANGED space_waiters

\* The on_space waiter try_push records on a full render queue.
Park(d) == space_waiters' = space_waiters \cup {d}

\* One turn of the scheduling loop, schedule_mutex held: the next page takes
\* a credit and a place in the render queue; a full queue parks the document
\* on the queue's space waiters.
SchedulePush ==
  /\ rs = "push"
  /\ IF available_slots[rs_doc] > 0 /\ next_page[rs_doc] <= total_pages[rs_doc]
     THEN \/ /\ "render" \notin closed /\ Len(render) < RenderCapacity
             /\ PushPage(rs_doc)
             /\ UNCHANGED <<rs, rs_doc, space_waiters>>
          \/ /\ "render" \notin closed /\ Len(render) >= RenderCapacity
             /\ Park(rs_doc)
             /\ RescheduleDone
             /\ UNCHANGED <<render, next_page, available_slots>>
          \/ /\ "render" \in closed
             /\ RescheduleDone
             /\ UNCHANGED <<render, space_waiters, next_page, available_slots>>
     ELSE RescheduleDone /\ UNCHANGED <<render, space_waiters, next_page, available_slots>>
  /\ UNCHANGED <<admission, ties, first_page, total_pages, remaining_pages, wakes, inference,
                 assembly, rs_cut, pending_reschedules, workers, stopvars, seen, finishes, ticket>>

\* The cut pages leave remaining_pages; the last of them finishes the document.
ScheduleCut ==
  /\ rs = "cut"
  /\ CountDown(rs_doc, rs_cut)
  /\ RescheduleDone /\ rs_cut' = 0
  /\ UNCHANGED <<submitted, documents, ties, span, wakes, pipe, pending_reschedules,
                 workers, stopvars, seen, ticket>>

Rescheduler ==
  RescheduleNext \/ RescheduleClear \/ ScheduleEnter \/ SchedulePush \/ ScheduleCut

-----------------------------------------------------------------------------
(* The page workers: render_pages(), recognize_pages(), assemble_pages(). *)

\* A worker takes the page job j off its queue.
Take(t, j) ==
  /\ job' = [job EXCEPT ![t] = j[1]]
  /\ page' = [page EXCEPT ![t] = j[2]]

\* render_.pop(): the freed place also takes the parked documents' waiters,
\* which this thread runs once it has let go of the queue.
RenderPop(t) ==
  /\ pc[t] = "idle"
  /\ \/ /\ render # <<>>
        /\ Take(t, Head(render))
        /\ render' = Tail(render)
        /\ waiters' = [waiters EXCEPT ![t] = space_waiters]
        /\ space_waiters' = {}
        /\ Goto(t, IF space_waiters = {} THEN "held" ELSE "notify")
     \/ /\ render = <<>> /\ "render" \in closed
        /\ Goto(t, "exited")
        /\ UNCHANGED <<job, page, render, waiters, space_waiters>>
  /\ UNCHANGED <<admission, ties, span, remaining_pages, wakes, inference, assembly, sched,
                 stopvars, seen, finishes, ticket>>

RenderNotify(t) ==
  /\ pc[t] = "notify"
  /\ \E d \in waiters[t] :
       /\ queue_reschedule(d)
       /\ waiters' = [waiters EXCEPT ![t] = @ \ {d}]
       /\ Goto(t, IF waiters[t] = {d} THEN "held" ELSE "notify")
  /\ UNCHANGED <<admission, ties, span, remaining_pages, pipe, sched, job, page, stopvars, seen,
                 finishes, ticket>>

RecognizePop(t) ==
  /\ pc[t] = "idle"
  /\ \/ /\ inference # <<>>
        /\ Take(t, Head(inference))
        /\ inference' = Tail(inference)
        /\ Goto(t, "held")
     \/ /\ inference = <<>> /\ "inference" \in closed
        /\ Goto(t, "exited")
        /\ UNCHANGED <<job, page, inference>>
  /\ UNCHANGED <<admission, ties, span, remaining_pages, wakes, render, assembly, space_waiters,
                 sched, waiters, stopvars, seen, finishes, ticket>>

AssemblePop(t) ==
  /\ pc[t] = "idle"
  /\ \/ /\ assembly # <<>>
        /\ Take(t, Head(assembly))
        /\ assembly' = Tail(assembly)
        /\ Goto(t, "held")
     \/ /\ assembly = <<>> /\ "assembly" \in closed
        /\ Goto(t, "exited")
        /\ UNCHANGED <<job, page, assembly>>
  /\ UNCHANGED <<admission, ties, span, remaining_pages, wakes, render, inference, space_waiters,
                 sched, waiters, stopvars, seen, finishes, ticket>>

\* A worker step that only moves its program counter.
Step(t, from, to) ==
  /\ pc[t] = from
  /\ Goto(t, to)
  /\ UNCHANGED <<admission, ties, span, remaining_pages, wakes, pipe, sched, job, page, waiters,
                 stopvars, seen, finishes, ticket>>

\* Every stage starts by dropping a page of a cancelled document.
CheckCancelled(t) == Step(t, "held", IF cancelled[job[t]] THEN "complete" ELSE "work")

\* The embedded text layer settles the page, or the page is rasterised; both
\* backend calls may throw.  A cancel seen after rendering drops the page.
RenderWork(t) ==
  \/ \E to \in {"to_assembly", "rendered"} : Step(t, "work", to)
  \/ MayThrow /\ Step(t, "work", "fail")
  \/ Step(t, "rendered", IF cancelled[job[t]] THEN "complete" ELSE "to_inference")

RecognizeWork(t) ==
  \/ Step(t, "work", "to_assembly")
  \/ MayThrow /\ Step(t, "work", "fail")

\* inference_.push(): waits for room, and gives up when the queue is closed.
PushInference(t) ==
  /\ pc[t] = "to_inference"
  /\ \/ /\ "inference" \notin closed /\ Len(inference) < InferenceCapacity
        /\ inference' = Append(inference, <<job[t], page[t]>>)
        /\ Drop(t)
     \/ /\ "inference" \in closed
        /\ Goto(t, "fail_closed")
        /\ UNCHANGED <<inference, job, page>>
  /\ UNCHANGED <<admission, ties, span, remaining_pages, wakes, render, assembly, space_waiters,
                 sched, waiters, stopvars, seen, finishes, ticket>>

\* enqueue_assembly()
PushAssembly(t) ==
  /\ pc[t] = "to_assembly"
  /\ \/ /\ "assembly" \notin closed /\ Len(assembly) < AssemblyCapacity
        /\ assembly' = Append(assembly, <<job[t], page[t]>>)
        /\ Drop(t)
     \/ /\ "assembly" \in closed
        /\ Goto(t, "fail_closed")
        /\ UNCHANGED <<assembly, job, page>>
  /\ UNCHANGED <<admission, ties, span, remaining_pages, wakes, render, inference, space_waiters,
                 sched, waiters, stopvars, seen, finishes, ticket>>

\* on_page(): the consumer takes the page and keeps or returns its credit,
\* or answers that it is gone, or throws.
Deliver(t) ==
  LET d == job[t]
  IN /\ pc[t] = "work"
     /\ \/ /\ Consumers \cap {"accept", "release"} # {}
           /\ delivered' = [delivered EXCEPT ![d] = @ \cup {page[t]}]
           /\ owed' = [owed EXCEPT ![d] = @ + 1]
           /\ \/ "accept" \in Consumers /\ Goto(t, "complete")
              \/ "release" \in Consumers /\ Goto(t, "credit")
           /\ UNCHANGED cancelled
        \/ /\ "cancel" \in Consumers
           /\ cancelled' = [cancelled EXCEPT ![d] = TRUE]
           /\ Goto(t, "abort")
           /\ UNCHANGED <<delivered, owed>>
        \/ /\ MayThrow /\ Goto(t, "fail")
           /\ UNCHANGED <<cancelled, delivered, owed>>
     /\ UNCHANGED <<admission, failure, source, source_cancelled, span, remaining_pages, wakes,
                    pipe, sched, job, page, waiters, stopvars, announced, finishes, ticket>>

\* kAcceptedAndRelease: the assembler returns the credit itself ...
ReturnCredit(t) ==
  LET d == job[t]
  IN /\ pc[t] = "credit" /\ ~ScheduleLocked(d)
     /\ release_slots(d, 1)
     /\ owed' = [owed EXCEPT ![d] = @ - 1]
     /\ Goto(t, "wake")
     /\ UNCHANGED <<admission, ties, first_page, total_pages, next_page, remaining_pages, wakes,
                    pipe, sched, job, page, waiters, stopvars, announced, delivered,
                    finishes, ticket>>

\* ... and wakes the scheduler.
WakeAfterCredit(t) ==
  /\ pc[t] = "wake"
  /\ queue_reschedule(job[t])
  /\ Goto(t, "complete")
  /\ UNCHANGED <<admission, ties, span, remaining_pages, pipe, sched, job, page, waiters,
                 stopvars, seen, finishes, ticket>>

-----------------------------------------------------------------------------
(* The end of every page: complete_page(). *)

\* Mutant: a cancelled document is not handed back to the rescheduler.
CompletePageSilent(t) ==
  /\ pc[t] = "complete"
  /\ Goto(t, "count")
  /\ UNCHANGED <<admission, ties, span, remaining_pages, wakes, pipe, sched, job, page, waiters,
                 stopvars, seen, finishes, ticket>>

\* complete_page(): the pages a cancelled document never scheduled are left
\* to the rescheduler ...
CompletePage(t) ==
  /\ pc[t] = "complete"
  /\ IF cancelled[job[t]] THEN queue_reschedule(job[t]) ELSE UNCHANGED wakes
  /\ Goto(t, "count")
  /\ UNCHANGED <<admission, ties, span, remaining_pages, pipe, sched, job, page, waiters,
                 stopvars, seen, finishes, ticket>>

\* ... and the page leaves remaining_pages; the last one finishes the document.
CountPage(t) ==
  LET d == job[t]
  IN /\ pc[t] = "count"
     /\ CountDown(d, 1)
     /\ Drop(t)
     /\ UNCHANGED <<submitted, documents, ties, span, wakes, pipe, sched, waiters, stopvars,
                    seen, ticket>>

PageTail(t) ==
  CheckCancelled(t) \/ ThreadFail(t) \/ ThreadAbort(t) \/ CompletePage(t) \/ CountPage(t)

Renderer(t) ==
  \/ RenderPop(t) \/ RenderNotify(t) \/ RenderWork(t) \/ PushInference(t) \/ PushAssembly(t)
  \/ PageTail(t)

Recognizer(t) == RecognizePop(t) \/ RecognizeWork(t) \/ PushAssembly(t) \/ PageTail(t)

Assembler(t) ==
  AssemblePop(t) \/ Deliver(t) \/ ReturnCredit(t) \/ WakeAfterCredit(t) \/ PageTail(t)

-----------------------------------------------------------------------------
(* stop(), run by the destructor. *)

\* One close() or flag of stop(), in the order of the code.
StopClose(queue, from, to) ==
  /\ stop_pc = from /\ stop_pc' = to
  /\ closed' = closed \cup {queue}
  /\ UNCHANGED <<stopping, stop_doc, admission, ties, span, remaining_pages, render, inference,
                 assembly, sched, workers, seen, finishes, ticket>>

StopDocuments ==
  /\ MayStop
  /\ StopClose("documents", "run", "stopping")
  /\ UNCHANGED <<stop_todo, wakes, space_waiters>>

\* stopping_ is set and the waiting wakes are dropped.
StopReschedule ==
  /\ stop_pc = "stopping" /\ stop_pc' = "render"
  /\ stopping' = TRUE
  /\ pending_reschedules' = <<>>
  /\ UNCHANGED <<stop_todo, stop_doc, closed, admission, ties, span, remaining_pages, wakes, pipe,
                 rs, rs_doc, rs_cut, workers, seen, finishes, ticket>>

\* render_.close() takes the parked documents' waiters and runs them.
StopRender ==
  /\ StopClose("render", "render", "waiters")
  /\ stop_todo' = space_waiters /\ space_waiters' = {}
  /\ UNCHANGED wakes

StopWaiter(d) ==
  /\ stop_pc = "waiters" /\ d \in stop_todo
  /\ queue_reschedule(d)
  /\ stop_todo' = stop_todo \ {d}
  /\ UNCHANGED <<stop_pc, stop_doc, stopping, closed, admission, ties, span, remaining_pages, pipe,
                 sched, workers, seen, finishes, ticket>>

StopInference ==
  /\ stop_todo = {}
  /\ StopClose("inference", "waiters", "assembly")
  /\ UNCHANGED <<stop_todo, wakes, space_waiters>>

\* assembly_.close(), and the snapshot of the documents still active.
StopAssembly ==
  /\ StopClose("assembly", "assembly", "opening")
  /\ stop_todo' = active_requests
  /\ UNCHANGED <<wakes, space_waiters>>

\* A document still opening is failed, which aborts its opening Probe.
StopExamine(d) ==
  /\ stop_pc = "opening" /\ d \in stop_todo /\ ~ScheduleLocked(d)
  /\ stop_todo' = stop_todo \ {d}
  /\ IF total_pages[d] = 0 THEN stop_pc' = "fail" /\ stop_doc' = d
     ELSE UNCHANGED <<stop_pc, stop_doc>>
  /\ UNCHANGED <<stopping, closed, admission, ties, span, remaining_pages, wakes, pipe, sched,
                 workers, seen, finishes, ticket>>

StopFail ==
  /\ stop_pc = "fail" /\ stop_pc' = "abort"
  /\ Fail(stop_doc, "shutdown")
  /\ UNCHANGED <<stopping, stop_todo, stop_doc, closed, admission, source, source_cancelled, span,
                 remaining_pages, wakes, pipe, sched, workers, seen, finishes, ticket>>

StopAbort ==
  /\ stop_pc = "abort" /\ stop_pc' = "opening"
  /\ CancelSource(stop_doc)
  /\ UNCHANGED <<stopping, stop_todo, stop_doc, closed, admission, cancelled, failure, source, span,
                 remaining_pages, wakes, pipe, sched, workers, seen, finishes, ticket>>

\* Every thread has been joined; what is left active is abandoned.
StopJoin ==
  /\ stop_pc = "opening" /\ stop_todo = {}
  /\ rs = "exited" /\ \A t \in Threads : pc[t] = "exited"
  /\ stop_pc' = "abandon" /\ stop_todo' = active_requests
  /\ UNCHANGED <<stopping, stop_doc, closed, admission, ties, span, remaining_pages, wakes, pipe,
                 sched, workers, seen, finishes, ticket>>

\* fail() and finish_request() of one abandoned document; only a Ticket can
\* still interleave, and it touches neither the failure nor the finish.
StopAbandon(d) ==
  /\ stop_pc = "abandon" /\ d \in stop_todo
  /\ stop_todo' = stop_todo \ {d}
  /\ Fail(d, "shutdown") /\ CancelSource(d)
  /\ finish_request(d, FirstFailure(d, "shutdown"))
  /\ UNCHANGED <<stop_pc, stop_doc, stopping, closed, submitted, documents, source, span,
                 remaining_pages, wakes, pipe, sched, workers, seen, ticket>>

StopDone ==
  /\ stop_pc = "abandon" /\ stop_todo = {}
  /\ stop_pc' = "stopped"
  /\ UNCHANGED <<stopping, stop_todo, stop_doc, closed, admission, ties, span, remaining_pages,
                 wakes, pipe, sched, workers, seen, finishes, ticket>>

Stop ==
  \/ StopReschedule \/ StopRender \/ StopInference \/ StopAssembly \/ StopFail \/ StopAbort
  \/ StopJoin \/ StopDone
  \/ \E d \in Docs : StopWaiter(d) \/ StopExamine(d) \/ StopAbandon(d)

-----------------------------------------------------------------------------
\* Nothing is left to do: every submitted document has finished.
Quiet ==
  /\ active_requests = {}
  /\ submitted = Docs \/ stop_pc = "stopped"
  /\ UNCHANGED vars

Next ==
  \/ \E d \in Docs : \/ Submit(d) \/ TicketCancel(d) \/ TicketAbort(d)
                      \/ TicketRelease(d) \/ TicketWake(d) \/ EnqueueReschedule(d)
  \/ \E t \in Openers : Opener(t)
  \/ Rescheduler
  \/ \E t \in Renderers : Renderer(t)
  \/ \E t \in Recognizers : Recognizer(t)
  \/ \E t \in Assemblers : Assembler(t)
  \/ StopDocuments \/ Stop
  \/ Quiet

Spec == Init /\ [][Next]_vars

\* Every thread keeps running: backend calls are bounded by deadlines, and a
\* consumer that took a page returns its credit once the page is written.
Fairness ==
  /\ \A d \in Docs : /\ WF_vars(EnqueueReschedule(d)) /\ WF_vars(TicketRelease(d))
                     /\ WF_vars(TicketAbort(d)) /\ WF_vars(TicketWake(d))
  /\ \A t \in Openers : WF_vars(Opener(t))
  /\ WF_vars(Rescheduler)
  /\ \A t \in Renderers : WF_vars(Renderer(t))
  /\ \A t \in Recognizers : WF_vars(Recognizer(t))
  /\ \A t \in Assemblers : WF_vars(Assembler(t))
  /\ WF_vars(Stop)

FairSpec == Spec /\ Fairness

-----------------------------------------------------------------------------
(* Properties *)

\* Pages of d in a stage queue.
Queued(q, d) == Cardinality({i \in 1..Len(q) : q[i][1] = d})
InQueues(d) == Queued(render, d) + Queued(inference, d) + Queued(assembly, d)
\* Worker threads holding a page of d at one of the program counters in pcs.
Holding(d, pcs) == Cardinality({t \in Workers : job[t] = d /\ pc[t] \in pcs})

\* Where a page is once on_page has accepted it.
AfterDelivery == {"credit", "wake", "complete", "count"}
BeforeDelivery == ThreadPC \ AfterDelivery

\* The places a page of d can be in while its thread is at one of pcs.
InFlight(d, pcs) == InQueues(d) + Holding(d, pcs)

\* Every page credit of a document that is not cancelled is in exactly one
\* place: free, on a page between the render queue and on_page, or owed by
\* the consumer.  A cancelled document may lose credits and never gains one,
\* so a consumer never holds more than page_window pages (release_slots,
\* schedule_pages, assemble_pages).
CreditConservation ==
  \A d \in Docs : total_pages[d] > 0 =>
    IF cancelled[d] \/ finish_called[d]
    THEN available_slots[d] + owed[d] <= PageWindow
    ELSE available_slots[d] + InFlight(d, BeforeDelivery) + owed[d] = PageWindow

\* Pages the rescheduler is giving up for a cancelled d.
Cutting(d) == IF rs = "cut" /\ rs_doc = d THEN rs_cut ELSE 0

\* remaining_pages counts exactly the pages that still have to end: not
\* scheduled yet, being cut, queued, or in a worker's hands; and a document
\* has finished exactly when none is left (until stop() abandons documents).
PagesAccounted ==
  \A d \in Docs : total_pages[d] > 0 =>
    /\ remaining_pages[d] =
         (total_pages[d] - next_page[d] + 1) + Cutting(d) + InFlight(d, ThreadPC)
    /\ stop_pc \notin {"abandon", "stopped"} => (finish_called[d] <=> remaining_pages[d] = 0)

\* The mark on d is in the hands of whoever will clear it.
Marked(d) ==
  /\ reschedule_pending[d]
  /\ d \in waking \/ (rs_doc = d /\ rs = "clear") \/ d \in Range(pending_reschedules)

\* Program counters of a worker that will still wake the document it holds.
Waking == {"fail", "fail_closed", "abort", "wake"}

\* d has a page to schedule, or pages to give up.
Wanting(d) ==
  /\ ~stopping /\ total_pages[d] > 0 /\ next_page[d] <= total_pages[d]
  /\ cancelled[d] \/ available_slots[d] > 0

\* Some thread will still run schedule_pages on d, or d is parked on a full
\* render queue whose next pop will.
WakeComing(d) ==
  \/ Marked(d)
  \/ rs_doc = d /\ rs \in {"enter", "push"}
  \/ d \in space_waiters /\ Len(render) = RenderCapacity
  \/ \E t \in Renderers : d \in waiters[t]
  \/ ticket[d] \in {"abort", "wake", "wake_cancel"}
  \/ \E t \in Openers : job[t] = d
  \/ \E t \in Workers : job[t] = d /\ (pc[t] \in Waking \/ (cancelled[d] /\ pc[t] = "complete"))

\* An open document that could schedule a page, or must give up the pages it
\* has not scheduled, is never forgotten: the pending mark, the space waiters
\* and the wakes of Ticket, openers and workers hand it over without a gap.
NoLostWakeup ==
  \A d \in active_requests : Wanting(d) => WakeComing(d)

\* A thread that is not waiting for work holds a document, and a worker one
\* of its pages.
HoldsJob ==
  /\ \A t \in Threads : pc[t] \notin {"idle", "exited"} =>
       job[t] \in Docs /\ (t \in Workers => page[t] \in Pages)
  /\ rs \notin {"wait", "exited"} => rs_doc \in Docs

\* Threads between setting cancelled and reaching the source.
Aborting(d) ==
  \/ ticket[d] = "abort"
  \/ \E t \in Threads : job[t] = d /\ pc[t] \in {"abort", "published"}
  \/ stop_pc = "abort" /\ stop_doc = d

\* A cancel is never lost between cancel() and coordinate(): once no thread
\* is on its way to the source, the published source of a cancelled document
\* has been cancelled, so an opening Probe is aborted whichever ran first.
CancelReachesSource ==
  \A d \in Docs : source[d] /\ cancelled[d] /\ ~Aborting(d) => source_cancelled[d]

\* Every admitted document is finished, whatever fails, cancels or stops.
EveryDocumentFinishes ==
  \A d \in Docs : d \in active_requests ~> finish_called[d]

-----------------------------------------------------------------------------
\* Refinement: what a caller of submit() sees of the scheduler.
Delivery == INSTANCE DocumentDelivery WITH
  Results   <- Failures,
  admitted  <- active_requests \cup {d \in Docs : finish_called[d]},
  withdrawn <- cancelled,
  failed    <- [d \in Docs |-> failure[d] # "none"],
  lo        <- first_page,
  hi        <- total_pages,
  taken     <- delivered,
  result    <- outcome

\* The threads, queues and wakes together keep the caller's promise: every
\* page at most once, after on_document, within page_window, none after
\* on_finish, and a clean finish only with the whole span delivered.
ImplementsDelivery == Delivery!DSpec
=============================================================================
