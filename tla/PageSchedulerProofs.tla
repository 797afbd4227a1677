------------------------ MODULE PageSchedulerProofs ------------------------
(***************************************************************************)
(* Facts about PageScheduler for every set of documents and threads, every *)
(* window and every queue capacity.  First its types and its cancellation: *)
(* TypeOK alone is not inductive, since what a worker appends to a queue   *)
(* is a page job only because a busy thread holds one (HoldsJob);          *)
(* CancelReachesSource is inductive on top of them.                        *)
(*                                                                         *)
(* Then the life of a document and of a wake: a document is queued, opened *)
(* and sized once, pages exist only of a sized document, a thread at rest  *)
(* holds nothing, and the pending mark, the space waiters and the wakes of *)
(* Ticket, openers and workers hand a document over without a gap.         *)
(***************************************************************************)
EXTENDS PageScheduler, SequenceTheorems, TLAPS

USE DEF admission, ties, span, wakes, pipe, sched, workers, stopvars, seen, finishes

\* What push and pop do to the type of a queue.
LEMMA QueueTypes ==
  ASSUME NEW S, NEW q \in Seq(S)
  PROVE  /\ \A e \in S : Append(q, e) \in Seq(S)
         /\ q # <<>> => Head(q) \in S /\ Tail(q) \in Seq(S)
BY HeadTailProperties, AppendProperties

\* A thread that lets go of its job is idle again.
LEMMA DropType ==
  ASSUME TypeOK, HoldsJob, NEW t \in Threads, Drop(t)
  PROVE  /\ pc' \in [Threads -> ThreadPC] /\ job' \in [Threads -> Docs \cup {NoDoc}]
         /\ page' \in [Threads -> 0..MaxPage]
         /\ \A u \in Threads : pc'[u] \notin {"idle", "exited"} =>
              job'[u] \in Docs /\ (u \in Workers => page'[u] \in Pages)
BY SchedulerAssumption DEF TypeOK, ThreadsTypeOK, HoldsJob, Drop, Goto, ThreadPC

\* A worker that takes a page job holds that page of that document.
LEMMA TakeType ==
  ASSUME ThreadsTypeOK, HoldsJob, NEW t \in Workers, NEW j \in Jobs, Take(t, j),
         NEW q \in ThreadPC, Goto(t, q)
  PROVE  /\ job' \in [Threads -> Docs \cup {NoDoc}]
         /\ page' \in [Threads -> 0..MaxPage]
         /\ pc' \in [Threads -> ThreadPC]
         /\ \A u \in Threads : pc'[u] \notin {"idle", "exited"} =>
              job'[u] \in Docs /\ (u \in Workers => page'[u] \in Pages)
<1>1. j[1] \in Docs /\ j[2] \in Pages /\ j[2] \in 0..MaxPage BY SchedulerAssumption DEF Jobs, Pages
<1>2. pc' \in [Threads -> ThreadPC] BY DEF ThreadsTypeOK, Goto
<1>3. job' \in [Threads -> Docs \cup {NoDoc}] BY <1>1 DEF ThreadsTypeOK, Take
<1>4. page' \in [Threads -> 0..MaxPage] BY <1>1 DEF ThreadsTypeOK, Take
<1>5. \A u \in Threads : pc'[u] \notin {"idle", "exited"} =>
              job'[u] \in Docs /\ (u \in Workers => page'[u] \in Pages)
   BY <1>1 DEF ThreadsTypeOK, Take, Goto, HoldsJob
<1> QED BY <1>2, <1>3, <1>4, <1>5

\* remaining_pages stays an integer and finish_called a flag.
LEMMA CountDownType ==
  ASSUME TypeOK, NEW d \in Docs, NEW n \in Int, CountDown(d, n)
  PROVE  remaining_pages' \in [Docs -> Int] /\ finish_called' \in [Docs -> BOOLEAN]
<1>1. remaining_pages' \in [Docs -> Int]
  <2>1. remaining_pages[d] - n \in Int BY DEF TypeOK, DocsTypeOK
  <2> QED BY <2>1 DEF TypeOK, DocsTypeOK, CountDown
<1>2. finish_called' \in [Docs -> BOOLEAN]
  BY DEF TypeOK, DocsTypeOK, CountDown, finish_request
<1> QED BY <1>1, <1>2

\* submit() and the Ticket keep the types: a credit handed back is clipped to
\* the window, a wake enqueued for a document of the model.
LEMMA CallerType ==
  ASSUME TypeOK, HoldsJob, NEW d \in Docs,
         Submit(d) \/ TicketCancel(d) \/ TicketAbort(d) \/ TicketRelease(d)
           \/ TicketWake(d) \/ EnqueueReschedule(d)
  PROVE  TypeOK' /\ HoldsJob'
<1>1. CASE Submit(d)
  <2>1. DocsTypeOK' BY <1>1 DEF TypeOK, DocsTypeOK, Submit
  <2>2. QueuesTypeOK' BY <1>1, QueueTypes DEF TypeOK, QueuesTypeOK, Submit
  <2>3. ThreadsTypeOK' BY <1>1 DEF TypeOK, ThreadsTypeOK, Submit
  <2>4. SeenTypeOK' BY <1>1 DEF TypeOK, SeenTypeOK, Submit
  <2>5. HoldsJob' BY <1>1 DEF HoldsJob, Submit
  <2> QED BY <2>1, <2>2, <2>3, <2>4, <2>5 DEF TypeOK
<1>2. CASE TicketCancel(d)
  <2>1. DocsTypeOK' BY <1>2 DEF TypeOK, DocsTypeOK, TicketCancel
  <2>2. QueuesTypeOK' BY <1>2 DEF TypeOK, QueuesTypeOK, TicketCancel
  <2>3. ThreadsTypeOK' BY <1>2 DEF TypeOK, ThreadsTypeOK, TicketCancel
  <2>4. SeenTypeOK' BY <1>2 DEF TypeOK, SeenTypeOK, TicketCancel
  <2>5. HoldsJob' BY <1>2 DEF HoldsJob, TicketCancel
  <2> QED BY <2>1, <2>2, <2>3, <2>4, <2>5 DEF TypeOK
<1>3. CASE TicketAbort(d)
  <2>1. DocsTypeOK' BY <1>3 DEF TypeOK, DocsTypeOK, TicketAbort, CancelSource
  <2>2. QueuesTypeOK' BY <1>3 DEF TypeOK, QueuesTypeOK, TicketAbort
  <2>3. ThreadsTypeOK' BY <1>3 DEF TypeOK, ThreadsTypeOK, TicketAbort
  <2>4. SeenTypeOK' BY <1>3 DEF TypeOK, SeenTypeOK, TicketAbort
  <2>5. HoldsJob' BY <1>3 DEF HoldsJob, TicketAbort
  <2> QED BY <2>1, <2>2, <2>3, <2>4, <2>5 DEF TypeOK
<1>4. CASE TicketRelease(d)
  <2>1. DocsTypeOK' BY <1>4, SchedulerAssumption DEF TypeOK, DocsTypeOK, TicketRelease,
       release_slots
  <2>2. QueuesTypeOK' BY <1>4 DEF TypeOK, QueuesTypeOK, TicketRelease
  <2>3. ThreadsTypeOK' BY <1>4 DEF TypeOK, ThreadsTypeOK, TicketRelease
  <2>4. SeenTypeOK' BY <1>4 DEF TypeOK, SeenTypeOK, TicketRelease
  <2>5. HoldsJob' BY <1>4 DEF HoldsJob, TicketRelease
  <2> QED BY <2>1, <2>2, <2>3, <2>4, <2>5 DEF TypeOK
<1>5. CASE TicketWake(d)
  <2>1. DocsTypeOK' BY <1>5 DEF TypeOK, DocsTypeOK, TicketWake, queue_reschedule
  <2>2. QueuesTypeOK' BY <1>5 DEF TypeOK, QueuesTypeOK, TicketWake, queue_reschedule
  <2>3. ThreadsTypeOK' BY <1>5 DEF TypeOK, ThreadsTypeOK, TicketWake
  <2>4. SeenTypeOK' BY <1>5 DEF TypeOK, SeenTypeOK, TicketWake
  <2>5. HoldsJob' BY <1>5 DEF HoldsJob, TicketWake
  <2> QED BY <2>1, <2>2, <2>3, <2>4, <2>5 DEF TypeOK
<1>6. CASE EnqueueReschedule(d)
  <2>1. DocsTypeOK' BY <1>6 DEF TypeOK, DocsTypeOK, EnqueueReschedule
  <2>2. QueuesTypeOK' BY <1>6, QueueTypes DEF TypeOK, QueuesTypeOK, EnqueueReschedule
  <2>3. ThreadsTypeOK' BY <1>6 DEF TypeOK, ThreadsTypeOK, EnqueueReschedule
  <2>4. SeenTypeOK' BY <1>6 DEF TypeOK, SeenTypeOK, EnqueueReschedule
  <2>5. HoldsJob' BY <1>6 DEF HoldsJob, EnqueueReschedule
  <2> QED BY <2>1, <2>2, <2>3, <2>4, <2>5 DEF TypeOK
<1> QED BY <1>1, <1>2, <1>3, <1>4, <1>5, <1>6

\* An opener that pops a document holds it from then on.
LEMMA OpenerPopType ==
  ASSUME TypeOK, HoldsJob, NEW t \in Openers, OpenerPop(t)
  PROVE  TypeOK' /\ HoldsJob'
<1> t \in Threads /\ t \notin Workers BY ThreadAssumption DEF Threads
<1>1. DocsTypeOK' BY DEF TypeOK, DocsTypeOK, OpenerPop
<1>2. SeenTypeOK' BY DEF TypeOK, SeenTypeOK, OpenerPop
<1>3. CASE documents # <<>>
  <2>1. Head(documents) \in Docs /\ Tail(documents) \in Seq(Docs)
    BY <1>3, QueueTypes DEF TypeOK, QueuesTypeOK
  <2>2. QueuesTypeOK' BY <1>3, <2>1 DEF TypeOK, QueuesTypeOK, OpenerPop
  <2>3. ThreadsTypeOK' BY ZenonT(40), <1>3, <2>1 DEF TypeOK, ThreadsTypeOK, OpenerPop, Goto, ThreadPC
  <2>4. HoldsJob' BY <1>3, <2>1 DEF TypeOK, ThreadsTypeOK, HoldsJob, OpenerPop, Goto
  <2> QED BY <1>1, <1>2, <2>2, <2>3, <2>4 DEF TypeOK
<1>4. CASE documents = <<>>
  <2>1. QueuesTypeOK' BY <1>4 DEF TypeOK, QueuesTypeOK, OpenerPop
  <2>2. ThreadsTypeOK' BY <1>4 DEF TypeOK, ThreadsTypeOK, OpenerPop, Goto, ThreadPC
  <2>3. HoldsJob' BY <1>4 DEF TypeOK, ThreadsTypeOK, HoldsJob, OpenerPop, Goto
  <2> QED BY <1>1, <1>2, <2>1, <2>2, <2>3 DEF TypeOK
<1> QED BY <1>3, <1>4

\* coordinate() keeps the types: the span it stores lies within the document,
\* the credits start at the window.
LEMMA OpenerType ==
  ASSUME TypeOK, HoldsJob, NEW t \in Openers,
         OpenerCheck(t) \/ OpenerPublish(t) \/ OpenerRecheck(t) \/ OpenerSize(t)
           \/ OpenerAnnounce(t) \/ OpenerWake(t) \/ OpenerSettle(t)
  PROVE  TypeOK' /\ HoldsJob'
<1> t \in Threads BY DEF Threads, Workers
<1>1. CASE OpenerCheck(t)
  <2>1. DocsTypeOK' BY <1>1 DEF TypeOK, DocsTypeOK, OpenerCheck, finish_request
  <2>2. QueuesTypeOK' BY <1>1 DEF TypeOK, QueuesTypeOK, OpenerCheck, finish_request
  <2>3. ThreadsTypeOK' BY <1>1, DropType DEF TypeOK, ThreadsTypeOK, OpenerCheck, Goto, ThreadPC
  <2>4. SeenTypeOK' BY <1>1 DEF TypeOK, SeenTypeOK, OpenerCheck, DocsTypeOK, finish_request
  <2>5. HoldsJob' BY <1>1, DropType DEF TypeOK, HoldsJob, OpenerCheck, ThreadsTypeOK, Goto
  <2> QED BY <2>1, <2>2, <2>3, <2>4, <2>5 DEF TypeOK
<1>2. CASE OpenerPublish(t)
  <2>1. DocsTypeOK' BY <1>2 DEF TypeOK, DocsTypeOK, OpenerPublish
  <2>2. QueuesTypeOK' BY <1>2 DEF TypeOK, QueuesTypeOK, OpenerPublish
  <2>3. ThreadsTypeOK' BY <1>2 DEF TypeOK, ThreadsTypeOK, OpenerPublish, Goto, ThreadPC
  <2>4. SeenTypeOK' BY <1>2 DEF TypeOK, SeenTypeOK, OpenerPublish
  <2>5. HoldsJob' BY <1>2 DEF TypeOK, HoldsJob, OpenerPublish, ThreadsTypeOK, Goto
  <2> QED BY <2>1, <2>2, <2>3, <2>4, <2>5 DEF TypeOK
<1>3. CASE OpenerRecheck(t)
  <2>1. DocsTypeOK' BY <1>3 DEF TypeOK, DocsTypeOK, OpenerRecheck
  <2>2. QueuesTypeOK' BY <1>3 DEF TypeOK, QueuesTypeOK, OpenerRecheck
  <2>3. ThreadsTypeOK' BY <1>3 DEF TypeOK, ThreadsTypeOK, OpenerRecheck, Goto, ThreadPC
  <2>4. SeenTypeOK' BY <1>3 DEF TypeOK, SeenTypeOK, OpenerRecheck
  <2>5. HoldsJob' BY <1>3 DEF TypeOK, HoldsJob, OpenerRecheck, ThreadsTypeOK, Goto
  <2> QED BY <2>1, <2>2, <2>3, <2>4, <2>5 DEF TypeOK
<1>4. CASE OpenerSize(t)
  <2>1. DocsTypeOK' BY <1>4, SchedulerAssumption DEF TypeOK, DocsTypeOK, OpenerSize, Pages
  <2>2. QueuesTypeOK' BY <1>4 DEF TypeOK, QueuesTypeOK, OpenerSize
  <2>3. ThreadsTypeOK' BY <1>4 DEF TypeOK, ThreadsTypeOK, OpenerSize, Goto, ThreadPC
  <2>4. SeenTypeOK' BY <1>4 DEF TypeOK, SeenTypeOK, OpenerSize
  <2>5. HoldsJob' BY <1>4 DEF TypeOK, HoldsJob, OpenerSize, ThreadsTypeOK, Goto
  <2> QED BY <2>1, <2>2, <2>3, <2>4, <2>5 DEF TypeOK
<1>5. CASE OpenerAnnounce(t)
  <2>1. DocsTypeOK' BY <1>5 DEF TypeOK, DocsTypeOK, OpenerAnnounce
  <2>2. QueuesTypeOK' BY <1>5 DEF TypeOK, QueuesTypeOK, OpenerAnnounce
  <2>3. ThreadsTypeOK' BY <1>5 DEF TypeOK, ThreadsTypeOK, OpenerAnnounce, Goto, ThreadPC
  <2>4. SeenTypeOK' BY <1>5 DEF TypeOK, SeenTypeOK, OpenerAnnounce
  <2>5. HoldsJob' BY <1>5 DEF TypeOK, HoldsJob, OpenerAnnounce, ThreadsTypeOK, Goto
  <2> QED BY <2>1, <2>2, <2>3, <2>4, <2>5 DEF TypeOK
<1>6. CASE OpenerWake(t)
  <2>1. DocsTypeOK' BY <1>6 DEF TypeOK, DocsTypeOK, OpenerWake, queue_reschedule
  <2>2. QueuesTypeOK' BY <1>6 DEF TypeOK, QueuesTypeOK, OpenerWake, HoldsJob, queue_reschedule
  <2>3. ThreadsTypeOK' BY <1>6, DropType DEF TypeOK, ThreadsTypeOK, OpenerWake
  <2>4. SeenTypeOK' BY <1>6 DEF TypeOK, SeenTypeOK, OpenerWake
  <2>5. HoldsJob' BY <1>6, DropType DEF HoldsJob, OpenerWake
  <2> QED BY <2>1, <2>2, <2>3, <2>4, <2>5 DEF TypeOK
<1>7. CASE OpenerSettle(t)
  <2>1. DocsTypeOK' BY <1>7 DEF TypeOK, DocsTypeOK, OpenerSettle, queue_reschedule,
       finish_request
  <2>2. QueuesTypeOK' BY <1>7 DEF TypeOK, QueuesTypeOK, OpenerSettle, HoldsJob,
       queue_reschedule, finish_request
  <2>3. ThreadsTypeOK' BY <1>7, DropType DEF TypeOK, ThreadsTypeOK, OpenerSettle
  <2>4. SeenTypeOK' BY <1>7 DEF TypeOK, SeenTypeOK, OpenerSettle, DocsTypeOK, finish_request
  <2>5. HoldsJob' BY <1>7, DropType DEF HoldsJob, OpenerSettle
  <2> QED BY <2>1, <2>2, <2>3, <2>4, <2>5 DEF TypeOK
<1> QED BY <1>1, <1>2, <1>3, <1>4, <1>5, <1>6, <1>7

\* State::fail() and State::cancel() on any thread keep the types.
LEMMA FailType ==
  ASSUME TypeOK, HoldsJob, NEW t \in Threads, ThreadFail(t) \/ ThreadAbort(t)
  PROVE  TypeOK' /\ HoldsJob'
<1> t \in Threads BY DEF Threads, Workers
<1>1. CASE ThreadFail(t)
  <2>1. DocsTypeOK'
    <3>1. PICK why \in Failures : Fail(job[t], why) BY <1>1 DEF ThreadFail, Failures
    <3>2. failure' \in [Docs -> Failures] BY <3>1 DEF TypeOK, DocsTypeOK, Fail, FirstFailure
    <3> QED BY <1>1, <3>1, <3>2 DEF TypeOK, DocsTypeOK, ThreadFail, Fail
  <2>2. QueuesTypeOK' BY <1>1 DEF TypeOK, QueuesTypeOK, ThreadFail
  <2>3. ThreadsTypeOK' BY <1>1 DEF TypeOK, ThreadsTypeOK, ThreadFail, Goto, ThreadPC
  <2>4. SeenTypeOK' BY <1>1 DEF TypeOK, SeenTypeOK, ThreadFail
  <2>5. HoldsJob' BY <1>1 DEF TypeOK, HoldsJob, ThreadFail, ThreadsTypeOK, Goto
  <2> QED BY <2>1, <2>2, <2>3, <2>4, <2>5 DEF TypeOK
<1>2. CASE ThreadAbort(t)
  <2>1. DocsTypeOK' BY <1>2 DEF TypeOK, DocsTypeOK, ThreadAbort, CancelSource
  <2>2. QueuesTypeOK' BY <1>2 DEF TypeOK, QueuesTypeOK, ThreadAbort
  <2>3. ThreadsTypeOK' BY <1>2 DEF TypeOK, ThreadsTypeOK, ThreadAbort, Goto, ThreadPC
  <2>4. SeenTypeOK' BY <1>2 DEF TypeOK, SeenTypeOK, ThreadAbort
  <2>5. HoldsJob' BY <1>2 DEF TypeOK, HoldsJob, ThreadAbort, ThreadsTypeOK, Goto
  <2> QED BY <2>1, <2>2, <2>3, <2>4, <2>5 DEF TypeOK
<1> QED BY <1>1, <1>2

\* schedule_pages() keeps the types when it looks at a document: what it cuts
\* is at most the span.
LEMMA ScheduleEnterType ==
  ASSUME TypeOK, HoldsJob, ScheduleEnter
  PROVE  TypeOK' /\ HoldsJob'
<1> rs_doc \in Docs BY DEF HoldsJob, ScheduleEnter
<1>1. DocsTypeOK' BY SchedulerAssumption DEF TypeOK, DocsTypeOK, ScheduleEnter
<1>2. QueuesTypeOK' BY DEF TypeOK, QueuesTypeOK, ScheduleEnter
<1>3. ThreadsTypeOK' BY SchedulerAssumption DEF TypeOK, DocsTypeOK, ThreadsTypeOK, ScheduleEnter, RescheduleDone
<1>4. SeenTypeOK' BY DEF TypeOK, SeenTypeOK, ScheduleEnter
<1>5. HoldsJob' BY DEF HoldsJob, ScheduleEnter, RescheduleDone
<1> QED BY <1>1, <1>2, <1>3, <1>4, <1>5 DEF TypeOK

\* schedule_pages() keeps the types when it queues a page: the page exists and
\* the credit was there.
LEMMA SchedulePushType ==
  ASSUME TypeOK, HoldsJob, SchedulePush
  PROVE  TypeOK' /\ HoldsJob'
<1> rs_doc \in Docs BY DEF HoldsJob, SchedulePush
<1>1. DocsTypeOK' /\ QueuesTypeOK'
  <2>1. CASE PushPage(rs_doc) /\ next_page[rs_doc] <= total_pages[rs_doc] /\ available_slots[rs_doc] > 0 /\ UNCHANGED space_waiters
    <3>1. <<rs_doc, next_page[rs_doc]>> \in Jobs
       BY <2>1, SchedulerAssumption DEF TypeOK, DocsTypeOK, Jobs, Pages
    <3>2. QueuesTypeOK' BY <2>1, <3>1, QueueTypes DEF TypeOK, QueuesTypeOK, SchedulePush, PushPage
    <3>3. /\ next_page[rs_doc] + 1 \in 1..MaxPage + 1
          /\ available_slots[rs_doc] - 1 \in 0..PageWindow
      BY <2>1, SchedulerAssumption DEF TypeOK, DocsTypeOK
    <3>4. /\ next_page' \in [Docs -> 1..MaxPage + 1]
          /\ available_slots' \in [Docs -> 0..PageWindow]
      BY <2>1, <3>3 DEF TypeOK, DocsTypeOK, PushPage
    <3>5. DocsTypeOK' BY <3>4 DEF TypeOK, DocsTypeOK, SchedulePush
    <3> QED BY <3>2, <3>5
  <2>2. CASE UNCHANGED <<render, next_page, available_slots>>
    <3>1. QueuesTypeOK' BY <2>2 DEF TypeOK, QueuesTypeOK, SchedulePush, PushPage, Park
    <3>2. DocsTypeOK' BY <2>2 DEF TypeOK, DocsTypeOK, SchedulePush
    <3> QED BY <3>1, <3>2
  <2> QED BY <2>1, <2>2 DEF SchedulePush
<1>3. ThreadsTypeOK' BY DEF TypeOK, ThreadsTypeOK, SchedulePush, RescheduleDone
<1>4. SeenTypeOK' BY DEF TypeOK, SeenTypeOK, SchedulePush
<1>5. HoldsJob' BY DEF HoldsJob, SchedulePush, RescheduleDone
<1> QED BY <1>1, <1>3, <1>4, <1>5 DEF TypeOK

\* The other steps of the rescheduler keep the types.
LEMMA ReschedulerType ==
  ASSUME TypeOK, HoldsJob, RescheduleNext \/ RescheduleClear \/ ScheduleCut
  PROVE  TypeOK' /\ HoldsJob'
<1>1. CASE RescheduleNext
  <2>1. DocsTypeOK' BY <1>1 DEF TypeOK, DocsTypeOK, RescheduleNext
  <2>2. QueuesTypeOK' BY <1>1, QueueTypes DEF TypeOK, QueuesTypeOK, RescheduleNext
  <2>3. ThreadsTypeOK' BY <1>1, QueueTypes DEF TypeOK, ThreadsTypeOK, RescheduleNext,
       QueuesTypeOK
  <2>4. SeenTypeOK' BY <1>1 DEF TypeOK, SeenTypeOK, RescheduleNext
  <2>5. HoldsJob' BY <1>1, QueueTypes DEF TypeOK, HoldsJob, RescheduleNext, QueuesTypeOK
  <2> QED BY <2>1, <2>2, <2>3, <2>4, <2>5 DEF TypeOK
<1>2. CASE RescheduleClear
  <2>1. DocsTypeOK' BY <1>2 DEF TypeOK, DocsTypeOK, RescheduleClear
  <2>2. QueuesTypeOK' BY <1>2 DEF TypeOK, QueuesTypeOK, RescheduleClear
  <2>3. ThreadsTypeOK' BY <1>2 DEF TypeOK, ThreadsTypeOK, RescheduleClear
  <2>4. SeenTypeOK' BY <1>2 DEF TypeOK, SeenTypeOK, RescheduleClear
  <2>5. HoldsJob' BY <1>2 DEF TypeOK, HoldsJob, RescheduleClear
  <2> QED BY <2>1, <2>2, <2>3, <2>4, <2>5 DEF TypeOK
<1>3. CASE ScheduleCut
  <2>1. DocsTypeOK'
    <3>1. rs_doc \in Docs /\ rs_cut \in Int BY <1>3 DEF TypeOK, ThreadsTypeOK, HoldsJob,
         ScheduleCut
    <3>2. remaining_pages' \in [Docs -> Int] /\ finish_called' \in [Docs -> BOOLEAN] BY <1>3,
         <3>1, CountDownType DEF ScheduleCut
    <3> QED BY <1>3, <3>2 DEF TypeOK, DocsTypeOK, ScheduleCut
  <2>2. QueuesTypeOK' BY <1>3 DEF TypeOK, QueuesTypeOK, ScheduleCut, CountDown, finish_request
  <2>3. ThreadsTypeOK' BY <1>3, SchedulerAssumption DEF TypeOK, ThreadsTypeOK, ScheduleCut,
       RescheduleDone
  <2>4. SeenTypeOK' BY <1>3 DEF TypeOK, SeenTypeOK, ScheduleCut, DocsTypeOK, CountDown,
       finish_request
  <2>5. HoldsJob' BY <1>3 DEF TypeOK, HoldsJob, ScheduleCut, RescheduleDone
  <2> QED BY <2>1, <2>2, <2>3, <2>4, <2>5 DEF TypeOK
<1> QED BY <1>1, <1>2, <1>3

\* A worker that pops a page job holds it from then on.
LEMMA PopType ==
  ASSUME TypeOK, HoldsJob, NEW t \in Workers, RecognizePop(t) \/ AssemblePop(t) \/ RenderPop(t)
  PROVE  TypeOK' /\ HoldsJob'
<1> t \in Threads BY DEF Threads
<1> "held" \in ThreadPC /\ "notify" \in ThreadPC BY DEF ThreadPC
<1>1. DocsTypeOK' BY DEF TypeOK, DocsTypeOK, RecognizePop, AssemblePop, RenderPop
<1>2. SeenTypeOK' BY DEF TypeOK, SeenTypeOK, RecognizePop, AssemblePop, RenderPop
<1>3. QueuesTypeOK'
  <2>1. CASE RenderPop(t)
    <3>1. render \in Seq(Jobs) BY DEF TypeOK, QueuesTypeOK
    <3>2. render # <<>> => Tail(render) \in Seq(Jobs) BY <3>1, QueueTypes
    <3>3. (render # <<>> /\ render' = Tail(render)) \/ render' = render BY <2>1 DEF RenderPop
    <3>4. render' \in Seq(Jobs) BY <3>1, <3>2, <3>3
    <3> QED BY <2>1, <3>4 DEF TypeOK, QueuesTypeOK, RenderPop
  <2>2. CASE RecognizePop(t) BY <2>2, QueueTypes DEF TypeOK, QueuesTypeOK, RecognizePop
  <2>3. CASE AssemblePop(t) BY <2>3, QueueTypes DEF TypeOK, QueuesTypeOK, AssemblePop
  <2> QED BY <2>1, <2>2, <2>3
<1>4. ThreadsTypeOK' /\ HoldsJob'
  <2>1. CASE \E j \in Jobs, q \in ThreadPC : Take(t, j) /\ Goto(t, q)
    <3>1. PICK j \in Jobs, q \in ThreadPC : Take(t, j) /\ Goto(t, q) BY <2>1
    <3>2. ThreadsTypeOK' BY ZenonT(40), <3>1, TakeType DEF TypeOK, QueuesTypeOK, ThreadsTypeOK, RecognizePop, AssemblePop, RenderPop
    <3>3. HoldsJob' BY <3>1, TakeType DEF TypeOK, HoldsJob, RecognizePop, AssemblePop, RenderPop
    <3> QED BY <3>2, <3>3
  <2>2. CASE Goto(t, "exited") /\ UNCHANGED <<job, page, waiters>>
    <3>2. ThreadsTypeOK' BY <2>2 DEF TypeOK, ThreadsTypeOK, RecognizePop, AssemblePop, RenderPop, Goto, ThreadPC
    <3>3. HoldsJob' BY <2>2 DEF TypeOK, ThreadsTypeOK, HoldsJob, RecognizePop, AssemblePop, RenderPop, Goto
    <3> QED BY <3>2, <3>3
  <2>3. QED BY <2>1, <2>2, QueueTypes DEF TypeOK, QueuesTypeOK, RecognizePop, AssemblePop, RenderPop
<1> QED BY <1>1, <1>2, <1>3, <1>4 DEF TypeOK

\* A worker that hands its page to the next queue queues a real page job.
LEMMA PushType ==
  ASSUME TypeOK, HoldsJob, NEW t \in Workers, PushInference(t) \/ PushAssembly(t)
  PROVE  TypeOK' /\ HoldsJob'
<1> t \in Threads BY DEF Threads
<1>1. DocsTypeOK' BY DEF TypeOK, DocsTypeOK, PushInference, PushAssembly
<1>2. SeenTypeOK' BY DEF TypeOK, SeenTypeOK, PushInference, PushAssembly
<1>3. <<job[t], page[t]>> \in Jobs BY DEF HoldsJob, PushInference, PushAssembly, Jobs
<1>4. QueuesTypeOK' BY <1>3, QueueTypes DEF TypeOK, QueuesTypeOK, PushInference, PushAssembly
<1>5. CASE Drop(t)
  <2>1. ThreadsTypeOK' BY <1>5, DropType DEF TypeOK, ThreadsTypeOK, PushInference, PushAssembly
  <2>2. HoldsJob' BY <1>5, DropType DEF HoldsJob, PushInference, PushAssembly
  <2> QED BY <1>1, <1>2, <1>4, <2>1, <2>2 DEF TypeOK
<1>6. CASE Goto(t, "fail_closed") /\ UNCHANGED <<job, page>>
  <2>1. ThreadsTypeOK' BY <1>6 DEF TypeOK, ThreadsTypeOK, PushInference, PushAssembly, Goto, ThreadPC
  <2>2. HoldsJob' BY <1>6 DEF TypeOK, ThreadsTypeOK, HoldsJob, PushInference, PushAssembly, Goto
  <2> QED BY <1>1, <1>2, <1>4, <2>1, <2>2 DEF TypeOK
<1> QED BY <1>5, <1>6 DEF PushInference, PushAssembly

\* The work of the three stages keeps the types.
LEMMA StageType ==
  ASSUME TypeOK, HoldsJob, NEW t \in Workers,
         \/ t \in Renderers /\ (RenderNotify(t) \/ RenderWork(t))
         \/ t \in Recognizers /\ RecognizeWork(t)
         \/ t \in Assemblers /\ (Deliver(t) \/ ReturnCredit(t) \/ WakeAfterCredit(t))
         \/ CheckCancelled(t) \/ CompletePage(t) \/ CountPage(t)
  PROVE  TypeOK' /\ HoldsJob'
<1> t \in Threads BY DEF Threads, Workers
<1>1. CASE RenderNotify(t) /\ t \in Renderers
  <2>1. DocsTypeOK' BY <1>1 DEF TypeOK, DocsTypeOK, RenderNotify, queue_reschedule
  <2>2. QueuesTypeOK' BY <1>1 DEF TypeOK, QueuesTypeOK, RenderNotify, ThreadsTypeOK,
       queue_reschedule
  <2>3. ThreadsTypeOK' BY <1>1 DEF TypeOK, ThreadsTypeOK, RenderNotify, Goto, ThreadPC
  <2>4. SeenTypeOK' BY <1>1 DEF TypeOK, SeenTypeOK, RenderNotify
  <2>5. HoldsJob' BY <1>1 DEF TypeOK, HoldsJob, RenderNotify, ThreadsTypeOK, Goto
  <2> QED BY <2>1, <2>2, <2>3, <2>4, <2>5 DEF TypeOK
<1>2. CASE RenderWork(t)
  <2>1. DocsTypeOK' BY <1>2 DEF TypeOK, DocsTypeOK, RenderWork, Step
  <2>2. QueuesTypeOK' BY <1>2 DEF TypeOK, QueuesTypeOK, RenderWork, Step
  <2>3. ThreadsTypeOK' BY <1>2 DEF TypeOK, ThreadsTypeOK, RenderWork, Step, Goto, ThreadPC
  <2>4. SeenTypeOK' BY <1>2 DEF TypeOK, SeenTypeOK, RenderWork, Step
  <2>5. HoldsJob' BY <1>2 DEF TypeOK, HoldsJob, RenderWork, Step, ThreadsTypeOK, Goto
  <2> QED BY <2>1, <2>2, <2>3, <2>4, <2>5 DEF TypeOK
<1>3. CASE RecognizeWork(t)
  <2>1. DocsTypeOK' BY <1>3 DEF TypeOK, DocsTypeOK, RecognizeWork, Step
  <2>2. QueuesTypeOK' BY <1>3 DEF TypeOK, QueuesTypeOK, RecognizeWork, Step
  <2>3. ThreadsTypeOK' BY <1>3 DEF TypeOK, ThreadsTypeOK, RecognizeWork, Step, Goto, ThreadPC
  <2>4. SeenTypeOK' BY <1>3 DEF TypeOK, SeenTypeOK, RecognizeWork, Step
  <2>5. HoldsJob' BY <1>3 DEF TypeOK, HoldsJob, RecognizeWork, Step, ThreadsTypeOK, Goto
  <2> QED BY <2>1, <2>2, <2>3, <2>4, <2>5 DEF TypeOK
<1>4. CASE Deliver(t)
  <2>1. job[t] \in Docs /\ page[t] \in Pages BY <1>4 DEF HoldsJob, Workers, Deliver
  <2>2. DocsTypeOK' BY <1>4 DEF TypeOK, DocsTypeOK, Deliver
  <2>3. QueuesTypeOK' BY <1>4 DEF TypeOK, QueuesTypeOK, Deliver
  <2>4. ThreadsTypeOK' BY <1>4 DEF TypeOK, ThreadsTypeOK, Deliver, Goto, ThreadPC
  <2>5. SeenTypeOK' BY <1>4, <2>1 DEF TypeOK, SeenTypeOK, Deliver
  <2>6. HoldsJob' BY <1>4 DEF TypeOK, HoldsJob, Deliver, ThreadsTypeOK, Goto
  <2> QED BY <2>2, <2>3, <2>4, <2>5, <2>6 DEF TypeOK
<1>5. CASE ReturnCredit(t)
  <2>1. job[t] \in Docs /\ page[t] \in Pages BY <1>5 DEF HoldsJob, Workers, ReturnCredit
  <2>2. DocsTypeOK' BY <1>5, SchedulerAssumption, <2>1 DEF TypeOK, DocsTypeOK, ReturnCredit,
       release_slots
  <2>3. QueuesTypeOK' BY <1>5 DEF TypeOK, QueuesTypeOK, ReturnCredit
  <2>4. ThreadsTypeOK' BY <1>5 DEF TypeOK, ThreadsTypeOK, ReturnCredit, Goto, ThreadPC
  <2>5. SeenTypeOK' BY <1>5, <2>1 DEF TypeOK, SeenTypeOK, ReturnCredit
  <2>6. HoldsJob' BY <1>5 DEF TypeOK, HoldsJob, ReturnCredit, ThreadsTypeOK, Goto
  <2> QED BY <2>2, <2>3, <2>4, <2>5, <2>6 DEF TypeOK
<1>6. CASE WakeAfterCredit(t)
  <2>1. DocsTypeOK' BY <1>6 DEF TypeOK, DocsTypeOK, WakeAfterCredit, queue_reschedule
  <2>2. QueuesTypeOK' BY <1>6 DEF TypeOK, QueuesTypeOK, WakeAfterCredit, HoldsJob,
       queue_reschedule
  <2>3. ThreadsTypeOK' BY <1>6 DEF TypeOK, ThreadsTypeOK, WakeAfterCredit, Goto, ThreadPC
  <2>4. SeenTypeOK' BY <1>6 DEF TypeOK, SeenTypeOK, WakeAfterCredit
  <2>5. HoldsJob' BY <1>6 DEF TypeOK, HoldsJob, WakeAfterCredit, ThreadsTypeOK, Goto
  <2> QED BY <2>1, <2>2, <2>3, <2>4, <2>5 DEF TypeOK
<1>7. CASE CheckCancelled(t)
  <2>1. DocsTypeOK' BY <1>7 DEF TypeOK, DocsTypeOK, CheckCancelled, Step
  <2>2. QueuesTypeOK' BY <1>7 DEF TypeOK, QueuesTypeOK, CheckCancelled, Step
  <2>3. ThreadsTypeOK' BY <1>7 DEF TypeOK, ThreadsTypeOK, CheckCancelled, Step, Goto, ThreadPC
  <2>4. SeenTypeOK' BY <1>7 DEF TypeOK, SeenTypeOK, CheckCancelled, Step
  <2>5. HoldsJob' BY <1>7 DEF TypeOK, HoldsJob, CheckCancelled, Step, ThreadsTypeOK, Goto
  <2> QED BY <2>1, <2>2, <2>3, <2>4, <2>5 DEF TypeOK
<1>8. CASE CompletePage(t)
  <2>1. DocsTypeOK' BY <1>8 DEF TypeOK, DocsTypeOK, CompletePage, queue_reschedule
  <2>2. QueuesTypeOK' BY SMTT(30), <1>8 DEF TypeOK, QueuesTypeOK, CompletePage, HoldsJob, queue_reschedule
  <2>3. ThreadsTypeOK' BY <1>8 DEF TypeOK, ThreadsTypeOK, CompletePage, Goto, ThreadPC
  <2>4. SeenTypeOK' BY <1>8 DEF TypeOK, SeenTypeOK, CompletePage
  <2>5. HoldsJob' BY <1>8 DEF TypeOK, HoldsJob, CompletePage, ThreadsTypeOK, Goto
  <2> QED BY <2>1, <2>2, <2>3, <2>4, <2>5 DEF TypeOK
<1>9. CASE CountPage(t)
  <2>1. DocsTypeOK'
    <3>1. job[t] \in Docs BY <1>9 DEF HoldsJob, CountPage
    <3>2. remaining_pages' \in [Docs -> Int] /\ finish_called' \in [Docs -> BOOLEAN] BY <1>9,
         <3>1, CountDownType DEF CountPage
    <3> QED BY <1>9, <3>2 DEF TypeOK, DocsTypeOK, CountPage
  <2>2. QueuesTypeOK' BY <1>9 DEF TypeOK, QueuesTypeOK, CountPage, CountDown, finish_request
  <2>3. ThreadsTypeOK' BY <1>9, DropType DEF TypeOK, ThreadsTypeOK, CountPage
  <2>4. SeenTypeOK' BY <1>9 DEF TypeOK, SeenTypeOK, CountPage, DocsTypeOK, CountDown,
       finish_request
  <2>5. HoldsJob' BY <1>9, DropType DEF HoldsJob, CountPage
  <2> QED BY <2>1, <2>2, <2>3, <2>4, <2>5 DEF TypeOK
<1> QED BY <1>1, <1>2, <1>3, <1>4, <1>5, <1>6, <1>7, <1>8, <1>9

\* The steps of stop() that concern no single document keep the types.
LEMMA StopType ==
  ASSUME TypeOK, HoldsJob,
         \/ StopDocuments \/ StopReschedule \/ StopRender \/ StopInference \/ StopAssembly
         \/ StopFail \/ StopAbort \/ StopJoin \/ StopDone
  PROVE  TypeOK' /\ HoldsJob'
<1>1. CASE StopDocuments
  <2>1. DocsTypeOK' BY <1>1 DEF TypeOK, DocsTypeOK, StopDocuments, StopClose
  <2>2. QueuesTypeOK' BY <1>1 DEF TypeOK, QueuesTypeOK, StopDocuments, StopClose, Queues
  <2>3. ThreadsTypeOK' BY <1>1 DEF TypeOK, ThreadsTypeOK, StopDocuments, StopClose
  <2>4. SeenTypeOK' BY <1>1 DEF TypeOK, SeenTypeOK, StopDocuments, StopClose
  <2>5. HoldsJob' BY <1>1 DEF HoldsJob, StopDocuments, StopClose
  <2> QED BY <2>1, <2>2, <2>3, <2>4, <2>5 DEF TypeOK
<1>2. CASE StopReschedule
  <2>1. DocsTypeOK' BY <1>2 DEF TypeOK, DocsTypeOK, StopReschedule
  <2>2. QueuesTypeOK' BY <1>2 DEF TypeOK, QueuesTypeOK, StopReschedule
  <2>3. ThreadsTypeOK' BY <1>2 DEF TypeOK, ThreadsTypeOK, StopReschedule
  <2>4. SeenTypeOK' BY <1>2 DEF TypeOK, SeenTypeOK, StopReschedule
  <2>5. HoldsJob' BY <1>2 DEF HoldsJob, StopReschedule
  <2> QED BY <2>1, <2>2, <2>3, <2>4, <2>5 DEF TypeOK
<1>3. CASE StopRender
  <2>1. DocsTypeOK' BY <1>3 DEF TypeOK, DocsTypeOK, StopRender, StopClose
  <2>2. QueuesTypeOK' BY <1>3 DEF TypeOK, QueuesTypeOK, StopRender, StopClose, Queues
  <2>3. ThreadsTypeOK' BY <1>3 DEF TypeOK, ThreadsTypeOK, StopRender, StopClose, QueuesTypeOK
  <2>4. SeenTypeOK' BY <1>3 DEF TypeOK, SeenTypeOK, StopRender, StopClose
  <2>5. HoldsJob' BY <1>3 DEF HoldsJob, StopRender, StopClose
  <2> QED BY <2>1, <2>2, <2>3, <2>4, <2>5 DEF TypeOK
<1>4. CASE StopInference
  <2>1. DocsTypeOK' BY <1>4 DEF TypeOK, DocsTypeOK, StopInference, StopClose
  <2>2. QueuesTypeOK' BY <1>4 DEF TypeOK, QueuesTypeOK, StopInference, StopClose, Queues
  <2>3. ThreadsTypeOK' BY <1>4 DEF TypeOK, ThreadsTypeOK, StopInference, StopClose
  <2>4. SeenTypeOK' BY <1>4 DEF TypeOK, SeenTypeOK, StopInference, StopClose
  <2>5. HoldsJob' BY <1>4 DEF HoldsJob, StopInference, StopClose
  <2> QED BY <2>1, <2>2, <2>3, <2>4, <2>5 DEF TypeOK
<1>5. CASE StopAssembly
  <2>1. DocsTypeOK' BY <1>5 DEF TypeOK, DocsTypeOK, StopAssembly, StopClose
  <2>2. QueuesTypeOK' BY <1>5 DEF TypeOK, QueuesTypeOK, StopAssembly, StopClose, Queues
  <2>3. ThreadsTypeOK' BY <1>5 DEF TypeOK, ThreadsTypeOK, StopAssembly, StopClose, QueuesTypeOK
  <2>4. SeenTypeOK' BY <1>5 DEF TypeOK, SeenTypeOK, StopAssembly, StopClose
  <2>5. HoldsJob' BY <1>5 DEF HoldsJob, StopAssembly, StopClose
  <2> QED BY <2>1, <2>2, <2>3, <2>4, <2>5 DEF TypeOK
<1>6. CASE StopFail
  <2>1. DocsTypeOK' BY <1>6 DEF TypeOK, DocsTypeOK, StopFail, Fail, FirstFailure, Failures
  <2>2. QueuesTypeOK' BY <1>6 DEF TypeOK, QueuesTypeOK, StopFail
  <2>3. ThreadsTypeOK' BY <1>6 DEF TypeOK, ThreadsTypeOK, StopFail
  <2>4. SeenTypeOK' BY <1>6 DEF TypeOK, SeenTypeOK, StopFail
  <2>5. HoldsJob' BY <1>6 DEF HoldsJob, StopFail
  <2> QED BY <2>1, <2>2, <2>3, <2>4, <2>5 DEF TypeOK
<1>7. CASE StopAbort
  <2>1. DocsTypeOK' BY <1>7 DEF TypeOK, DocsTypeOK, StopAbort, CancelSource
  <2>2. QueuesTypeOK' BY <1>7 DEF TypeOK, QueuesTypeOK, StopAbort
  <2>3. ThreadsTypeOK' BY <1>7 DEF TypeOK, ThreadsTypeOK, StopAbort
  <2>4. SeenTypeOK' BY <1>7 DEF TypeOK, SeenTypeOK, StopAbort
  <2>5. HoldsJob' BY <1>7 DEF HoldsJob, StopAbort
  <2> QED BY <2>1, <2>2, <2>3, <2>4, <2>5 DEF TypeOK
<1>8. CASE StopJoin
  <2>1. DocsTypeOK' BY <1>8 DEF TypeOK, DocsTypeOK, StopJoin
  <2>2. QueuesTypeOK' BY <1>8 DEF TypeOK, QueuesTypeOK, StopJoin
  <2>3. ThreadsTypeOK' BY <1>8 DEF TypeOK, ThreadsTypeOK, StopJoin, QueuesTypeOK
  <2>4. SeenTypeOK' BY <1>8 DEF TypeOK, SeenTypeOK, StopJoin
  <2>5. HoldsJob' BY <1>8 DEF HoldsJob, StopJoin
  <2> QED BY <2>1, <2>2, <2>3, <2>4, <2>5 DEF TypeOK
<1>9. CASE StopDone
  <2>1. DocsTypeOK' BY <1>9 DEF TypeOK, DocsTypeOK, StopDone
  <2>2. QueuesTypeOK' BY <1>9 DEF TypeOK, QueuesTypeOK, StopDone
  <2>3. ThreadsTypeOK' BY <1>9 DEF TypeOK, ThreadsTypeOK, StopDone
  <2>4. SeenTypeOK' BY <1>9 DEF TypeOK, SeenTypeOK, StopDone
  <2>5. HoldsJob' BY <1>9 DEF HoldsJob, StopDone
  <2> QED BY <2>1, <2>2, <2>3, <2>4, <2>5 DEF TypeOK
<1> QED BY <1>1, <1>2, <1>3, <1>4, <1>5, <1>6, <1>7, <1>8, <1>9

\* What stop() does to one document keeps the types.
LEMMA StopDocumentType ==
  ASSUME TypeOK, HoldsJob, NEW d \in Docs, StopWaiter(d) \/ StopExamine(d) \/ StopAbandon(d)
  PROVE  TypeOK' /\ HoldsJob'
<1>1. CASE StopWaiter(d)
  <2>1. DocsTypeOK' BY <1>1 DEF TypeOK, DocsTypeOK, StopWaiter, queue_reschedule
  <2>2. QueuesTypeOK' BY <1>1 DEF TypeOK, QueuesTypeOK, StopWaiter, queue_reschedule
  <2>3. ThreadsTypeOK' BY <1>1 DEF TypeOK, ThreadsTypeOK, StopWaiter
  <2>4. SeenTypeOK' BY <1>1 DEF TypeOK, SeenTypeOK, StopWaiter
  <2>5. HoldsJob' BY <1>1 DEF HoldsJob, StopWaiter
  <2> QED BY <2>1, <2>2, <2>3, <2>4, <2>5 DEF TypeOK
<1>2. CASE StopExamine(d)
  <2>1. DocsTypeOK' BY <1>2 DEF TypeOK, DocsTypeOK, StopExamine
  <2>2. QueuesTypeOK' BY <1>2 DEF TypeOK, QueuesTypeOK, StopExamine
  <2>3. ThreadsTypeOK' BY <1>2 DEF TypeOK, ThreadsTypeOK, StopExamine
  <2>4. SeenTypeOK' BY <1>2 DEF TypeOK, SeenTypeOK, StopExamine
  <2>5. HoldsJob' BY <1>2 DEF HoldsJob, StopExamine
  <2> QED BY <2>1, <2>2, <2>3, <2>4, <2>5 DEF TypeOK
<1>3. CASE StopAbandon(d)
  <2>1. DocsTypeOK' BY <1>3 DEF TypeOK, DocsTypeOK, StopAbandon, Fail, FirstFailure, Failures,
       CancelSource, finish_request
  <2>2. QueuesTypeOK' BY <1>3 DEF TypeOK, QueuesTypeOK, StopAbandon, finish_request
  <2>3. ThreadsTypeOK' BY <1>3 DEF TypeOK, ThreadsTypeOK, StopAbandon
  <2>4. SeenTypeOK' BY <1>3 DEF TypeOK, SeenTypeOK, StopAbandon, DocsTypeOK, FirstFailure,
       Failures, finish_request
  <2>5. HoldsJob' BY <1>3 DEF HoldsJob, StopAbandon
  <2> QED BY <2>1, <2>2, <2>3, <2>4, <2>5 DEF TypeOK
<1> QED BY <1>1, <1>2, <1>3

\* Every step of the scheduler keeps the types and the held jobs.
LEMMA TypeStep ==
  ASSUME TypeOK, HoldsJob, [Next]_vars
  PROVE  TypeOK' /\ HoldsJob'
<1>1. ASSUME NEW d \in Docs,
             Submit(d) \/ TicketCancel(d) \/ TicketAbort(d) \/ TicketRelease(d)
               \/ TicketWake(d) \/ EnqueueReschedule(d)
      PROVE  TypeOK' /\ HoldsJob'
  BY <1>1, CallerType
<1>2. ASSUME NEW t \in Openers, Opener(t) PROVE TypeOK' /\ HoldsJob'
  BY <1>2, OpenerPopType, OpenerType, FailType DEF Opener, Threads
<1>3. CASE Rescheduler
  BY <1>3, ReschedulerType, ScheduleEnterType, SchedulePushType DEF Rescheduler
<1>4. ASSUME NEW t \in Renderers, Renderer(t) PROVE TypeOK' /\ HoldsJob'
  BY <1>4, PopType, PushType, StageType, FailType DEF Renderer, PageTail, Threads, Workers
<1>5. ASSUME NEW t \in Recognizers, Recognizer(t) PROVE TypeOK' /\ HoldsJob'
  BY <1>5, PopType, PushType, StageType, FailType DEF Recognizer, PageTail, Threads, Workers
<1>6. ASSUME NEW t \in Assemblers, Assembler(t) PROVE TypeOK' /\ HoldsJob'
  BY <1>6, PopType, StageType, FailType DEF Assembler, PageTail, Threads, Workers
<1>7. CASE StopDocuments \/ Stop
  BY <1>7, StopType, StopDocumentType DEF Stop
<1>8. CASE UNCHANGED vars
  BY <1>8 DEF TypeOK, DocsTypeOK, QueuesTypeOK, ThreadsTypeOK, SeenTypeOK, HoldsJob, vars
<1> QED BY <1>1, <1>2, <1>3, <1>4, <1>5, <1>6, <1>7, <1>8 DEF Next, Quiet

\* The initial state has the types.
LEMMA TypeInit == Init => TypeOK /\ HoldsJob
<1> SUFFICES ASSUME Init PROVE TypeOK /\ HoldsJob OBVIOUS
<1>1. DocsTypeOK BY SchedulerAssumption DEF Init, DocsTypeOK, Failures
<1>2. QueuesTypeOK BY DEF Init, QueuesTypeOK
<1>3. ThreadsTypeOK
  <2>1. 0 \in 0..MaxPage /\ "idle" \in ThreadPC BY SchedulerAssumption DEF ThreadPC
  <2>2. pc \in [Threads -> ThreadPC] /\ job \in [Threads -> Docs \cup {NoDoc}] BY <2>1 DEF Init
  <2>3. page \in [Threads -> 0..MaxPage] /\ waiters \in [Renderers -> SUBSET Docs]
    BY <2>1 DEF Init
  <2> QED BY <2>1, <2>2, <2>3 DEF Init, ThreadsTypeOK
<1>4. SeenTypeOK BY DEF Init, SeenTypeOK
<1>5. HoldsJob BY DEF Init, HoldsJob
<1> QED BY <1>1, <1>2, <1>3, <1>4, <1>5 DEF TypeOK

\* The state of the scheduler always has its types, and every thread at work
\* holds a document and a page of it.
THEOREM TypeCorrect == Spec => [](TypeOK /\ HoldsJob)
<1>1. Init => TypeOK /\ HoldsJob BY TypeInit
<1>2. TypeOK /\ HoldsJob /\ [Next]_vars => (TypeOK /\ HoldsJob)' BY TypeStep
<1> QED BY <1>1, <1>2, PTL DEF Spec

\* Ticket::cancel() sets the flag and only then reads the source: until it has,
\* the caller is on its way.
LEMMA CallerCancel ==
  ASSUME TypeOK, HoldsJob, CancelReachesSource, NEW x \in Docs,
         Submit(x) \/ TicketCancel(x) \/ TicketAbort(x) \/ TicketRelease(x)
           \/ TicketWake(x) \/ EnqueueReschedule(x)
  PROVE  CancelReachesSource'
<1> USE DEF TypeOK, DocsTypeOK, ThreadsTypeOK, HoldsJob, CancelReachesSource, Aborting
<1>1. CASE Submit(x) BY <1>1 DEF Submit
<1>2. CASE TicketCancel(x) BY <1>2 DEF TicketCancel
<1>3. CASE TicketAbort(x) BY <1>3 DEF TicketAbort, CancelSource
<1>4. CASE TicketRelease(x) BY <1>4 DEF TicketRelease
<1>5. CASE TicketWake(x) BY <1>5 DEF TicketWake
<1>6. CASE EnqueueReschedule(x) BY <1>6 DEF EnqueueReschedule
<1> QED BY <1>1, <1>2, <1>3, <1>4, <1>5, <1>6

\* An opener publishes the source and only then reads the flag: until it has,
\* the opener is on its way.
LEMMA OpenerCancel ==
  ASSUME TypeOK, HoldsJob, CancelReachesSource, NEW t \in Openers,
         OpenerPop(t) \/ OpenerCheck(t) \/ OpenerPublish(t) \/ OpenerRecheck(t)
           \/ OpenerSize(t) \/ OpenerAnnounce(t) \/ OpenerWake(t) \/ OpenerSettle(t)
  PROVE  CancelReachesSource'
<1> USE DEF TypeOK, DocsTypeOK, ThreadsTypeOK, HoldsJob, CancelReachesSource, Aborting
<1> t \in Threads BY DEF Threads, Workers
<1>1. CASE OpenerPop(t) BY <1>1 DEF OpenerPop, Goto
<1>2. CASE OpenerCheck(t) BY <1>2 DEF OpenerCheck, Drop, Goto
<1>3. CASE OpenerPublish(t) BY <1>3 DEF OpenerPublish, Goto
<1>4. CASE OpenerRecheck(t) BY <1>4 DEF OpenerRecheck, Goto
<1>5. CASE OpenerSize(t) BY <1>5 DEF OpenerSize, Goto
<1>6. CASE OpenerAnnounce(t) BY <1>6 DEF OpenerAnnounce, Goto
<1>7. CASE OpenerWake(t) BY <1>7 DEF OpenerWake, Drop, Goto
<1>8. CASE OpenerSettle(t) BY <1>8 DEF OpenerSettle, Drop, Goto
<1> QED BY <1>1, <1>2, <1>3, <1>4, <1>5, <1>6, <1>7, <1>8

\* fail() and cancel() on any thread behave like Ticket::cancel().
LEMMA FailCancel ==
  ASSUME TypeOK, HoldsJob, CancelReachesSource, NEW t \in Threads,
         ThreadFail(t) \/ ThreadAbort(t)
  PROVE  CancelReachesSource'
<1> USE DEF TypeOK, DocsTypeOK, ThreadsTypeOK, HoldsJob, CancelReachesSource, Aborting
<1>1. CASE ThreadFail(t) BY <1>1 DEF ThreadFail, Goto, Fail
<1>2. CASE ThreadAbort(t) BY <1>2 DEF ThreadAbort, Goto, CancelSource
<1> QED BY <1>1, <1>2

\* A worker that is told its consumer is gone is on its way to the source; no
\* other work of a stage touches the flag or the source.
LEMMA StageCancel ==
  ASSUME TypeOK, HoldsJob, CancelReachesSource, NEW t \in Workers,
         RenderPop(t) \/ RenderNotify(t) \/ RenderWork(t) \/ RecognizePop(t)
           \/ RecognizeWork(t) \/ AssemblePop(t) \/ Deliver(t) \/ ReturnCredit(t)
           \/ WakeAfterCredit(t) \/ CheckCancelled(t) \/ CompletePage(t) \/ CountPage(t)
           \/ PushInference(t) \/ PushAssembly(t)
  PROVE  CancelReachesSource'
<1> USE DEF TypeOK, DocsTypeOK, ThreadsTypeOK, HoldsJob, CancelReachesSource, Aborting
<1> t \in Threads BY DEF Threads, Workers
<1>1. CASE RenderPop(t) BY ZenonT(40), <1>1 DEF RenderPop, Goto, Take
<1>2. CASE RenderNotify(t) BY <1>2 DEF RenderNotify, Goto
<1>3. CASE RenderWork(t) BY <1>3 DEF RenderWork, Goto, Step
<1>4. CASE RecognizePop(t) BY ZenonT(90), <1>4 DEF RecognizePop, Goto, Take
<1>5. CASE RecognizeWork(t) BY <1>5 DEF RecognizeWork, Goto, Step
<1>6. CASE AssemblePop(t) BY <1>6 DEF AssemblePop, Goto, Take
<1>7. CASE Deliver(t) BY <1>7 DEF Deliver, Goto
<1>8. CASE ReturnCredit(t) BY <1>8 DEF ReturnCredit, Goto
<1>9. CASE WakeAfterCredit(t) BY <1>9 DEF WakeAfterCredit, Goto
<1>10. CASE CheckCancelled(t) BY <1>10 DEF CheckCancelled, Goto, Step
<1>11. CASE CompletePage(t) BY <1>11 DEF CompletePage, Goto
<1>12. CASE CountPage(t) BY <1>12 DEF CountPage, Drop, Goto
<1>13. CASE PushInference(t) BY ZenonT(40), <1>13 DEF PushInference, Drop, Goto
<1>14. CASE PushAssembly(t) BY ZenonT(40), <1>14 DEF PushAssembly, Drop, Goto
<1> QED BY <1>1, <1>2, <1>3, <1>4, <1>5, <1>6, <1>7, <1>8, <1>9, <1>10, <1>11, <1>12, <1>13, <1>14

\* The rescheduler touches neither the flag nor the source.
LEMMA ReschedulerCancel ==
  ASSUME TypeOK, HoldsJob, CancelReachesSource,
         RescheduleNext \/ RescheduleClear \/ ScheduleEnter \/ SchedulePush \/ ScheduleCut
  PROVE  CancelReachesSource'
<1> USE DEF TypeOK, DocsTypeOK, ThreadsTypeOK, HoldsJob, CancelReachesSource, Aborting
<1>1. CASE RescheduleNext BY <1>1 DEF RescheduleNext
<1>2. CASE RescheduleClear BY <1>2 DEF RescheduleClear
<1>3. CASE ScheduleEnter BY <1>3 DEF ScheduleEnter
<1>4. CASE SchedulePush BY <1>4 DEF SchedulePush
<1>5. CASE ScheduleCut BY <1>5 DEF ScheduleCut
<1> QED BY <1>1, <1>2, <1>3, <1>4, <1>5

\* stop() fails an opening document the way fail() does.
LEMMA StopCancel ==
  ASSUME TypeOK, HoldsJob, CancelReachesSource,
         StopDocuments \/ StopReschedule \/ StopRender \/ StopInference \/ StopAssembly
           \/ StopFail \/ StopAbort \/ StopJoin \/ StopDone
  PROVE  CancelReachesSource'
<1> USE DEF TypeOK, DocsTypeOK, ThreadsTypeOK, HoldsJob, CancelReachesSource, Aborting
<1>1. CASE StopDocuments BY <1>1 DEF StopDocuments, StopClose
<1>2. CASE StopReschedule BY <1>2 DEF StopReschedule
<1>3. CASE StopRender BY <1>3 DEF StopRender, StopClose
<1>4. CASE StopInference BY <1>4 DEF StopInference, StopClose
<1>5. CASE StopAssembly BY <1>5 DEF StopAssembly, StopClose
<1>6. CASE StopFail BY <1>6 DEF StopFail, Fail
<1>7. CASE StopAbort BY <1>7 DEF StopAbort, CancelSource
<1>8. CASE StopJoin BY <1>8 DEF StopJoin
<1>9. CASE StopDone BY <1>9 DEF StopDone
<1> QED BY <1>1, <1>2, <1>3, <1>4, <1>5, <1>6, <1>7, <1>8, <1>9

\* stop() cancels the source of every document it abandons.
LEMMA StopDocumentCancel ==
  ASSUME TypeOK, HoldsJob, CancelReachesSource, NEW x \in Docs,
         StopWaiter(x) \/ StopExamine(x) \/ StopAbandon(x)
  PROVE  CancelReachesSource'
<1> USE DEF TypeOK, DocsTypeOK, ThreadsTypeOK, HoldsJob, CancelReachesSource, Aborting
<1>1. CASE StopWaiter(x) BY <1>1 DEF StopWaiter
<1>2. CASE StopExamine(x) BY <1>2 DEF StopExamine
<1>3. CASE StopAbandon(x) BY <1>3 DEF StopAbandon, Fail, CancelSource
<1> QED BY <1>1, <1>2, <1>3

\* Every step of the scheduler keeps CancelReachesSource.
LEMMA CancelStep ==
  ASSUME TypeOK, HoldsJob, CancelReachesSource, [Next]_vars
  PROVE  CancelReachesSource'
<1>1. ASSUME NEW d \in Docs,
             Submit(d) \/ TicketCancel(d) \/ TicketAbort(d) \/ TicketRelease(d)
               \/ TicketWake(d) \/ EnqueueReschedule(d)
      PROVE  CancelReachesSource'
  BY <1>1, CallerCancel
<1>2. ASSUME NEW t \in Openers, Opener(t) PROVE CancelReachesSource'
  BY <1>2, OpenerCancel, FailCancel DEF Opener, Threads
<1>3. CASE Rescheduler
  BY <1>3, ReschedulerCancel DEF Rescheduler
<1>4. ASSUME NEW t \in Renderers, Renderer(t) PROVE CancelReachesSource'
  BY <1>4, StageCancel, FailCancel DEF Renderer, PageTail, Threads, Workers
<1>5. ASSUME NEW t \in Recognizers, Recognizer(t) PROVE CancelReachesSource'
  BY <1>5, StageCancel, FailCancel DEF Recognizer, PageTail, Threads, Workers
<1>6. ASSUME NEW t \in Assemblers, Assembler(t) PROVE CancelReachesSource'
  BY <1>6, StageCancel, FailCancel DEF Assembler, PageTail, Threads, Workers
<1>7. CASE StopDocuments \/ Stop
  BY <1>7, StopCancel, StopDocumentCancel DEF Stop
<1>8. CASE UNCHANGED vars
  BY <1>8 DEF CancelReachesSource, Aborting, vars
<1> QED BY <1>1, <1>2, <1>3, <1>4, <1>5, <1>6, <1>7, <1>8 DEF Next, Quiet

\* A cancel never misses the source: whichever of cancel() and the opener's
\* publication comes first, the published source of a cancelled document has
\* been cancelled as soon as nobody is on the way to it.
THEOREM CancelAlwaysReachesSource == Spec => []CancelReachesSource
<1>1. Init => CancelReachesSource BY DEF Init, CancelReachesSource
<1>2. TypeOK /\ HoldsJob /\ CancelReachesSource /\ [Next]_vars => CancelReachesSource'
  BY CancelStep
<1> QED BY <1>1, <1>2, TypeCorrect, PTL DEF Spec

-----------------------------------------------------------------------------
(* The inductive invariants: what the lives of a document, of a page, of a *)
(* credit and of a wake have in common at every step of the threads of     *)
(* src/page_scheduler.cpp.                                                 *)

\* stop() has joined every thread and abandons what is left.
Abandoning == stop_pc \in {"abandon", "stopped"}

\* Admitted, and not sized yet.
Unopened(d) == d \in active_requests /\ total_pages[d] = 0

\* Admitted, finished or not.
Known(d) == d \in active_requests \/ finish_called[d]

\* A document leaves the registry when it finishes, one whose span is known
\* was admitted, has its source and schedules pages inside the span, and
\* stop() abandons only documents that were admitted.
Registered ==
  /\ active_requests \subseteq submitted
  /\ \A d \in Docs : finish_called[d] => d \in submitted /\ d \notin active_requests
  /\ \A d \in Docs : total_pages[d] > 0 =>
       /\ Known(d) /\ source[d]
       /\ first_page[d] <= next_page[d] /\ next_page[d] <= total_pages[d] + 1
  /\ stop_pc \in {"opening", "fail", "abort", "abandon"} => \A d \in stop_todo : Known(d)
  /\ stop_pc \in {"fail", "abort"} => stop_doc \in Docs /\ Known(stop_doc)

\* A document is queued once and opened by one thread, which finds it unsized.
OpenedOnce ==
  /\ ~Abandoning => \A d \in Range(documents) : Unopened(d)
  /\ IsInjective(documents)
  /\ \A t \in Openers : job[t] \notin Range(documents)
  /\ \A t, u \in Openers : job[t] = job[u] /\ job[t] \in Docs => t = u
  /\ \A t \in Openers : job[t] \in Docs =>
       /\ total_pages[job[t]] = 0 => Unopened(job[t])
       /\ pc[t] \in {"opening", "factory", "published", "probing"} => total_pages[job[t]] = 0
       /\ pc[t] \in {"sized", "announced"} => total_pages[job[t]] > 0
       /\ pc[t] \in {"published", "probing"} => source[job[t]]

\* Pages exist only of documents whose span is known.
PagesOpened ==
  /\ \A j \in Range(render) : total_pages[j[1]] > 0
  /\ \A j \in Range(inference) : total_pages[j[1]] > 0
  /\ \A j \in Range(assembly) : total_pages[j[1]] > 0
  /\ \A t \in Workers : job[t] \in Docs => total_pages[job[t]] > 0
  /\ rs \in {"push", "cut"} => total_pages[rs_doc] > 0

\* A thread without work holds nothing, a thread that gives a document up
\* has cancelled it, and stop() closes the page queues after stopping_.
ThreadsSettled ==
  /\ \A t \in Threads : pc[t] \in {"idle", "exited"} => job[t] = NoDoc
  /\ \A t \in Threads : pc[t] \in {"abort", "settle"} => cancelled[job[t]]
  /\ rs = "cut" => cancelled[rs_doc] /\ next_page[rs_doc] = total_pages[rs_doc] + 1
  /\ Abandoning => rs = "exited" /\ \A t \in Threads : pc[t] = "exited"
  /\ stopping <=> stop_pc \notin {"run", "stopping"}
  /\ ~stopping => closed \subseteq {"documents"}

Lifecycle == Registered /\ OpenedOnce /\ PagesOpened /\ ThreadsSettled

\* A pending mark has an owner: the caller elected to queue the document, the
\* deque, or the rescheduler about to clear it.
PendingOwned == \A d \in Docs : ~stopping /\ reschedule_pending[d] => Marked(d)

\* A parked document waits on a full render queue, whose next pop takes it.
ParkedOnFull ==
  /\ Len(render) <= RenderCapacity
  /\ space_waiters # {} => Len(render) = RenderCapacity
  /\ \A t \in Renderers : pc[t] # "notify" => waiters[t] = {}

\* A cancel that arrives while pages are being pushed has its canceller
\* waiting for the schedule.
CancellerWaits ==
  ~stopping /\ rs = "push" /\ cancelled[rs_doc] =>
    \/ ticket[rs_doc] = "abort"
    \/ \E t \in Threads : job[t] = rs_doc /\ pc[t] = "abort"

WakesOwned == PendingOwned /\ ParkedOnFull /\ CancellerWaits

\* Assemblers about to return the credit of a page of d.
Returning(d) == {t \in Assemblers : pc[t] = "credit" /\ job[t] = d}

\* A cut has pages to give up.
CutHasPages == rs = "cut" => rs_cut > 0

\* The credits of a document never exceed the window and make it up exactly
\* while the document is live; a page whose credit an assembler is about to
\* return is still owed.
CreditKept(d) ==
  /\ Cardinality(Returning(d)) <= owed[d]
  /\ total_pages[d] = 0 => owed[d] = 0
  /\ available_slots[d] + InFlight(d, BeforeDelivery) + owed[d] <= PageWindow
  /\ total_pages[d] > 0 /\ ~cancelled[d] /\ ~finish_called[d] =>
       available_slots[d] + InFlight(d, BeforeDelivery) + owed[d] = PageWindow

CreditsKept == \A d \in Docs : CreditKept(d)

\* Somebody will look at d: it is being woken, or about to be.
Woken(d) ==
  \/ d \in waking \/ rs_doc = d \/ d \in Range(pending_reschedules)
  \/ ticket[d] \in {"abort", "wake", "wake_cancel"}

\* on_document runs once, by the opener, after the span is known, and before
\* the consumer owes a page; a document that finishes without it was cancelled.
AnnouncedOnce ==
  /\ \A t \in Openers : pc[t] = "sized" => ~announced[job[t]]
  /\ \A t \in Openers : pc[t] = "announced" => announced[job[t]]
  /\ \A d \in Docs : announced[d] => total_pages[d] > 0
  /\ \A d \in Docs : owed[d] > 0 => announced[d]
  /\ \A d \in Docs : finish_called[d] => announced[d] \/ cancelled[d]

\* Only an announced document, or one to give up, is looked at, and pages are
\* scheduled only of an announced one.
AnnouncedFirst ==
  /\ \A d \in Docs : Woken(d) => announced[d] \/ cancelled[d]
  /\ rs = "push" => announced[rs_doc]
  /\ \A d \in space_waiters : announced[d]
  /\ \A t \in Renderers : \A d \in waiters[t] : announced[d]
  /\ stop_pc = "waiters" => \A d \in stop_todo : announced[d]

AnnouncedPages ==
  /\ \A j \in Range(render) : announced[j[1]]
  /\ \A j \in Range(inference) : announced[j[1]]
  /\ \A j \in Range(assembly) : announced[j[1]]
  /\ \A t \in Workers : job[t] \in Docs => announced[job[t]]

\* on_finish has run exactly for the finished documents, and a failed one is
\* cancelled.
OutcomeSet ==
  \A d \in Docs : /\ finish_called[d] <=> outcome[d] # "pending"
                  /\ failure[d] # "none" => cancelled[d]

Announcing == AnnouncedOnce /\ AnnouncedFirst /\ AnnouncedPages /\ OutcomeSet

\* The page a worker holds, and the pages in the queues.
Held(t) == <<job[t], page[t]>>
QueuedPages == Range(render) \cup Range(inference) \cup Range(assembly)

\* The rescheduler has pushed the page, or given it up.
Scheduled(j) ==
  /\ first_page[j[1]] <= j[2] /\ j[2] < next_page[j[1]] /\ j[2] <= total_pages[j[1]]

\* A page is in one place at a time.
PagesOnce ==
  /\ IsInjective(render) /\ IsInjective(inference) /\ IsInjective(assembly)
  /\ Range(render) \cap Range(inference) = {}
  /\ Range(render) \cap Range(assembly) = {}
  /\ Range(inference) \cap Range(assembly) = {}
  /\ \A t \in Workers : job[t] \in Docs => Held(t) \notin QueuedPages
  /\ \A t, u \in Workers : job[t] \in Docs /\ Held(t) = Held(u) => t = u

\* Pages on their way are scheduled pages of the span not delivered yet.
PagesInSpan ==
  /\ \A j \in QueuedPages : Scheduled(j) /\ j[2] \notin delivered[j[1]]
  /\ \A t \in Workers : job[t] \in Docs =>
       /\ Scheduled(Held(t))
       /\ pc[t] \in BeforeDelivery => page[t] \notin delivered[job[t]]
  /\ \A d \in Docs : \A p \in delivered[d] : Scheduled(<<d, p>>)

\* A scheduled page of a live document is delivered or still on its way.
PagesKept ==
  \A d \in Docs : \A p \in Pages : Scheduled(<<d, p>>) /\ ~cancelled[d] =>
    \/ p \in delivered[d] \/ <<d, p>> \in QueuedPages
    \/ \E t \in Workers : Held(t) = <<d, p>> /\ pc[t] \in BeforeDelivery

Journeys == PagesOnce /\ PagesInSpan /\ PagesKept

-----------------------------------------------------------------------------
(* The life of a document. *)

\* Every step of the scheduler is one of these actions of one of these threads.
LEMMA StepCases ==
  ASSUME [Next]_vars
  PROVE  \/ \E x \in Docs : Submit(x) \/ TicketCancel(x) \/ TicketAbort(x) \/ TicketRelease(x) \/
              TicketWake(x) \/ EnqueueReschedule(x) \/ StopWaiter(x) \/ StopExamine(x) \/
              StopAbandon(x)
         \/ \E t \in Openers : OpenerPop(t) \/ OpenerCheck(t) \/ OpenerPublish(t) \/ OpenerRecheck(t) \/
              OpenerSize(t) \/ OpenerAnnounce(t) \/ OpenerWake(t) \/ OpenerSettle(t)
         \/ \E t \in Threads : ThreadFail(t) \/ ThreadAbort(t)
         \/ RescheduleNext \/ RescheduleClear \/ ScheduleEnter \/ SchedulePush \/ ScheduleCut \/
              StopDocuments \/ StopReschedule \/ StopRender \/ StopInference \/ StopAssembly \/
              StopFail \/ StopAbort \/ StopJoin \/ StopDone
         \/ \E t \in Renderers : RenderPop(t) \/ RenderNotify(t) \/ RenderWork(t) \/ PushInference(t)
         \/ \E t \in Recognizers : RecognizePop(t) \/ RecognizeWork(t)
         \/ \E t \in Assemblers : AssemblePop(t) \/ Deliver(t) \/ ReturnCredit(t) \/ WakeAfterCredit(t)
         \/ \E t \in Workers : PushAssembly(t) \/ CheckCancelled(t) \/ CompletePage(t) \/ CountPage(t)
         \/ UNCHANGED vars
BY DEF Next, Opener, Rescheduler, Renderer, Recognizer, Assembler, PageTail, Stop, Quiet,
   Threads, Workers

\* Which threads run which actions.
LEMMA Roles ==
  /\ Renderers \subseteq Workers /\ Recognizers \subseteq Workers /\ Assemblers \subseteq Workers
  /\ \A t \in Workers \cup Openers : t \in Threads
  /\ \A o \in Openers, w \in Workers : o # w
BY ThreadAssumption DEF Workers, Threads

\* What a push does to the elements of a queue.
LEMMA AppendElements ==
  ASSUME NEW S, NEW q \in Seq(S), NEW e \in S
  PROVE  /\ Range(Append(q, e)) = Range(q) \cup {e}
         /\ IsInjective(q) /\ e \notin Range(q) => IsInjective(Append(q, e))
<1>1. /\ DOMAIN Append(q, e) = 1..Len(q) + 1 /\ Len(q) \in Nat /\ DOMAIN q = 1..Len(q)
      /\ Append(q, e)[Len(q) + 1] = e
      /\ \A i \in 1..Len(q) : Append(q, e)[i] = q[i]
  BY AppendProperties
<1>2. Range(Append(q, e)) = Range(q) \cup {e} BY <1>1 DEF Range
<1>3. IsInjective(q) /\ e \notin Range(q) => IsInjective(Append(q, e))
  BY <1>1 DEF Range, IsInjective
<1> QED BY <1>2, <1>3

\* What a pop does to the elements of a queue.
LEMMA TailElements ==
  ASSUME NEW S, NEW q \in Seq(S), q # <<>>
  PROVE  /\ Range(q) = Range(Tail(q)) \cup {Head(q)} /\ Range(q) \subseteq S
         /\ IsInjective(q) => IsInjective(Tail(q)) /\ Head(q) \notin Range(Tail(q))
<1>1. /\ Len(q) \in Nat \ {0} /\ DOMAIN q = 1..Len(q) /\ Head(q) = q[1]
      /\ DOMAIN Tail(q) = 1..Len(q) - 1
      /\ \A i \in 1..Len(q) - 1 : Tail(q)[i] = q[i + 1]
  BY HeadTailProperties
<1>2. \A i \in 1..Len(q) : i = 1 \/ (i - 1 \in 1..Len(q) - 1 /\ q[i] = Tail(q)[i - 1])
  BY <1>1
<1>3. ASSUME NEW x \in Range(q) PROVE x \in Range(Tail(q)) \cup {Head(q)}
  <2>1. PICK i \in 1..Len(q) : x = q[i] BY <1>1 DEF Range
  <2>2. CASE i = 1 BY <1>1, <2>1, <2>2
  <2>3. CASE i # 1
    <3>1. i - 1 \in DOMAIN Tail(q) /\ x = Tail(q)[i - 1] BY <1>1, <1>2, <2>1, <2>3
    <3> QED BY <3>1 DEF Range
  <2> QED BY <2>2, <2>3
<1>4. ASSUME NEW x \in Range(Tail(q)) PROVE x \in Range(q) BY <1>1 DEF Range
<1>5. Head(q) \in Range(q) BY <1>1 DEF Range
<1>6. Range(q) \subseteq S BY DEF Range
<1>7. IsInjective(q) => IsInjective(Tail(q)) /\ Head(q) \notin Range(Tail(q))
  BY <1>1 DEF Range, IsInjective
<1> QED BY <1>3, <1>4, <1>5, <1>6, <1>7

\* The elements of the queues are documents and page jobs.
LEMMA QueuedAre ==
  ASSUME TypeOK
  PROVE  /\ Range(documents) \subseteq Docs /\ Range(pending_reschedules) \subseteq Docs
         /\ Range(render) \subseteq Jobs /\ Range(inference) \subseteq Jobs
         /\ Range(assembly) \subseteq Jobs
         /\ \A j \in Jobs : j[1] \in Docs /\ j[2] \in Pages
<1>1. ASSUME NEW S, NEW q \in Seq(S) PROVE Range(q) \subseteq S BY DEF Range
<1> QED BY <1>1 DEF TypeOK, QueuesTypeOK, Jobs

\* A document is finished only by a thread that holds it, and only a thread
\* that opens it sets its span.
LEMMA RegisteredStep ==
  ASSUME TypeOK, HoldsJob, Lifecycle, [Next]_vars
  PROVE  Registered'
<1> USE Roles
<1>1. ASSUME NEW x \in Docs, Submit(x) PROVE Registered'
  BY <1>1 DEF Submit, Lifecycle, Registered, Unopened, Known, TypeOK, DocsTypeOK, ThreadsTypeOK,
     HoldsJob
<1>2. ASSUME NEW x \in Docs, TicketCancel(x) PROVE Registered'
  BY <1>2 DEF TicketCancel, Lifecycle, Registered, Unopened, Known, TypeOK, DocsTypeOK,
     ThreadsTypeOK, HoldsJob
<1>3. ASSUME NEW x \in Docs, TicketAbort(x) PROVE Registered'
  BY <1>3 DEF TicketAbort, CancelSource, Lifecycle, Registered, Unopened, Known, TypeOK,
     DocsTypeOK, ThreadsTypeOK, HoldsJob
<1>4. ASSUME NEW x \in Docs, TicketRelease(x) PROVE Registered'
  BY <1>4 DEF TicketRelease, release_slots, Lifecycle, Registered, Unopened, Known, TypeOK,
     DocsTypeOK, ThreadsTypeOK, HoldsJob
<1>5. ASSUME NEW x \in Docs, TicketWake(x) PROVE Registered'
  BY <1>5 DEF TicketWake, queue_reschedule, Lifecycle, Registered, Unopened, Known, TypeOK,
     DocsTypeOK, ThreadsTypeOK, HoldsJob
<1>6. ASSUME NEW x \in Docs, EnqueueReschedule(x) PROVE Registered'
  BY <1>6 DEF EnqueueReschedule, Lifecycle, Registered, Unopened, Known, TypeOK, DocsTypeOK,
     ThreadsTypeOK, HoldsJob
<1>7. ASSUME NEW t \in Openers, OpenerPop(t) PROVE Registered'
  BY <1>7 DEF OpenerPop, Goto, Lifecycle, Registered, Unopened, Known, TypeOK, DocsTypeOK,
     ThreadsTypeOK, HoldsJob
<1>8. ASSUME NEW t \in Openers, OpenerCheck(t) PROVE Registered'
  <2>1. job[t] \in Docs /\ job[t] \in active_requests
    BY <1>8 DEF OpenerCheck, HoldsJob, Lifecycle, OpenedOnce, Unopened
  <2>2. job[t] \in submitted BY <2>1 DEF Lifecycle, Registered
  <2> QED BY <1>8, <2>1, <2>2 DEF OpenerCheck, finish_request, Lifecycle, Registered, Unopened,
      Known, TypeOK, DocsTypeOK, ThreadsTypeOK, HoldsJob
<1>9. ASSUME NEW t \in Openers, OpenerPublish(t) PROVE Registered'
  BY <1>9 DEF OpenerPublish, Goto, Lifecycle, Registered, Unopened, Known, TypeOK, DocsTypeOK,
     ThreadsTypeOK, HoldsJob
<1>10. ASSUME NEW t \in Openers, OpenerRecheck(t) PROVE Registered'
  BY <1>10 DEF OpenerRecheck, Goto, Lifecycle, Registered, Unopened, Known, TypeOK, DocsTypeOK,
     ThreadsTypeOK, HoldsJob
<1>11. ASSUME NEW t \in Openers, OpenerSize(t) PROVE Registered'
  BY SMTT(30), <1>11, SchedulerAssumption DEF OpenerSize, Goto, OpenedOnce, Pages, Lifecycle, Registered,
     Unopened, Known, TypeOK, DocsTypeOK, ThreadsTypeOK, HoldsJob
<1>12. ASSUME NEW t \in Openers, OpenerAnnounce(t) PROVE Registered'
  BY <1>12 DEF OpenerAnnounce, Goto, Lifecycle, Registered, Unopened, Known, TypeOK, DocsTypeOK,
     ThreadsTypeOK, HoldsJob
<1>13. ASSUME NEW t \in Openers, OpenerWake(t) PROVE Registered'
  BY <1>13 DEF OpenerWake, queue_reschedule, Drop, Goto, Lifecycle, Registered, Unopened, Known,
     TypeOK, DocsTypeOK, ThreadsTypeOK, HoldsJob
<1>14. ASSUME NEW t \in Openers, OpenerSettle(t) PROVE Registered'
  <2>1. job[t] \in Docs BY <1>14 DEF OpenerSettle, HoldsJob
  <2>2. Known(job[t])
    <3>1. total_pages[job[t]] = 0 \/ total_pages[job[t]] > 0
      BY <2>1, SchedulerAssumption DEF TypeOK, DocsTypeOK
    <3> QED BY <2>1, <3>1 DEF Lifecycle, OpenedOnce, Registered, Unopened, Known
  <2>3. job[t] \in submitted BY <2>1, <2>2 DEF Lifecycle, Registered, Known
  <2> QED BY <1>14, <2>1, <2>2, <2>3 DEF OpenerSettle, finish_request, queue_reschedule,
      Lifecycle, Registered, Unopened, Known, TypeOK, DocsTypeOK, ThreadsTypeOK, HoldsJob
<1>15. ASSUME NEW t \in Threads, ThreadFail(t) PROVE Registered'
  BY <1>15 DEF ThreadFail, Fail, Goto, Lifecycle, Registered, Unopened, Known, TypeOK, DocsTypeOK,
     ThreadsTypeOK, HoldsJob
<1>16. ASSUME NEW t \in Threads, ThreadAbort(t) PROVE Registered'
  BY <1>16 DEF ThreadAbort, CancelSource, Goto, Lifecycle, Registered, Unopened, Known, TypeOK,
     DocsTypeOK, ThreadsTypeOK, HoldsJob
<1>17. CASE RescheduleNext
  BY <1>17 DEF RescheduleNext, Lifecycle, Registered, Unopened, Known, TypeOK, DocsTypeOK,
     ThreadsTypeOK, HoldsJob
<1>18. CASE RescheduleClear
  BY <1>18 DEF RescheduleClear, Lifecycle, Registered, Unopened, Known, TypeOK, DocsTypeOK,
     ThreadsTypeOK, HoldsJob
<1>19. CASE ScheduleEnter
  BY SMTT(20), <1>19 DEF ScheduleEnter, RescheduleDone, Lifecycle, Registered, Unopened, Known,
     TypeOK, DocsTypeOK, ThreadsTypeOK, HoldsJob
<1>20. CASE SchedulePush
  <2>1. rs_doc \in Docs BY <1>20 DEF SchedulePush, HoldsJob
  <2>2. CASE next_page[rs_doc] <= total_pages[rs_doc] /\ PushPage(rs_doc)
    <3>1. next_page' = [next_page EXCEPT ![rs_doc] = next_page[rs_doc] + 1]
      BY <2>2 DEF PushPage
    <3>2. ASSUME NEW d \in Docs, total_pages[d] > 0
          PROVE  first_page[d] <= next_page'[d] /\ next_page'[d] <= total_pages[d] + 1
      <4>1. /\ first_page[d] \in Int /\ next_page[d] \in Int /\ total_pages[d] \in Int
            /\ first_page[d] <= next_page[d] /\ next_page[d] <= total_pages[d] + 1
        BY <3>2, SchedulerAssumption DEF Lifecycle, Registered, TypeOK, DocsTypeOK
      <4>2. next_page'[d] = IF d = rs_doc THEN next_page[d] + 1 ELSE next_page[d]
        BY <2>1, <3>1 DEF TypeOK, DocsTypeOK
      <4> QED BY <2>2, <4>1, <4>2
    <3> QED BY <1>20, <3>2 DEF SchedulePush, Lifecycle, Registered, Known
  <2>3. CASE UNCHANGED next_page BY <1>20, <2>3 DEF SchedulePush, Lifecycle, Registered, Known
  <2> QED BY <1>20, <2>2, <2>3 DEF SchedulePush
<1>21. CASE ScheduleCut
  <2>1. rs_doc \in Docs /\ Known(rs_doc)
    BY <1>21 DEF ScheduleCut, HoldsJob, Lifecycle, PagesOpened, Registered
  <2>2. rs_doc \in submitted BY <2>1 DEF Lifecycle, Registered, Known
  <2> QED BY <1>21, <2>1, <2>2 DEF ScheduleCut, CountDown, finish_request, Lifecycle,
      Registered, Unopened, Known, TypeOK, DocsTypeOK, ThreadsTypeOK, HoldsJob
<1>22. ASSUME NEW t \in Renderers, RenderPop(t) PROVE Registered'
  BY <1>22 DEF RenderPop, Take, Goto, Lifecycle, Registered, Unopened, Known, TypeOK, DocsTypeOK,
     ThreadsTypeOK, HoldsJob
<1>23. ASSUME NEW t \in Renderers, RenderNotify(t) PROVE Registered'
  BY <1>23 DEF RenderNotify, queue_reschedule, Goto, Lifecycle, Registered, Unopened, Known,
     TypeOK, DocsTypeOK, ThreadsTypeOK, HoldsJob
<1>24. ASSUME NEW t \in Renderers, RenderWork(t) PROVE Registered'
  BY <1>24 DEF RenderWork, Step, Goto, Lifecycle, Registered, Unopened, Known, TypeOK, DocsTypeOK,
     ThreadsTypeOK, HoldsJob
<1>25. ASSUME NEW t \in Recognizers, RecognizePop(t) PROVE Registered'
  BY <1>25 DEF RecognizePop, Take, Goto, Lifecycle, Registered, Unopened, Known, TypeOK,
     DocsTypeOK, ThreadsTypeOK, HoldsJob
<1>26. ASSUME NEW t \in Recognizers, RecognizeWork(t) PROVE Registered'
  BY <1>26 DEF RecognizeWork, Step, Goto, Lifecycle, Registered, Unopened, Known, TypeOK,
     DocsTypeOK, ThreadsTypeOK, HoldsJob
<1>27. ASSUME NEW t \in Assemblers, AssemblePop(t) PROVE Registered'
  BY <1>27 DEF AssemblePop, Take, Goto, Lifecycle, Registered, Unopened, Known, TypeOK,
     DocsTypeOK, ThreadsTypeOK, HoldsJob
<1>28. ASSUME NEW t \in Assemblers, Deliver(t) PROVE Registered'
  BY <1>28 DEF Deliver, Goto, Lifecycle, Registered, Unopened, Known, TypeOK, DocsTypeOK,
     ThreadsTypeOK, HoldsJob
<1>29. ASSUME NEW t \in Assemblers, ReturnCredit(t) PROVE Registered'
  BY <1>29 DEF ReturnCredit, release_slots, Goto, Lifecycle, Registered, Unopened, Known, TypeOK,
     DocsTypeOK, ThreadsTypeOK, HoldsJob
<1>30. ASSUME NEW t \in Assemblers, WakeAfterCredit(t) PROVE Registered'
  BY <1>30 DEF WakeAfterCredit, queue_reschedule, Goto, Lifecycle, Registered, Unopened, Known,
     TypeOK, DocsTypeOK, ThreadsTypeOK, HoldsJob
<1>31. ASSUME NEW t \in Renderers, PushInference(t) PROVE Registered'
  BY <1>31 DEF PushInference, Drop, Goto, Lifecycle, Registered, Unopened, Known, TypeOK,
     DocsTypeOK, ThreadsTypeOK, HoldsJob
<1>32. ASSUME NEW t \in Workers, PushAssembly(t) PROVE Registered'
  BY <1>32 DEF PushAssembly, Drop, Goto, Lifecycle, Registered, Unopened, Known, TypeOK,
     DocsTypeOK, ThreadsTypeOK, HoldsJob
<1>33. ASSUME NEW t \in Workers, CheckCancelled(t) PROVE Registered'
  BY <1>33 DEF CheckCancelled, Step, Goto, Lifecycle, Registered, Unopened, Known, TypeOK,
     DocsTypeOK, ThreadsTypeOK, HoldsJob
<1>34. ASSUME NEW t \in Workers, CompletePage(t) PROVE Registered'
  BY <1>34 DEF CompletePage, queue_reschedule, Goto, Lifecycle, Registered, Unopened, Known,
     TypeOK, DocsTypeOK, ThreadsTypeOK, HoldsJob
<1>35. ASSUME NEW t \in Workers, CountPage(t) PROVE Registered'
  BY <1>35 DEF CountPage, CountDown, finish_request, Drop, Goto, PagesOpened, Lifecycle,
     Registered, Unopened, Known, TypeOK, DocsTypeOK, ThreadsTypeOK, HoldsJob
<1>36. CASE StopDocuments
  BY <1>36 DEF StopDocuments, StopClose, Lifecycle, Registered, Unopened, Known, TypeOK,
     DocsTypeOK, ThreadsTypeOK, HoldsJob
<1>37. CASE StopReschedule
  BY <1>37 DEF StopReschedule, Lifecycle, Registered, Unopened, Known, TypeOK, DocsTypeOK,
     ThreadsTypeOK, HoldsJob
<1>38. CASE StopRender
  BY <1>38 DEF StopRender, StopClose, Lifecycle, Registered, Unopened, Known, TypeOK, DocsTypeOK,
     ThreadsTypeOK, HoldsJob
<1>39. CASE StopInference
  BY <1>39 DEF StopInference, StopClose, Lifecycle, Registered, Unopened, Known, TypeOK,
     DocsTypeOK, ThreadsTypeOK, HoldsJob
<1>40. CASE StopAssembly
  BY <1>40 DEF StopAssembly, StopClose, Lifecycle, Registered, Unopened, Known, TypeOK,
     DocsTypeOK, ThreadsTypeOK, HoldsJob
<1>41. CASE StopFail
  BY <1>41 DEF StopFail, Fail, Lifecycle, Registered, Unopened, Known, TypeOK, DocsTypeOK,
     ThreadsTypeOK, HoldsJob
<1>42. CASE StopAbort
  BY <1>42 DEF StopAbort, CancelSource, Lifecycle, Registered, Unopened, Known, TypeOK,
     DocsTypeOK, ThreadsTypeOK, HoldsJob
<1>43. CASE StopJoin
  BY <1>43 DEF StopJoin, Lifecycle, Registered, Unopened, Known, TypeOK, DocsTypeOK,
     ThreadsTypeOK, HoldsJob
<1>44. CASE StopDone
  BY <1>44 DEF StopDone, Lifecycle, Registered, Unopened, Known, TypeOK, DocsTypeOK,
     ThreadsTypeOK, HoldsJob
<1>45. ASSUME NEW x \in Docs, StopWaiter(x) PROVE Registered'
  BY <1>45 DEF StopWaiter, queue_reschedule, Lifecycle, Registered, Unopened, Known, TypeOK,
     DocsTypeOK, ThreadsTypeOK, HoldsJob
<1>46. ASSUME NEW x \in Docs, StopExamine(x) PROVE Registered'
  BY <1>46 DEF StopExamine, Lifecycle, Registered, Unopened, Known, TypeOK, DocsTypeOK,
     ThreadsTypeOK, HoldsJob
<1>47. ASSUME NEW x \in Docs, StopAbandon(x) PROVE Registered'
  BY <1>47 DEF StopAbandon, Fail, CancelSource, finish_request, Lifecycle, Registered, Unopened,
     Known, TypeOK, DocsTypeOK, ThreadsTypeOK, HoldsJob
<1>48. CASE UNCHANGED vars
  BY <1>48 DEF vars, Lifecycle, Registered, Unopened, Known, TypeOK, DocsTypeOK, ThreadsTypeOK,
     HoldsJob
<1> QED BY StepCases, <1>1, <1>2, <1>3, <1>4, <1>5, <1>6, <1>7, <1>8, <1>9, <1>10, <1>11, <1>12,
    <1>13, <1>14, <1>15, <1>16, <1>17, <1>18, <1>19, <1>20, <1>21, <1>22, <1>23, <1>24, <1>25,
    <1>26, <1>27, <1>28, <1>29, <1>30, <1>31, <1>32, <1>33, <1>34, <1>35, <1>36, <1>37, <1>38,
    <1>39, <1>40, <1>41, <1>42, <1>43, <1>44, <1>45, <1>46, <1>47, <1>48
\* submit() queues a document once; the opener that pops it is the only one to
\* hold it, and sizes it.
LEMMA OpenedOnceStep ==
  ASSUME TypeOK, HoldsJob, Lifecycle, [Next]_vars
  PROVE  OpenedOnce'
<1> USE Roles
<1>1. ASSUME NEW x \in Docs, Submit(x) PROVE OpenedOnce'
  <2>1. documents \in Seq(Docs) BY DEF TypeOK, QueuesTypeOK
  <2>2. x \notin Range(documents) /\ x \notin submitted
    BY <1>1 DEF Submit, Lifecycle, OpenedOnce, Unopened, Registered, Abandoning
  <2>3. CASE documents' = Append(documents, x) /\ active_requests' = active_requests \cup {x}
    <3>1. Range(documents') = Range(documents) \cup {x} BY <2>1, <2>3, AppendElements
    <3>2. IsInjective(documents')
      BY <2>1, <2>2, <2>3, AppendElements DEF Lifecycle, OpenedOnce
    <3>3. total_pages[x] = 0
      BY <2>2, SchedulerAssumption DEF Lifecycle, Registered, Known, TypeOK, DocsTypeOK
    <3>4. \A o \in Openers : job[o] # x
      BY <2>2 DEF Lifecycle, OpenedOnce, Registered, Unopened, Known, TypeOK, ThreadsTypeOK,
        DocsTypeOK
    <3>5. UNCHANGED <<total_pages, job, pc, source, stop_pc>> BY <1>1 DEF Submit
    <3> QED BY <2>3, <3>1, <3>2, <3>3, <3>4, <3>5 DEF Lifecycle, OpenedOnce, Unopened,
        Abandoning
  <2>4. CASE UNCHANGED <<active_requests, documents>>
    BY <1>1, <2>4 DEF Submit, Lifecycle, OpenedOnce, Unopened, Abandoning
  <2> QED BY <1>1, <2>3, <2>4 DEF Submit
<1>2. ASSUME NEW x \in Docs, TicketCancel(x) PROVE OpenedOnce'
  BY <1>2 DEF TicketCancel, Lifecycle, OpenedOnce, Unopened, Abandoning, TypeOK, DocsTypeOK,
     ThreadsTypeOK, HoldsJob
<1>3. ASSUME NEW x \in Docs, TicketAbort(x) PROVE OpenedOnce'
  BY <1>3 DEF TicketAbort, CancelSource, Lifecycle, OpenedOnce, Unopened, Abandoning, TypeOK,
     DocsTypeOK, ThreadsTypeOK, HoldsJob
<1>4. ASSUME NEW x \in Docs, TicketRelease(x) PROVE OpenedOnce'
  BY <1>4 DEF TicketRelease, release_slots, Lifecycle, OpenedOnce, Unopened, Abandoning, TypeOK,
     DocsTypeOK, ThreadsTypeOK, HoldsJob
<1>5. ASSUME NEW x \in Docs, TicketWake(x) PROVE OpenedOnce'
  BY <1>5 DEF TicketWake, queue_reschedule, Lifecycle, OpenedOnce, Unopened, Abandoning, TypeOK,
     DocsTypeOK, ThreadsTypeOK, HoldsJob
<1>6. ASSUME NEW x \in Docs, EnqueueReschedule(x) PROVE OpenedOnce'
  BY <1>6 DEF EnqueueReschedule, Lifecycle, OpenedOnce, Unopened, Abandoning, TypeOK, DocsTypeOK,
     ThreadsTypeOK, HoldsJob
<1>7. ASSUME NEW t \in Openers, OpenerPop(t) PROVE OpenedOnce'
  <2>1. /\ UNCHANGED <<active_requests, total_pages, source, stop_pc>>
        /\ \A o \in Openers : o # t => job'[o] = job[o] /\ pc'[o] = pc[o]
    BY <1>7 DEF OpenerPop, Goto, TypeOK, ThreadsTypeOK
  <2>2. CASE documents # <<>> /\ job'[t] = Head(documents) /\ documents' = Tail(documents)
             /\ pc'[t] = "opening"
    <3>1. documents \in Seq(Docs) /\ IsInjective(documents)
      BY DEF TypeOK, QueuesTypeOK, Lifecycle, OpenedOnce
    <3>2. /\ Range(documents) = Range(documents') \cup {Head(documents)}
          /\ IsInjective(documents') /\ Head(documents) \notin Range(documents')
      BY <2>2, <3>1, TailElements
    <3>3. ~Abandoning BY <1>7 DEF OpenerPop, Lifecycle, ThreadsSettled
    <3>4. Unopened(Head(documents)) /\ \A o \in Openers : job[o] # Head(documents)
      BY <3>2, <3>3 DEF Lifecycle, OpenedOnce
    <3> QED BY <2>1, <2>2, <3>2, <3>4 DEF Lifecycle, OpenedOnce, Unopened, Abandoning
  <2>3. CASE UNCHANGED <<documents, job>> /\ pc'[t] = "exited"
    BY <2>1, <2>3 DEF Lifecycle, OpenedOnce, Unopened, Abandoning
  <2> QED BY <1>7, <2>2, <2>3 DEF OpenerPop, Goto, TypeOK, ThreadsTypeOK
<1>8. ASSUME NEW t \in Openers, OpenerCheck(t) PROVE OpenedOnce'
  <2>1. /\ UNCHANGED <<documents, total_pages, source, stop_pc>>
        /\ \A o \in Openers : o # t => job'[o] = job[o] /\ pc'[o] = pc[o]
        /\ active_requests \ {job[t]} \subseteq active_requests'
    BY <1>8 DEF OpenerCheck, finish_request, Drop, Goto, TypeOK, ThreadsTypeOK
  <2>2. job[t] \in Docs /\ \A o \in Openers : o # t => job[o] # job[t]
    BY <1>8 DEF OpenerCheck, HoldsJob, Lifecycle, OpenedOnce
  <2>3. CASE job'[t] = NoDoc
    <3>1. /\ \A d \in Range(documents) : d # job[t]
          /\ \A o \in Openers : job'[o] \in Docs => o # t
      BY <2>3, SchedulerAssumption DEF Lifecycle, OpenedOnce
    <3>2. \A d \in Docs : d # job[t] /\ d \in active_requests => d \in active_requests'
      BY <2>1
    <3>3. \A d \in Range(documents) : d \in Docs BY QueuedAre
    <3>4. NoDoc \notin Range(documents) BY <3>3, SchedulerAssumption
    <3> QED BY <2>1, <2>2, <2>3, <3>1, <3>2, <3>3, <3>4
      DEF Lifecycle, OpenedOnce, Unopened, Abandoning
  <2>4. CASE pc'[t] = "factory" /\ UNCHANGED <<finishes, active_requests, job>>
    BY <2>1, <2>4, <1>8 DEF OpenerCheck, Lifecycle, OpenedOnce, Unopened, Abandoning
  <2>5. job'[t] = NoDoc \/ (pc'[t] = "factory" /\ UNCHANGED <<finishes, active_requests, job>>)
    BY <1>8 DEF OpenerCheck, Drop, Goto, TypeOK, ThreadsTypeOK
  <2> QED BY <1>8, <2>3, <2>4, <2>5 DEF OpenerCheck, Drop, TypeOK, ThreadsTypeOK
<1>9. ASSUME NEW t \in Openers, OpenerPublish(t) PROVE OpenedOnce'
  BY <1>9 DEF OpenerPublish, Goto, Lifecycle, OpenedOnce, Unopened, Abandoning, TypeOK,
     DocsTypeOK, ThreadsTypeOK, HoldsJob
<1>10. ASSUME NEW t \in Openers, OpenerRecheck(t) PROVE OpenedOnce'
  BY <1>10 DEF OpenerRecheck, Goto, Lifecycle, OpenedOnce, Unopened, Abandoning, TypeOK,
     DocsTypeOK, ThreadsTypeOK, HoldsJob
<1>11. ASSUME NEW t \in Openers, OpenerSize(t) PROVE OpenedOnce'
  <2>1. /\ UNCHANGED <<documents, job, active_requests, source, stop_pc>>
        /\ \A d \in Docs : d # job[t] => total_pages'[d] = total_pages[d]
        /\ pc'[t] \in {"sized", "fail"} /\ \A o \in Openers : o # t => pc'[o] = pc[o]
    BY <1>11 DEF OpenerSize, Goto, TypeOK, DocsTypeOK, ThreadsTypeOK
  <2>2. job[t] \in Docs /\ \A o \in Openers : o # t => job[o] # job[t]
    BY <1>11 DEF OpenerSize, HoldsJob, Lifecycle, OpenedOnce
  <2>3. \/ total_pages'[job[t]] > 0
        \/ pc'[t] = "fail" /\ total_pages' = total_pages
    <3>1. CASE \E s \in OpenSpans : total_pages' = [total_pages EXCEPT ![job[t]] = s[2]]
      <4>1. PICK s \in OpenSpans : total_pages' = [total_pages EXCEPT ![job[t]] = s[2]] BY <3>1
      <4>2. s[2] > 0 BY SchedulerAssumption DEF Pages
      <4> QED BY <2>2, <4>1, <4>2 DEF TypeOK, DocsTypeOK
    <3>2. CASE UNCHANGED span /\ Goto(t, "fail") BY <3>2 DEF Goto, TypeOK, ThreadsTypeOK
    <3> QED BY <1>11, <3>1, <3>2 DEF OpenerSize
  <2>4. job[t] \notin Range(documents) /\ Range(documents) \subseteq Docs
    BY QueuedAre DEF Lifecycle, OpenedOnce
  <2>6. CASE total_pages'[job[t]] > 0
    <3>1. \A o \in Openers : o # t /\ job[o] \in Docs => total_pages'[job[o]] =
        total_pages[job[o]]
      BY <2>1, <2>2
    <3>2. total_pages'[job[t]] # 0 BY <2>6, <2>2, TypeStep DEF TypeOK, DocsTypeOK
    <3>3. \A d \in Range(documents) : d # job[t] /\ total_pages'[d] = total_pages[d]
      BY <2>1, <2>4
    <3> QED BY <2>1, <2>2, <2>6, <3>1, <3>2, <3>3
      DEF Lifecycle, OpenedOnce, Unopened, Abandoning
  <2>7. CASE pc'[t] = "fail" /\ total_pages' = total_pages
    BY <2>1, <2>7 DEF Lifecycle, OpenedOnce, Unopened, Abandoning
  <2> QED BY <2>3, <2>6, <2>7
<1>12. ASSUME NEW t \in Openers, OpenerAnnounce(t) PROVE OpenedOnce'
  BY <1>12 DEF OpenerAnnounce, Goto, Lifecycle, OpenedOnce, Unopened, Abandoning, TypeOK,
     DocsTypeOK, ThreadsTypeOK, HoldsJob
<1>13. ASSUME NEW t \in Openers, OpenerWake(t) PROVE OpenedOnce'
  <2>1. /\ UNCHANGED <<documents, active_requests, total_pages, source, stop_pc>>
        /\ job'[t] = NoDoc /\ \A o \in Openers : o # t => job'[o] = job[o] /\ pc'[o] = pc[o]
    BY <1>13 DEF OpenerWake, Drop, Goto, TypeOK, ThreadsTypeOK
  <2>2. NoDoc \notin Docs /\ NoDoc \notin Range(documents) BY SchedulerAssumption, QueuedAre
  <2> QED BY <2>1, <2>2 DEF Lifecycle, OpenedOnce, Unopened, Abandoning
<1>14. ASSUME NEW t \in Openers, OpenerSettle(t) PROVE OpenedOnce'
  <2>1. /\ UNCHANGED <<documents, total_pages, source, stop_pc>>
        /\ \A o \in Openers : o # t => job'[o] = job[o] /\ pc'[o] = pc[o]
        /\ active_requests \ {job[t]} \subseteq active_requests'
    BY <1>14 DEF OpenerSettle, finish_request, Drop, Goto, TypeOK, ThreadsTypeOK
  <2>2. job[t] \in Docs /\ \A o \in Openers : o # t => job[o] # job[t]
    BY <1>14 DEF OpenerSettle, HoldsJob, Lifecycle, OpenedOnce
  <2>3. CASE job'[t] = NoDoc
    <3>1. /\ \A d \in Range(documents) : d # job[t]
          /\ \A o \in Openers : job'[o] \in Docs => o # t
      BY <2>3, SchedulerAssumption DEF Lifecycle, OpenedOnce
    <3>2. \A d \in Docs : d # job[t] /\ d \in active_requests => d \in active_requests'
      BY <2>1
    <3>3. \A d \in Range(documents) : d \in Docs BY QueuedAre
    <3>4. NoDoc \notin Range(documents) BY <3>3, SchedulerAssumption
    <3> QED BY <2>1, <2>2, <2>3, <3>1, <3>2, <3>3, <3>4
      DEF Lifecycle, OpenedOnce, Unopened, Abandoning
  <2> QED BY <1>14, <2>3 DEF OpenerSettle, Drop, TypeOK, ThreadsTypeOK
<1>15. ASSUME NEW t \in Threads, ThreadFail(t) PROVE OpenedOnce'
  BY <1>15 DEF ThreadFail, Fail, Goto, Lifecycle, OpenedOnce, Unopened, Abandoning, TypeOK,
     DocsTypeOK, ThreadsTypeOK, HoldsJob
<1>16. ASSUME NEW t \in Threads, ThreadAbort(t) PROVE OpenedOnce'
  BY <1>16 DEF ThreadAbort, CancelSource, Goto, Lifecycle, OpenedOnce, Unopened, Abandoning,
     TypeOK, DocsTypeOK, ThreadsTypeOK, HoldsJob
<1>17. CASE RescheduleNext
  BY <1>17 DEF RescheduleNext, Lifecycle, OpenedOnce, Unopened, Abandoning, TypeOK, DocsTypeOK,
     ThreadsTypeOK, HoldsJob
<1>18. CASE RescheduleClear
  BY <1>18 DEF RescheduleClear, Lifecycle, OpenedOnce, Unopened, Abandoning, TypeOK, DocsTypeOK,
     ThreadsTypeOK, HoldsJob
<1>19. CASE ScheduleEnter
  BY <1>19 DEF ScheduleEnter, RescheduleDone, Lifecycle, OpenedOnce, Unopened, Abandoning, TypeOK,
     DocsTypeOK, ThreadsTypeOK, HoldsJob
<1>20. CASE SchedulePush
  BY <1>20 DEF SchedulePush, PushPage, Park, RescheduleDone, Lifecycle, OpenedOnce, Unopened,
     Abandoning, TypeOK, DocsTypeOK, ThreadsTypeOK, HoldsJob
<1>21. CASE ScheduleCut
  <2>1. /\ UNCHANGED <<documents, total_pages, source, stop_pc>>
        /\ \A o \in Openers : job'[o] = job[o] /\ pc'[o] = pc[o]
        /\ active_requests \ {rs_doc} \subseteq active_requests'
    BY <1>21 DEF ScheduleCut, CountDown, finish_request, TypeOK, ThreadsTypeOK
  <2>2. rs_doc \in Docs /\ total_pages[rs_doc] > 0
    BY <1>21 DEF ScheduleCut, HoldsJob, Lifecycle, PagesOpened
  <2>3. \A y : Unopened(y) => y # rs_doc /\ y \in active_requests' BY <2>1, <2>2 DEF Unopened
  <2> QED BY <2>1, <2>3 DEF Lifecycle, OpenedOnce, Unopened, Abandoning
<1>22. ASSUME NEW t \in Renderers, RenderPop(t) PROVE OpenedOnce'
  <2>1. /\ UNCHANGED <<documents, total_pages, source, stop_pc, active_requests>>
        /\ \A o \in Openers : job'[o] = job[o] /\ pc'[o] = pc[o]
    BY <1>22 DEF RenderPop, Take, Drop, Goto, TypeOK, ThreadsTypeOK
  <2> QED BY <2>1 DEF Lifecycle, OpenedOnce, Unopened, Abandoning
<1>23. ASSUME NEW t \in Renderers, RenderNotify(t) PROVE OpenedOnce'
  BY <1>23 DEF RenderNotify, queue_reschedule, Goto, Lifecycle, OpenedOnce, Unopened, Abandoning,
     TypeOK, DocsTypeOK, ThreadsTypeOK, HoldsJob
<1>24. ASSUME NEW t \in Renderers, RenderWork(t) PROVE OpenedOnce'
  BY <1>24 DEF RenderWork, Step, Goto, Lifecycle, OpenedOnce, Unopened, Abandoning, TypeOK,
     DocsTypeOK, ThreadsTypeOK, HoldsJob
<1>25. ASSUME NEW t \in Recognizers, RecognizePop(t) PROVE OpenedOnce'
  <2>1. /\ UNCHANGED <<documents, total_pages, source, stop_pc, active_requests>>
        /\ \A o \in Openers : job'[o] = job[o] /\ pc'[o] = pc[o]
    BY <1>25 DEF RecognizePop, Take, Drop, Goto, TypeOK, ThreadsTypeOK
  <2> QED BY <2>1 DEF Lifecycle, OpenedOnce, Unopened, Abandoning
<1>26. ASSUME NEW t \in Recognizers, RecognizeWork(t) PROVE OpenedOnce'
  BY <1>26 DEF RecognizeWork, Step, Goto, Lifecycle, OpenedOnce, Unopened, Abandoning, TypeOK,
     DocsTypeOK, ThreadsTypeOK, HoldsJob
<1>27. ASSUME NEW t \in Assemblers, AssemblePop(t) PROVE OpenedOnce'
  <2>1. /\ UNCHANGED <<documents, total_pages, source, stop_pc, active_requests>>
        /\ \A o \in Openers : job'[o] = job[o] /\ pc'[o] = pc[o]
    BY <1>27 DEF AssemblePop, Take, Drop, Goto, TypeOK, ThreadsTypeOK
  <2> QED BY <2>1 DEF Lifecycle, OpenedOnce, Unopened, Abandoning
<1>28. ASSUME NEW t \in Assemblers, Deliver(t) PROVE OpenedOnce'
  BY <1>28 DEF Deliver, Goto, Lifecycle, OpenedOnce, Unopened, Abandoning, TypeOK, DocsTypeOK,
     ThreadsTypeOK, HoldsJob
<1>29. ASSUME NEW t \in Assemblers, ReturnCredit(t) PROVE OpenedOnce'
  BY <1>29 DEF ReturnCredit, release_slots, Goto, Lifecycle, OpenedOnce, Unopened, Abandoning,
     TypeOK, DocsTypeOK, ThreadsTypeOK, HoldsJob
<1>30. ASSUME NEW t \in Assemblers, WakeAfterCredit(t) PROVE OpenedOnce'
  BY <1>30 DEF WakeAfterCredit, queue_reschedule, Goto, Lifecycle, OpenedOnce, Unopened,
     Abandoning, TypeOK, DocsTypeOK, ThreadsTypeOK, HoldsJob
<1>31. ASSUME NEW t \in Renderers, PushInference(t) PROVE OpenedOnce'
  <2>1. /\ UNCHANGED <<documents, total_pages, source, stop_pc, active_requests>>
        /\ \A o \in Openers : job'[o] = job[o] /\ pc'[o] = pc[o]
    BY <1>31 DEF PushInference, Take, Drop, Goto, TypeOK, ThreadsTypeOK
  <2> QED BY <2>1 DEF Lifecycle, OpenedOnce, Unopened, Abandoning
<1>32. ASSUME NEW t \in Workers, PushAssembly(t) PROVE OpenedOnce'
  <2>1. /\ UNCHANGED <<documents, total_pages, source, stop_pc, active_requests>>
        /\ \A o \in Openers : job'[o] = job[o] /\ pc'[o] = pc[o]
    BY <1>32 DEF PushAssembly, Take, Drop, Goto, TypeOK, ThreadsTypeOK
  <2> QED BY <2>1 DEF Lifecycle, OpenedOnce, Unopened, Abandoning
<1>33. ASSUME NEW t \in Workers, CheckCancelled(t) PROVE OpenedOnce'
  BY <1>33 DEF CheckCancelled, Step, Goto, Lifecycle, OpenedOnce, Unopened, Abandoning, TypeOK,
     DocsTypeOK, ThreadsTypeOK, HoldsJob
<1>34. ASSUME NEW t \in Workers, CompletePage(t) PROVE OpenedOnce'
  BY <1>34 DEF CompletePage, queue_reschedule, Goto, Lifecycle, OpenedOnce, Unopened, Abandoning,
     TypeOK, DocsTypeOK, ThreadsTypeOK, HoldsJob
<1>35. ASSUME NEW t \in Workers, CountPage(t) PROVE OpenedOnce'
  <2>1. /\ UNCHANGED <<documents, total_pages, source, stop_pc>>
        /\ \A o \in Openers : job'[o] = job[o] /\ pc'[o] = pc[o]
        /\ active_requests \ {job[t]} \subseteq active_requests'
    BY <1>35 DEF CountPage, CountDown, finish_request, Drop, Goto, TypeOK, ThreadsTypeOK
  <2>2. job[t] \in Docs /\ total_pages[job[t]] > 0
    BY <1>35 DEF CountPage, HoldsJob, Lifecycle, PagesOpened
  <2>3. \A y : Unopened(y) => y # job[t] /\ y \in active_requests' BY <2>1, <2>2 DEF Unopened
  <2> QED BY <2>1, <2>3 DEF Lifecycle, OpenedOnce, Unopened, Abandoning
<1>36. CASE StopDocuments
  BY <1>36 DEF StopDocuments, StopClose, Lifecycle, OpenedOnce, Unopened, Abandoning, TypeOK,
     DocsTypeOK, ThreadsTypeOK, HoldsJob
<1>37. CASE StopReschedule
  BY <1>37 DEF StopReschedule, Lifecycle, OpenedOnce, Unopened, Abandoning, TypeOK, DocsTypeOK,
     ThreadsTypeOK, HoldsJob
<1>38. CASE StopRender
  BY <1>38 DEF StopRender, StopClose, Lifecycle, OpenedOnce, Unopened, Abandoning, TypeOK,
     DocsTypeOK, ThreadsTypeOK, HoldsJob
<1>39. CASE StopInference
  BY <1>39 DEF StopInference, StopClose, Lifecycle, OpenedOnce, Unopened, Abandoning, TypeOK,
     DocsTypeOK, ThreadsTypeOK, HoldsJob
<1>40. CASE StopAssembly
  BY <1>40 DEF StopAssembly, StopClose, Lifecycle, OpenedOnce, Unopened, Abandoning, TypeOK,
     DocsTypeOK, ThreadsTypeOK, HoldsJob
<1>41. CASE StopFail
  BY <1>41 DEF StopFail, Fail, Lifecycle, OpenedOnce, Unopened, Abandoning, TypeOK, DocsTypeOK,
     ThreadsTypeOK, HoldsJob
<1>42. CASE StopAbort
  BY <1>42 DEF StopAbort, CancelSource, Lifecycle, OpenedOnce, Unopened, Abandoning, TypeOK,
     DocsTypeOK, ThreadsTypeOK, HoldsJob
<1>43. CASE StopJoin
  BY <1>43 DEF StopJoin, Lifecycle, OpenedOnce, Unopened, Abandoning, TypeOK, DocsTypeOK,
     ThreadsTypeOK, HoldsJob
<1>44. CASE StopDone
  BY <1>44 DEF StopDone, Lifecycle, OpenedOnce, Unopened, Abandoning, TypeOK, DocsTypeOK,
     ThreadsTypeOK, HoldsJob
<1>45. ASSUME NEW x \in Docs, StopWaiter(x) PROVE OpenedOnce'
  BY <1>45 DEF StopWaiter, queue_reschedule, Lifecycle, OpenedOnce, Unopened, Abandoning, TypeOK,
     DocsTypeOK, ThreadsTypeOK, HoldsJob
<1>46. ASSUME NEW x \in Docs, StopExamine(x) PROVE OpenedOnce'
  BY <1>46 DEF StopExamine, Lifecycle, OpenedOnce, Unopened, Abandoning, TypeOK, DocsTypeOK,
     ThreadsTypeOK, HoldsJob
<1>47. ASSUME NEW x \in Docs, StopAbandon(x) PROVE OpenedOnce'
  <2>1. UNCHANGED <<documents, total_pages, source, stop_pc, job, pc>> /\ Abandoning
    BY <1>47 DEF StopAbandon, Abandoning
  <2>2. \A o \in Openers : job[o] = NoDoc /\ job[o] \notin Docs
    BY <2>1, SchedulerAssumption DEF Lifecycle, ThreadsSettled
  <2> QED BY <2>1, <2>2 DEF Lifecycle, OpenedOnce, Abandoning
<1>48. CASE UNCHANGED vars
  BY <1>48 DEF vars, Lifecycle, OpenedOnce, Unopened, Abandoning, TypeOK, DocsTypeOK,
     ThreadsTypeOK, HoldsJob
<1> QED BY StepCases, <1>1, <1>2, <1>3, <1>4, <1>5, <1>6, <1>7, <1>8, <1>9, <1>10, <1>11, <1>12,
    <1>13, <1>14, <1>15, <1>16, <1>17, <1>18, <1>19, <1>20, <1>21, <1>22, <1>23, <1>24, <1>25,
    <1>26, <1>27, <1>28, <1>29, <1>30, <1>31, <1>32, <1>33, <1>34, <1>35, <1>36, <1>37, <1>38,
    <1>39, <1>40, <1>41, <1>42, <1>43, <1>44, <1>45, <1>46, <1>47, <1>48
\* A page enters the pipeline from a sized document, and a document once sized
\* stays sized.
LEMMA PagesOpenedStep ==
  ASSUME TypeOK, HoldsJob, Lifecycle, [Next]_vars
  PROVE  PagesOpened'
<1> USE Roles
<1>1. ASSUME NEW x \in Docs, Submit(x) PROVE PagesOpened'
  BY <1>1 DEF Submit, Lifecycle, PagesOpened, TypeOK, DocsTypeOK, ThreadsTypeOK, HoldsJob
<1>2. ASSUME NEW x \in Docs, TicketCancel(x) PROVE PagesOpened'
  BY <1>2 DEF TicketCancel, Lifecycle, PagesOpened, TypeOK, DocsTypeOK, ThreadsTypeOK, HoldsJob
<1>3. ASSUME NEW x \in Docs, TicketAbort(x) PROVE PagesOpened'
  BY <1>3 DEF TicketAbort, CancelSource, Lifecycle, PagesOpened, TypeOK, DocsTypeOK,
     ThreadsTypeOK, HoldsJob
<1>4. ASSUME NEW x \in Docs, TicketRelease(x) PROVE PagesOpened'
  BY <1>4 DEF TicketRelease, release_slots, Lifecycle, PagesOpened, TypeOK, DocsTypeOK,
     ThreadsTypeOK, HoldsJob
<1>5. ASSUME NEW x \in Docs, TicketWake(x) PROVE PagesOpened'
  BY <1>5 DEF TicketWake, queue_reschedule, Lifecycle, PagesOpened, TypeOK, DocsTypeOK,
     ThreadsTypeOK, HoldsJob
<1>6. ASSUME NEW x \in Docs, EnqueueReschedule(x) PROVE PagesOpened'
  BY <1>6 DEF EnqueueReschedule, Lifecycle, PagesOpened, TypeOK, DocsTypeOK, ThreadsTypeOK,
     HoldsJob
<1>7. ASSUME NEW t \in Openers, OpenerPop(t) PROVE PagesOpened'
  BY <1>7 DEF OpenerPop, Goto, Lifecycle, PagesOpened, TypeOK, DocsTypeOK, ThreadsTypeOK, HoldsJob
<1>8. ASSUME NEW t \in Openers, OpenerCheck(t) PROVE PagesOpened'
  <2>1. UNCHANGED <<render, inference, assembly, total_pages, rs, rs_doc>> BY <1>8 DEF
      OpenerCheck
  <2>2. \A w \in Workers : job'[w] = job[w] BY <1>8 DEF OpenerCheck, Drop, TypeOK, ThreadsTypeOK
  <2> QED BY <2>1, <2>2 DEF Lifecycle, PagesOpened
<1>9. ASSUME NEW t \in Openers, OpenerPublish(t) PROVE PagesOpened'
  BY <1>9 DEF OpenerPublish, Goto, Lifecycle, PagesOpened, TypeOK, DocsTypeOK, ThreadsTypeOK,
     HoldsJob
<1>10. ASSUME NEW t \in Openers, OpenerRecheck(t) PROVE PagesOpened'
  BY <1>10 DEF OpenerRecheck, Goto, Lifecycle, PagesOpened, TypeOK, DocsTypeOK, ThreadsTypeOK,
     HoldsJob
<1>11. ASSUME NEW t \in Openers, OpenerSize(t) PROVE PagesOpened'
  <2>1. UNCHANGED <<render, inference, assembly, rs, rs_doc, job>> BY <1>11 DEF OpenerSize
  <2>2. job[t] \in Docs /\ total_pages[job[t]] = 0
    BY <1>11 DEF OpenerSize, HoldsJob, Lifecycle, OpenedOnce
  <2>3. \A d \in Docs : d # job[t] => total_pages'[d] = total_pages[d]
    BY <1>11 DEF OpenerSize, TypeOK, DocsTypeOK
  <2>4. \A d \in Docs : total_pages[d] > 0 => total_pages'[d] > 0 BY <2>2, <2>3
  <2>5. rs \in {"push", "cut"} => rs_doc \in Docs BY DEF HoldsJob
  <2> QED BY <2>1, <2>4, <2>5, QueuedAre DEF Lifecycle, PagesOpened
<1>12. ASSUME NEW t \in Openers, OpenerAnnounce(t) PROVE PagesOpened'
  BY <1>12 DEF OpenerAnnounce, Goto, Lifecycle, PagesOpened, TypeOK, DocsTypeOK, ThreadsTypeOK,
     HoldsJob
<1>13. ASSUME NEW t \in Openers, OpenerWake(t) PROVE PagesOpened'
  BY <1>13 DEF OpenerWake, queue_reschedule, Drop, Goto, Lifecycle, PagesOpened, TypeOK,
     DocsTypeOK, ThreadsTypeOK, HoldsJob
<1>14. ASSUME NEW t \in Openers, OpenerSettle(t) PROVE PagesOpened'
  BY <1>14 DEF OpenerSettle, finish_request, queue_reschedule, Drop, Goto, Lifecycle, PagesOpened,
     TypeOK, DocsTypeOK, ThreadsTypeOK, HoldsJob
<1>15. ASSUME NEW t \in Threads, ThreadFail(t) PROVE PagesOpened'
  BY <1>15 DEF ThreadFail, Fail, Goto, Lifecycle, PagesOpened, TypeOK, DocsTypeOK, ThreadsTypeOK,
     HoldsJob
<1>16. ASSUME NEW t \in Threads, ThreadAbort(t) PROVE PagesOpened'
  BY <1>16 DEF ThreadAbort, CancelSource, Goto, Lifecycle, PagesOpened, TypeOK, DocsTypeOK,
     ThreadsTypeOK, HoldsJob
<1>17. CASE RescheduleNext
  BY <1>17 DEF RescheduleNext, Lifecycle, PagesOpened, TypeOK, DocsTypeOK, ThreadsTypeOK, HoldsJob
<1>18. CASE RescheduleClear
  BY <1>18 DEF RescheduleClear, Lifecycle, PagesOpened, TypeOK, DocsTypeOK, ThreadsTypeOK,
     HoldsJob
<1>19. CASE ScheduleEnter
  BY <1>19 DEF ScheduleEnter, RescheduleDone, Lifecycle, PagesOpened, TypeOK, DocsTypeOK,
     ThreadsTypeOK, HoldsJob
<1>20. CASE SchedulePush
  <2>1. UNCHANGED <<inference, assembly, total_pages, job>> /\ rs_doc \in Docs /\
      total_pages[rs_doc] > 0
    BY <1>20 DEF SchedulePush, HoldsJob, Lifecycle, PagesOpened
  <2>2. CASE PushPage(rs_doc) /\ UNCHANGED <<rs, rs_doc>> /\ next_page[rs_doc] <=
      total_pages[rs_doc]
    <3>1. <<rs_doc, next_page[rs_doc]>> \in Jobs /\ render \in Seq(Jobs)
      BY <2>1, <2>2, SchedulerAssumption DEF Jobs, Pages, TypeOK, DocsTypeOK, QueuesTypeOK
    <3>2. Range(render') = Range(render) \cup {<<rs_doc, next_page[rs_doc]>>}
      BY <2>2, <3>1, AppendElements DEF PushPage
    <3> QED BY <2>1, <2>2, <3>2 DEF Lifecycle, PagesOpened
  <2>3. CASE RescheduleDone /\ UNCHANGED render
    BY <2>1, <2>3 DEF RescheduleDone, Lifecycle, PagesOpened
  <2> QED BY <1>20, <2>2, <2>3 DEF SchedulePush
<1>21. CASE ScheduleCut
  BY <1>21 DEF ScheduleCut, CountDown, finish_request, RescheduleDone, Lifecycle, PagesOpened,
     TypeOK, DocsTypeOK, ThreadsTypeOK, HoldsJob
<1>22. ASSUME NEW t \in Renderers, RenderPop(t) PROVE PagesOpened'
  <2>1. UNCHANGED <<inference, assembly, total_pages, rs, rs_doc>> BY <1>22 DEF RenderPop
  <2>2. CASE render # <<>> /\ render' = Tail(render) /\ Take(t, Head(render))
    <3>1. render \in Seq(Jobs) BY DEF TypeOK, QueuesTypeOK
    <3>2. Range(render) = Range(render') \cup {Head(render)} BY <2>2, <3>1, TailElements
    <3>3. total_pages[Head(render)[1]] > 0 BY <3>2 DEF Lifecycle, PagesOpened
    <3>4. job'[t] = Head(render)[1] /\ \A w \in Workers : w # t => job'[w] = job[w]
      BY <2>2 DEF Take, TypeOK, ThreadsTypeOK
    <3> QED BY <2>1, <3>2, <3>3, <3>4 DEF Lifecycle, PagesOpened
  <2>3. CASE UNCHANGED <<job, render>> BY <2>1, <2>3 DEF Lifecycle, PagesOpened
  <2> QED BY <1>22, <2>2, <2>3 DEF RenderPop
<1>23. ASSUME NEW t \in Renderers, RenderNotify(t) PROVE PagesOpened'
  BY <1>23 DEF RenderNotify, queue_reschedule, Goto, Lifecycle, PagesOpened, TypeOK, DocsTypeOK,
     ThreadsTypeOK, HoldsJob
<1>24. ASSUME NEW t \in Renderers, RenderWork(t) PROVE PagesOpened'
  BY <1>24 DEF RenderWork, Step, Goto, Lifecycle, PagesOpened, TypeOK, DocsTypeOK, ThreadsTypeOK,
     HoldsJob
<1>25. ASSUME NEW t \in Recognizers, RecognizePop(t) PROVE PagesOpened'
  <2>1. UNCHANGED <<render, assembly, total_pages, rs, rs_doc>> BY <1>25 DEF RecognizePop
  <2>2. CASE inference # <<>> /\ inference' = Tail(inference) /\ Take(t, Head(inference))
    <3>1. inference \in Seq(Jobs) BY DEF TypeOK, QueuesTypeOK
    <3>2. Range(inference) = Range(inference') \cup {Head(inference)} BY <2>2, <3>1,
        TailElements
    <3>3. total_pages[Head(inference)[1]] > 0 BY <3>2 DEF Lifecycle, PagesOpened
    <3>4. job'[t] = Head(inference)[1] /\ \A w \in Workers : w # t => job'[w] = job[w]
      BY <2>2 DEF Take, TypeOK, ThreadsTypeOK
    <3> QED BY <2>1, <3>2, <3>3, <3>4 DEF Lifecycle, PagesOpened
  <2>3. CASE UNCHANGED <<job, inference>> BY <2>1, <2>3 DEF Lifecycle, PagesOpened
  <2> QED BY <1>25, <2>2, <2>3 DEF RecognizePop
<1>26. ASSUME NEW t \in Recognizers, RecognizeWork(t) PROVE PagesOpened'
  BY <1>26 DEF RecognizeWork, Step, Goto, Lifecycle, PagesOpened, TypeOK, DocsTypeOK,
     ThreadsTypeOK, HoldsJob
<1>27. ASSUME NEW t \in Assemblers, AssemblePop(t) PROVE PagesOpened'
  <2>1. UNCHANGED <<render, inference, total_pages, rs, rs_doc>> BY <1>27 DEF AssemblePop
  <2>2. CASE assembly # <<>> /\ assembly' = Tail(assembly) /\ Take(t, Head(assembly))
    <3>1. assembly \in Seq(Jobs) BY DEF TypeOK, QueuesTypeOK
    <3>2. Range(assembly) = Range(assembly') \cup {Head(assembly)} BY <2>2, <3>1, TailElements
    <3>3. total_pages[Head(assembly)[1]] > 0 BY <3>2 DEF Lifecycle, PagesOpened
    <3>4. job'[t] = Head(assembly)[1] /\ \A w \in Workers : w # t => job'[w] = job[w]
      BY <2>2 DEF Take, TypeOK, ThreadsTypeOK
    <3> QED BY <2>1, <3>2, <3>3, <3>4 DEF Lifecycle, PagesOpened
  <2>3. CASE UNCHANGED <<job, assembly>> BY <2>1, <2>3 DEF Lifecycle, PagesOpened
  <2> QED BY <1>27, <2>2, <2>3 DEF AssemblePop
<1>28. ASSUME NEW t \in Assemblers, Deliver(t) PROVE PagesOpened'
  BY <1>28 DEF Deliver, Goto, Lifecycle, PagesOpened, TypeOK, DocsTypeOK, ThreadsTypeOK, HoldsJob
<1>29. ASSUME NEW t \in Assemblers, ReturnCredit(t) PROVE PagesOpened'
  BY <1>29 DEF ReturnCredit, release_slots, Goto, Lifecycle, PagesOpened, TypeOK, DocsTypeOK,
     ThreadsTypeOK, HoldsJob
<1>30. ASSUME NEW t \in Assemblers, WakeAfterCredit(t) PROVE PagesOpened'
  BY <1>30 DEF WakeAfterCredit, queue_reschedule, Goto, Lifecycle, PagesOpened, TypeOK,
     DocsTypeOK, ThreadsTypeOK, HoldsJob
<1>31. ASSUME NEW t \in Renderers, PushInference(t) PROVE PagesOpened'
  <2>1. UNCHANGED <<render, assembly, total_pages, rs, rs_doc>> BY <1>31 DEF PushInference
  <2>2. CASE inference' = Append(inference, <<job[t], page[t]>>) /\ Drop(t)
    <3>1. job[t] \in Docs /\ page[t] \in Pages BY <1>31 DEF PushInference, HoldsJob
    <3>2. <<job[t], page[t]>> \in Jobs /\ inference \in Seq(Jobs)
      BY <3>1 DEF Jobs, TypeOK, QueuesTypeOK
    <3>3. Range(inference') = Range(inference) \cup {<<job[t], page[t]>>} BY <2>2, <3>2,
        AppendElements
    <3>4. job'[t] = NoDoc /\ \A w \in Workers : w # t => job'[w] = job[w]
      BY <2>2 DEF Drop, TypeOK, ThreadsTypeOK
    <3> QED BY <2>1, <3>1, <3>3, <3>4, SchedulerAssumption DEF Lifecycle, PagesOpened
  <2>3. CASE UNCHANGED <<job, inference>> BY <2>1, <2>3 DEF Lifecycle, PagesOpened
  <2> QED BY <1>31, <2>2, <2>3 DEF PushInference
<1>32. ASSUME NEW t \in Workers, PushAssembly(t) PROVE PagesOpened'
  <2>1. UNCHANGED <<render, inference, total_pages, rs, rs_doc>> BY <1>32 DEF PushAssembly
  <2>2. CASE assembly' = Append(assembly, <<job[t], page[t]>>) /\ Drop(t)
    <3>1. job[t] \in Docs /\ page[t] \in Pages BY <1>32 DEF PushAssembly, HoldsJob
    <3>2. <<job[t], page[t]>> \in Jobs /\ assembly \in Seq(Jobs)
      BY <3>1 DEF Jobs, TypeOK, QueuesTypeOK
    <3>3. Range(assembly') = Range(assembly) \cup {<<job[t], page[t]>>} BY <2>2, <3>2,
        AppendElements
    <3>4. job'[t] = NoDoc /\ \A w \in Workers : w # t => job'[w] = job[w]
      BY <2>2 DEF Drop, TypeOK, ThreadsTypeOK
    <3> QED BY <2>1, <3>1, <3>3, <3>4, SchedulerAssumption DEF Lifecycle, PagesOpened
  <2>3. CASE UNCHANGED <<job, assembly>> BY <2>1, <2>3 DEF Lifecycle, PagesOpened
  <2> QED BY <1>32, <2>2, <2>3 DEF PushAssembly
<1>33. ASSUME NEW t \in Workers, CheckCancelled(t) PROVE PagesOpened'
  BY <1>33 DEF CheckCancelled, Step, Goto, Lifecycle, PagesOpened, TypeOK, DocsTypeOK,
     ThreadsTypeOK, HoldsJob
<1>34. ASSUME NEW t \in Workers, CompletePage(t) PROVE PagesOpened'
  BY <1>34 DEF CompletePage, queue_reschedule, Goto, Lifecycle, PagesOpened, TypeOK, DocsTypeOK,
     ThreadsTypeOK, HoldsJob
<1>35. ASSUME NEW t \in Workers, CountPage(t) PROVE PagesOpened'
  <2>1. UNCHANGED <<render, inference, assembly, total_pages, rs, rs_doc>> BY <1>35 DEF
      CountPage
  <2>2. job'[t] = NoDoc /\ \A w \in Workers : w # t => job'[w] = job[w]
    BY <1>35 DEF CountPage, Drop, TypeOK, ThreadsTypeOK
  <2> QED BY <2>1, <2>2, SchedulerAssumption DEF Lifecycle, PagesOpened
<1>36. CASE StopDocuments
  BY <1>36 DEF StopDocuments, StopClose, Lifecycle, PagesOpened, TypeOK, DocsTypeOK,
     ThreadsTypeOK, HoldsJob
<1>37. CASE StopReschedule
  BY <1>37 DEF StopReschedule, Lifecycle, PagesOpened, TypeOK, DocsTypeOK, ThreadsTypeOK, HoldsJob
<1>38. CASE StopRender
  BY <1>38 DEF StopRender, StopClose, Lifecycle, PagesOpened, TypeOK, DocsTypeOK, ThreadsTypeOK,
     HoldsJob
<1>39. CASE StopInference
  BY <1>39 DEF StopInference, StopClose, Lifecycle, PagesOpened, TypeOK, DocsTypeOK,
     ThreadsTypeOK, HoldsJob
<1>40. CASE StopAssembly
  BY <1>40 DEF StopAssembly, StopClose, Lifecycle, PagesOpened, TypeOK, DocsTypeOK, ThreadsTypeOK,
     HoldsJob
<1>41. CASE StopFail
  BY <1>41 DEF StopFail, Fail, Lifecycle, PagesOpened, TypeOK, DocsTypeOK, ThreadsTypeOK, HoldsJob
<1>42. CASE StopAbort
  BY <1>42 DEF StopAbort, CancelSource, Lifecycle, PagesOpened, TypeOK, DocsTypeOK, ThreadsTypeOK,
     HoldsJob
<1>43. CASE StopJoin
  BY <1>43 DEF StopJoin, Lifecycle, PagesOpened, TypeOK, DocsTypeOK, ThreadsTypeOK, HoldsJob
<1>44. CASE StopDone
  BY <1>44 DEF StopDone, Lifecycle, PagesOpened, TypeOK, DocsTypeOK, ThreadsTypeOK, HoldsJob
<1>45. ASSUME NEW x \in Docs, StopWaiter(x) PROVE PagesOpened'
  BY <1>45 DEF StopWaiter, queue_reschedule, Lifecycle, PagesOpened, TypeOK, DocsTypeOK,
     ThreadsTypeOK, HoldsJob
<1>46. ASSUME NEW x \in Docs, StopExamine(x) PROVE PagesOpened'
  BY <1>46 DEF StopExamine, Lifecycle, PagesOpened, TypeOK, DocsTypeOK, ThreadsTypeOK, HoldsJob
<1>47. ASSUME NEW x \in Docs, StopAbandon(x) PROVE PagesOpened'
  BY <1>47 DEF StopAbandon, Fail, CancelSource, finish_request, Lifecycle, PagesOpened, TypeOK,
     DocsTypeOK, ThreadsTypeOK, HoldsJob
<1>48. CASE UNCHANGED vars
  BY <1>48 DEF vars, Lifecycle, PagesOpened, TypeOK, DocsTypeOK, ThreadsTypeOK, HoldsJob
<1> QED BY StepCases, <1>1, <1>2, <1>3, <1>4, <1>5, <1>6, <1>7, <1>8, <1>9, <1>10, <1>11, <1>12,
    <1>13, <1>14, <1>15, <1>16, <1>17, <1>18, <1>19, <1>20, <1>21, <1>22, <1>23, <1>24, <1>25,
    <1>26, <1>27, <1>28, <1>29, <1>30, <1>31, <1>32, <1>33, <1>34, <1>35, <1>36, <1>37, <1>38,
    <1>39, <1>40, <1>41, <1>42, <1>43, <1>44, <1>45, <1>46, <1>47, <1>48
\* A thread sets its job down whenever it goes back to its queue or ends.
LEMMA ThreadsSettledStep ==
  ASSUME TypeOK, HoldsJob, Lifecycle, [Next]_vars
  PROVE  ThreadsSettled'
<1> USE Roles
<1>1. ASSUME NEW x \in Docs, Submit(x) PROVE ThreadsSettled'
  BY <1>1 DEF Submit, Lifecycle, ThreadsSettled, Abandoning, TypeOK, DocsTypeOK, ThreadsTypeOK,
     HoldsJob
<1>2. ASSUME NEW x \in Docs, TicketCancel(x) PROVE ThreadsSettled'
  BY <1>2 DEF TicketCancel, Lifecycle, ThreadsSettled, Abandoning, TypeOK, DocsTypeOK,
     ThreadsTypeOK, HoldsJob
<1>3. ASSUME NEW x \in Docs, TicketAbort(x) PROVE ThreadsSettled'
  BY <1>3 DEF TicketAbort, CancelSource, Lifecycle, ThreadsSettled, Abandoning, TypeOK,
     DocsTypeOK, ThreadsTypeOK, HoldsJob
<1>4. ASSUME NEW x \in Docs, TicketRelease(x) PROVE ThreadsSettled'
  BY <1>4 DEF TicketRelease, release_slots, Lifecycle, ThreadsSettled, Abandoning, TypeOK,
     DocsTypeOK, ThreadsTypeOK, HoldsJob
<1>5. ASSUME NEW x \in Docs, TicketWake(x) PROVE ThreadsSettled'
  BY <1>5 DEF TicketWake, queue_reschedule, Lifecycle, ThreadsSettled, Abandoning, TypeOK,
     DocsTypeOK, ThreadsTypeOK, HoldsJob
<1>6. ASSUME NEW x \in Docs, EnqueueReschedule(x) PROVE ThreadsSettled'
  BY <1>6 DEF EnqueueReschedule, Lifecycle, ThreadsSettled, Abandoning, TypeOK, DocsTypeOK,
     ThreadsTypeOK, HoldsJob
<1>7. ASSUME NEW t \in Openers, OpenerPop(t) PROVE ThreadsSettled'
  <2>1. UNCHANGED <<cancelled, rs, rs_doc, next_page, total_pages, stop_pc, stopping, closed>>
    BY <1>7 DEF OpenerPop
  <2>2. /\ pc'[t] = "exited" => job'[t] = NoDoc
        /\ pc'[t] \in {"opening", "exited"}
        /\ \A u \in Threads : u # t => pc'[u] = pc[u] /\ job'[u] = job[u]
    BY <1>7 DEF OpenerPop, Take, Goto, Lifecycle, ThreadsSettled, TypeOK, ThreadsTypeOK
  <2>3. ~Abandoning BY <1>7 DEF OpenerPop, Lifecycle, ThreadsSettled
  <2> QED BY <2>1, <2>2, <2>3 DEF Lifecycle, ThreadsSettled, Abandoning
<1>8. ASSUME NEW t \in Openers, OpenerCheck(t) PROVE ThreadsSettled'
  BY <1>8 DEF OpenerCheck, finish_request, Drop, Goto, Lifecycle, ThreadsSettled, Abandoning,
     TypeOK, DocsTypeOK, ThreadsTypeOK, HoldsJob
<1>9. ASSUME NEW t \in Openers, OpenerPublish(t) PROVE ThreadsSettled'
  BY <1>9 DEF OpenerPublish, Goto, Lifecycle, ThreadsSettled, Abandoning, TypeOK, DocsTypeOK,
     ThreadsTypeOK, HoldsJob
<1>10. ASSUME NEW t \in Openers, OpenerRecheck(t) PROVE ThreadsSettled'
  BY <1>10 DEF OpenerRecheck, Goto, Lifecycle, ThreadsSettled, Abandoning, TypeOK, DocsTypeOK,
     ThreadsTypeOK, HoldsJob
<1>11. ASSUME NEW t \in Openers, OpenerSize(t) PROVE ThreadsSettled'
  <2>1. UNCHANGED <<job, cancelled, rs, rs_doc, stop_pc, stopping, closed>> BY <1>11 DEF
      OpenerSize
  <2>2. job[t] \in Docs /\ total_pages[job[t]] = 0
    BY <1>11 DEF OpenerSize, HoldsJob, Lifecycle, OpenedOnce
  <2>3. pc'[t] \in {"sized", "fail"} /\ \A u \in Threads : u # t => pc'[u] = pc[u]
    BY <1>11 DEF OpenerSize, Goto, TypeOK, ThreadsTypeOK
  <2>4. rs = "cut" => rs_doc \in Docs /\ rs_doc # job[t] BY <2>2 DEF HoldsJob, Lifecycle,
      PagesOpened
  <2>5. \A d \in Docs : d # job[t] => total_pages'[d] = total_pages[d] /\ next_page'[d] =
      next_page[d]
    BY <1>11 DEF OpenerSize, TypeOK, DocsTypeOK
  <2>6. ~Abandoning BY <1>11 DEF OpenerSize, Lifecycle, ThreadsSettled
  <2> QED BY <2>1, <2>3, <2>4, <2>5, <2>6 DEF Lifecycle, ThreadsSettled, Abandoning
<1>12. ASSUME NEW t \in Openers, OpenerAnnounce(t) PROVE ThreadsSettled'
  BY <1>12 DEF OpenerAnnounce, Goto, Lifecycle, ThreadsSettled, Abandoning, TypeOK, DocsTypeOK,
     ThreadsTypeOK, HoldsJob
<1>13. ASSUME NEW t \in Openers, OpenerWake(t) PROVE ThreadsSettled'
  BY <1>13 DEF OpenerWake, queue_reschedule, Drop, Goto, Lifecycle, ThreadsSettled, Abandoning,
     TypeOK, DocsTypeOK, ThreadsTypeOK, HoldsJob
<1>14. ASSUME NEW t \in Openers, OpenerSettle(t) PROVE ThreadsSettled'
  BY <1>14 DEF OpenerSettle, finish_request, queue_reschedule, Drop, Goto, Lifecycle,
     ThreadsSettled, Abandoning, TypeOK, DocsTypeOK, ThreadsTypeOK, HoldsJob
<1>15. ASSUME NEW t \in Threads, ThreadFail(t) PROVE ThreadsSettled'
  BY <1>15 DEF ThreadFail, Fail, Goto, Lifecycle, ThreadsSettled, Abandoning, TypeOK, DocsTypeOK,
     ThreadsTypeOK, HoldsJob
<1>16. ASSUME NEW t \in Threads, ThreadAbort(t) PROVE ThreadsSettled'
  BY <1>16 DEF ThreadAbort, CancelSource, Goto, Lifecycle, ThreadsSettled, Abandoning, TypeOK,
     DocsTypeOK, ThreadsTypeOK, HoldsJob
<1>17. CASE RescheduleNext
  BY <1>17 DEF RescheduleNext, Lifecycle, ThreadsSettled, Abandoning, TypeOK, DocsTypeOK,
     ThreadsTypeOK, HoldsJob
<1>18. CASE RescheduleClear
  BY <1>18 DEF RescheduleClear, Lifecycle, ThreadsSettled, Abandoning, TypeOK, DocsTypeOK,
     ThreadsTypeOK, HoldsJob
<1>19. CASE ScheduleEnter
  BY <1>19 DEF ScheduleEnter, RescheduleDone, Lifecycle, ThreadsSettled, Abandoning, TypeOK,
     DocsTypeOK, ThreadsTypeOK, HoldsJob
<1>20. CASE SchedulePush
  BY <1>20 DEF SchedulePush, PushPage, Park, RescheduleDone, Lifecycle, ThreadsSettled,
     Abandoning, TypeOK, DocsTypeOK, ThreadsTypeOK, HoldsJob
<1>21. CASE ScheduleCut
  BY <1>21 DEF ScheduleCut, CountDown, finish_request, RescheduleDone, Lifecycle, ThreadsSettled,
     Abandoning, TypeOK, DocsTypeOK, ThreadsTypeOK, HoldsJob
<1>22. ASSUME NEW t \in Renderers, RenderPop(t) PROVE ThreadsSettled'
  <2>1. UNCHANGED <<cancelled, rs, rs_doc, next_page, total_pages, stop_pc, stopping, closed>>
    BY <1>22 DEF RenderPop
  <2>2. /\ pc'[t] = "exited" => job'[t] = NoDoc
        /\ pc'[t] \in {"held", "notify", "exited"}
        /\ \A u \in Threads : u # t => pc'[u] = pc[u] /\ job'[u] = job[u]
    BY <1>22 DEF RenderPop, Take, Goto, Lifecycle, ThreadsSettled, TypeOK, ThreadsTypeOK
  <2>3. ~Abandoning BY <1>22 DEF RenderPop, Lifecycle, ThreadsSettled
  <2> QED BY <2>1, <2>2, <2>3 DEF Lifecycle, ThreadsSettled, Abandoning
<1>23. ASSUME NEW t \in Renderers, RenderNotify(t) PROVE ThreadsSettled'
  BY <1>23 DEF RenderNotify, queue_reschedule, Goto, Lifecycle, ThreadsSettled, Abandoning,
     TypeOK, DocsTypeOK, ThreadsTypeOK, HoldsJob
<1>24. ASSUME NEW t \in Renderers, RenderWork(t) PROVE ThreadsSettled'
  BY <1>24 DEF RenderWork, Step, Goto, Lifecycle, ThreadsSettled, Abandoning, TypeOK, DocsTypeOK,
     ThreadsTypeOK, HoldsJob
<1>25. ASSUME NEW t \in Recognizers, RecognizePop(t) PROVE ThreadsSettled'
  <2>1. UNCHANGED <<cancelled, rs, rs_doc, next_page, total_pages, stop_pc, stopping, closed>>
    BY <1>25 DEF RecognizePop
  <2>2. /\ pc'[t] = "exited" => job'[t] = NoDoc
        /\ pc'[t] \in {"held", "exited"}
        /\ \A u \in Threads : u # t => pc'[u] = pc[u] /\ job'[u] = job[u]
    BY <1>25 DEF RecognizePop, Take, Goto, Lifecycle, ThreadsSettled, TypeOK, ThreadsTypeOK
  <2>3. ~Abandoning BY <1>25 DEF RecognizePop, Lifecycle, ThreadsSettled
  <2> QED BY <2>1, <2>2, <2>3 DEF Lifecycle, ThreadsSettled, Abandoning
<1>26. ASSUME NEW t \in Recognizers, RecognizeWork(t) PROVE ThreadsSettled'
  BY <1>26 DEF RecognizeWork, Step, Goto, Lifecycle, ThreadsSettled, Abandoning, TypeOK,
     DocsTypeOK, ThreadsTypeOK, HoldsJob
<1>27. ASSUME NEW t \in Assemblers, AssemblePop(t) PROVE ThreadsSettled'
  <2>1. UNCHANGED <<cancelled, rs, rs_doc, next_page, total_pages, stop_pc, stopping, closed>>
    BY <1>27 DEF AssemblePop
  <2>2. /\ pc'[t] = "exited" => job'[t] = NoDoc
        /\ pc'[t] \in {"held", "exited"}
        /\ \A u \in Threads : u # t => pc'[u] = pc[u] /\ job'[u] = job[u]
    BY <1>27 DEF AssemblePop, Take, Goto, Lifecycle, ThreadsSettled, TypeOK, ThreadsTypeOK
  <2>3. ~Abandoning BY <1>27 DEF AssemblePop, Lifecycle, ThreadsSettled
  <2> QED BY <2>1, <2>2, <2>3 DEF Lifecycle, ThreadsSettled, Abandoning
<1>28. ASSUME NEW t \in Assemblers, Deliver(t) PROVE ThreadsSettled'
  BY <1>28 DEF Deliver, Goto, Lifecycle, ThreadsSettled, Abandoning, TypeOK, DocsTypeOK,
     ThreadsTypeOK, HoldsJob
<1>29. ASSUME NEW t \in Assemblers, ReturnCredit(t) PROVE ThreadsSettled'
  BY <1>29 DEF ReturnCredit, release_slots, Goto, Lifecycle, ThreadsSettled, Abandoning, TypeOK,
     DocsTypeOK, ThreadsTypeOK, HoldsJob
<1>30. ASSUME NEW t \in Assemblers, WakeAfterCredit(t) PROVE ThreadsSettled'
  BY <1>30 DEF WakeAfterCredit, queue_reschedule, Goto, Lifecycle, ThreadsSettled, Abandoning,
     TypeOK, DocsTypeOK, ThreadsTypeOK, HoldsJob
<1>31. ASSUME NEW t \in Renderers, PushInference(t) PROVE ThreadsSettled'
  <2>1. UNCHANGED <<cancelled, rs, rs_doc, next_page, total_pages, stop_pc, stopping, closed>>
    BY <1>31 DEF PushInference
  <2>2. /\ pc'[t] = "idle" => job'[t] = NoDoc
        /\ pc'[t] \in {"idle", "fail_closed"}
        /\ \A u \in Threads : u # t => pc'[u] = pc[u] /\ job'[u] = job[u]
    BY <1>31 DEF PushInference, Drop, Goto, TypeOK, ThreadsTypeOK
  <2>3. ~Abandoning BY <1>31 DEF PushInference, Lifecycle, ThreadsSettled
  <2> QED BY <2>1, <2>2, <2>3 DEF Lifecycle, ThreadsSettled, Abandoning
<1>32. ASSUME NEW t \in Workers, PushAssembly(t) PROVE ThreadsSettled'
  <2>1. UNCHANGED <<cancelled, rs, rs_doc, next_page, total_pages, stop_pc, stopping, closed>>
    BY <1>32 DEF PushAssembly
  <2>2. /\ pc'[t] = "idle" => job'[t] = NoDoc
        /\ pc'[t] \in {"idle", "fail_closed"}
        /\ \A u \in Threads : u # t => pc'[u] = pc[u] /\ job'[u] = job[u]
    BY <1>32 DEF PushAssembly, Drop, Goto, TypeOK, ThreadsTypeOK
  <2>3. ~Abandoning BY <1>32 DEF PushAssembly, Lifecycle, ThreadsSettled
  <2> QED BY <2>1, <2>2, <2>3 DEF Lifecycle, ThreadsSettled, Abandoning
<1>33. ASSUME NEW t \in Workers, CheckCancelled(t) PROVE ThreadsSettled'
  BY <1>33 DEF CheckCancelled, Step, Goto, Lifecycle, ThreadsSettled, Abandoning, TypeOK,
     DocsTypeOK, ThreadsTypeOK, HoldsJob
<1>34. ASSUME NEW t \in Workers, CompletePage(t) PROVE ThreadsSettled'
  BY <1>34 DEF CompletePage, queue_reschedule, Goto, Lifecycle, ThreadsSettled, Abandoning,
     TypeOK, DocsTypeOK, ThreadsTypeOK, HoldsJob
<1>35. ASSUME NEW t \in Workers, CountPage(t) PROVE ThreadsSettled'
  BY <1>35 DEF CountPage, CountDown, finish_request, Drop, Goto, Lifecycle, ThreadsSettled,
     Abandoning, TypeOK, DocsTypeOK, ThreadsTypeOK, HoldsJob
<1>36. CASE StopDocuments
  BY <1>36 DEF StopDocuments, StopClose, Lifecycle, ThreadsSettled, Abandoning, TypeOK,
     DocsTypeOK, ThreadsTypeOK, HoldsJob
<1>37. CASE StopReschedule
  BY <1>37 DEF StopReschedule, Lifecycle, ThreadsSettled, Abandoning, TypeOK, DocsTypeOK,
     ThreadsTypeOK, HoldsJob
<1>38. CASE StopRender
  BY <1>38 DEF StopRender, StopClose, Lifecycle, ThreadsSettled, Abandoning, TypeOK, DocsTypeOK,
     ThreadsTypeOK, HoldsJob
<1>39. CASE StopInference
  BY <1>39 DEF StopInference, StopClose, Lifecycle, ThreadsSettled, Abandoning, TypeOK,
     DocsTypeOK, ThreadsTypeOK, HoldsJob
<1>40. CASE StopAssembly
  BY <1>40 DEF StopAssembly, StopClose, Lifecycle, ThreadsSettled, Abandoning, TypeOK, DocsTypeOK,
     ThreadsTypeOK, HoldsJob
<1>41. CASE StopFail
  BY <1>41 DEF StopFail, Fail, Lifecycle, ThreadsSettled, Abandoning, TypeOK, DocsTypeOK,
     ThreadsTypeOK, HoldsJob
<1>42. CASE StopAbort
  BY <1>42 DEF StopAbort, CancelSource, Lifecycle, ThreadsSettled, Abandoning, TypeOK, DocsTypeOK,
     ThreadsTypeOK, HoldsJob
<1>43. CASE StopJoin
  BY <1>43 DEF StopJoin, Lifecycle, ThreadsSettled, Abandoning, TypeOK, DocsTypeOK, ThreadsTypeOK,
     HoldsJob
<1>44. CASE StopDone
  BY <1>44 DEF StopDone, Lifecycle, ThreadsSettled, Abandoning, TypeOK, DocsTypeOK, ThreadsTypeOK,
     HoldsJob
<1>45. ASSUME NEW x \in Docs, StopWaiter(x) PROVE ThreadsSettled'
  BY <1>45 DEF StopWaiter, queue_reschedule, Lifecycle, ThreadsSettled, Abandoning, TypeOK,
     DocsTypeOK, ThreadsTypeOK, HoldsJob
<1>46. ASSUME NEW x \in Docs, StopExamine(x) PROVE ThreadsSettled'
  BY <1>46 DEF StopExamine, Lifecycle, ThreadsSettled, Abandoning, TypeOK, DocsTypeOK,
     ThreadsTypeOK, HoldsJob
<1>47. ASSUME NEW x \in Docs, StopAbandon(x) PROVE ThreadsSettled'
  BY <1>47 DEF StopAbandon, Fail, CancelSource, finish_request, Lifecycle, ThreadsSettled,
     Abandoning, TypeOK, DocsTypeOK, ThreadsTypeOK, HoldsJob
<1>48. CASE UNCHANGED vars
  BY <1>48 DEF vars, Lifecycle, ThreadsSettled, Abandoning, TypeOK, DocsTypeOK, ThreadsTypeOK,
     HoldsJob
<1> QED BY StepCases, <1>1, <1>2, <1>3, <1>4, <1>5, <1>6, <1>7, <1>8, <1>9, <1>10, <1>11, <1>12,
    <1>13, <1>14, <1>15, <1>16, <1>17, <1>18, <1>19, <1>20, <1>21, <1>22, <1>23, <1>24, <1>25,
    <1>26, <1>27, <1>28, <1>29, <1>30, <1>31, <1>32, <1>33, <1>34, <1>35, <1>36, <1>37, <1>38,
    <1>39, <1>40, <1>41, <1>42, <1>43, <1>44, <1>45, <1>46, <1>47, <1>48

\* The initial state has no document.
LEMMA LifecycleInit == Init => Lifecycle
<1> SUFFICES ASSUME Init PROVE Lifecycle OBVIOUS
<1>1. Range(<<>>) = {} /\ IsInjective(<<>>) BY DEF Range, IsInjective
<1>2. Registered BY DEF Init, Registered, Known
<1>3. OpenedOnce BY <1>1, SchedulerAssumption DEF Init, OpenedOnce, Threads
<1>4. PagesOpened BY <1>1, SchedulerAssumption DEF Init, PagesOpened, Threads
<1>5. ThreadsSettled BY DEF Init, ThreadsSettled, Abandoning
<1> QED BY <1>2, <1>3, <1>4, <1>5 DEF Lifecycle

\* A document is admitted, queued, opened and sized at most once, it is
\* finished only after it was admitted, and pages and the rescheduler's work
\* exist only of documents whose span is known (submit(), coordinate()).
THEOREM LifecycleKept == Spec => []Lifecycle
<1>1. Init => Lifecycle BY LifecycleInit
<1>2. TypeOK /\ HoldsJob /\ Lifecycle /\ [Next]_vars => Lifecycle'
  BY RegisteredStep, OpenedOnceStep, PagesOpenedStep, ThreadsSettledStep DEF Lifecycle
<1> QED BY <1>1, <1>2, TypeCorrect, PTL DEF Spec

-----------------------------------------------------------------------------
(* No wake is lost. *)


\* The step leaves every wake of d in somebody's hands.
WakeKept(d) ==
  /\ Marked(d) => Marked(d)'
  /\ rs_doc = d /\ rs \in {"enter", "push"} => rs_doc' = d /\ rs' \in {"enter", "push"}
  /\ d \in space_waiters /\ Len(render) = RenderCapacity =>
       d \in space_waiters' /\ Len(render') = RenderCapacity
  /\ \A t \in Renderers : d \in waiters[t] => d \in waiters'[t]
  /\ ticket[d] \in {"abort", "wake", "wake_cancel"} =>
       ticket'[d] \in {"abort", "wake", "wake_cancel"}
  /\ \A t \in Openers : job[t] = d => job'[t] = d
  /\ cancelled[d] => cancelled'[d]
  /\ \A t \in Workers : job[t] = d /\ pc[t] \in Waking \cup {"complete"} =>
       /\ job'[t] = d
       /\ pc[t] \in Waking => pc'[t] \in Waking \/ (cancelled[d] /\ pc'[t] = "complete")
       /\ pc[t] = "complete" /\ cancelled[d] => pc'[t] = "complete"

\* A wake that is kept is still coming.
LEMMA KeptIsComing == ASSUME NEW d \in Docs, WakeComing(d), WakeKept(d) PROVE WakeComing(d)'
<1>1. CASE Marked(d) BY <1>1 DEF WakeKept, WakeComing
<1>2. CASE \/ rs_doc = d /\ rs \in {"enter", "push"}
           \/ d \in space_waiters /\ Len(render) = RenderCapacity
           \/ ticket[d] \in {"abort", "wake", "wake_cancel"}
  BY <1>2 DEF WakeKept, WakeComing
<1>3. CASE \E t \in Renderers : d \in waiters[t] BY <1>3 DEF WakeKept, WakeComing
<1>4. CASE \E t \in Openers : job[t] = d BY <1>4 DEF WakeKept, WakeComing
<1>5. CASE \E t \in Workers :
             job[t] = d /\ (pc[t] \in Waking \/ (cancelled[d] /\ pc[t] = "complete"))
  BY <1>5 DEF WakeKept, WakeComing
<1> QED BY <1>1, <1>2, <1>3, <1>4, <1>5 DEF WakeComing

\* queue_reschedule() leaves the mark of its document in somebody's hands, and
\* takes it from nobody.
LEMMA QueueMarks ==
  ASSUME TypeOK, NEW e \in Docs, queue_reschedule(e),
         UNCHANGED <<rs, rs_doc, pending_reschedules, stopping, finish_called>>
  PROVE  /\ \A d \in Docs : Marked(d) => Marked(d)'
         /\ PendingOwned /\ ~stopping /\ ~finish_called[e] => Marked(e)'
BY DEF queue_reschedule, Marked, PendingOwned, TypeOK, DocsTypeOK

\* The caller that queue_reschedule() elects owns the mark until it is queued, the
\* rescheduler until it clears it.
LEMMA PendingOwnedStep ==
  ASSUME TypeOK, HoldsJob, WakesOwned, [Next]_vars
  PROVE  PendingOwned'
<1> USE Roles
<1>1. ASSUME NEW x \in Docs, Submit(x) PROVE PendingOwned'
  BY <1>1 DEF Submit, WakesOwned, PendingOwned, Marked, TypeOK, DocsTypeOK
<1>2. ASSUME NEW x \in Docs, TicketCancel(x) PROVE PendingOwned'
  BY <1>2 DEF TicketCancel, WakesOwned, PendingOwned, Marked, TypeOK, DocsTypeOK
<1>3. ASSUME NEW x \in Docs, TicketAbort(x) PROVE PendingOwned'
  BY <1>3 DEF TicketAbort, CancelSource, WakesOwned, PendingOwned, Marked, TypeOK, DocsTypeOK
<1>4. ASSUME NEW x \in Docs, TicketRelease(x) PROVE PendingOwned'
  BY <1>4 DEF TicketRelease, release_slots, WakesOwned, PendingOwned, Marked, TypeOK, DocsTypeOK
<1>5. ASSUME NEW x \in Docs, TicketWake(x) PROVE PendingOwned'
  BY <1>5 DEF TicketWake, queue_reschedule, WakesOwned, PendingOwned, Marked, TypeOK, DocsTypeOK
<1>6. ASSUME NEW x \in Docs, EnqueueReschedule(x) PROVE PendingOwned'
  <2>1. CASE stopping BY <2>1, <1>6 DEF EnqueueReschedule, WakesOwned, PendingOwned, Marked,
      TypeOK, DocsTypeOK
  <2>2. CASE ~stopping
    <3>1. Range(pending_reschedules') = Range(pending_reschedules) \cup {x}
      BY <2>2, <1>6, AppendElements DEF EnqueueReschedule, TypeOK, QueuesTypeOK
    <3> QED BY <2>2, <3>1, <1>6 DEF EnqueueReschedule, WakesOwned, PendingOwned, Marked, TypeOK,
        DocsTypeOK
  <2> QED BY <2>1, <2>2
<1>7. ASSUME NEW t \in Openers, OpenerPop(t) PROVE PendingOwned'
  BY <1>7 DEF OpenerPop, Goto, WakesOwned, PendingOwned, Marked, TypeOK, DocsTypeOK
<1>8. ASSUME NEW t \in Openers, OpenerCheck(t) PROVE PendingOwned'
  BY <1>8 DEF OpenerCheck, finish_request, Drop, Goto, WakesOwned, PendingOwned, Marked, TypeOK,
     DocsTypeOK
<1>9. ASSUME NEW t \in Openers, OpenerPublish(t) PROVE PendingOwned'
  BY <1>9 DEF OpenerPublish, Goto, WakesOwned, PendingOwned, Marked, TypeOK, DocsTypeOK
<1>10. ASSUME NEW t \in Openers, OpenerRecheck(t) PROVE PendingOwned'
  BY <1>10 DEF OpenerRecheck, Goto, WakesOwned, PendingOwned, Marked, TypeOK, DocsTypeOK
<1>11. ASSUME NEW t \in Openers, OpenerSize(t) PROVE PendingOwned'
  BY <1>11 DEF OpenerSize, Goto, WakesOwned, PendingOwned, Marked, TypeOK, DocsTypeOK
<1>12. ASSUME NEW t \in Openers, OpenerAnnounce(t) PROVE PendingOwned'
  BY <1>12 DEF OpenerAnnounce, Goto, WakesOwned, PendingOwned, Marked, TypeOK, DocsTypeOK
<1>13. ASSUME NEW t \in Openers, OpenerWake(t) PROVE PendingOwned'
  BY <1>13 DEF OpenerWake, queue_reschedule, Drop, Goto, WakesOwned, PendingOwned, Marked, TypeOK,
     DocsTypeOK
<1>14. ASSUME NEW t \in Openers, OpenerSettle(t) PROVE PendingOwned'
  BY <1>14 DEF OpenerSettle, finish_request, queue_reschedule, Drop, Goto, WakesOwned,
     PendingOwned, Marked, TypeOK, DocsTypeOK
<1>15. ASSUME NEW t \in Threads, ThreadFail(t) PROVE PendingOwned'
  BY <1>15 DEF ThreadFail, Fail, Goto, WakesOwned, PendingOwned, Marked, TypeOK, DocsTypeOK
<1>16. ASSUME NEW t \in Threads, ThreadAbort(t) PROVE PendingOwned'
  BY <1>16 DEF ThreadAbort, CancelSource, Goto, WakesOwned, PendingOwned, Marked, TypeOK,
     DocsTypeOK
<1>17. CASE RescheduleNext
  <2>1. CASE stopping BY <2>1, <1>17 DEF RescheduleNext, WakesOwned, PendingOwned, Marked,
      TypeOK, DocsTypeOK
  <2>2. CASE ~stopping
    <3>1. Range(pending_reschedules) = Range(pending_reschedules') \cup
        {Head(pending_reschedules)}
      BY <2>2, <1>17, TailElements DEF RescheduleNext, TypeOK, QueuesTypeOK
    <3> QED BY <2>2, <3>1, <1>17 DEF RescheduleNext, WakesOwned, PendingOwned, Marked, TypeOK,
        DocsTypeOK
  <2> QED BY <2>1, <2>2
<1>18. CASE RescheduleClear
  BY <1>18 DEF RescheduleClear, WakesOwned, PendingOwned, Marked, TypeOK, DocsTypeOK
<1>19. CASE ScheduleEnter
  BY <1>19 DEF ScheduleEnter, RescheduleDone, WakesOwned, PendingOwned, Marked, TypeOK, DocsTypeOK
<1>20. CASE SchedulePush
  BY <1>20 DEF SchedulePush, PushPage, Park, RescheduleDone, WakesOwned, PendingOwned, Marked,
     TypeOK, DocsTypeOK
<1>21. CASE ScheduleCut
  BY <1>21 DEF ScheduleCut, CountDown, finish_request, RescheduleDone, WakesOwned, PendingOwned,
     Marked, TypeOK, DocsTypeOK
<1>22. ASSUME NEW t \in Renderers, RenderPop(t) PROVE PendingOwned'
  BY <1>22 DEF RenderPop, Take, Goto, WakesOwned, PendingOwned, Marked, TypeOK, DocsTypeOK
<1>23. ASSUME NEW t \in Renderers, RenderNotify(t) PROVE PendingOwned'
  BY <1>23 DEF RenderNotify, queue_reschedule, Goto, WakesOwned, PendingOwned, Marked, TypeOK,
     DocsTypeOK
<1>24. ASSUME NEW t \in Renderers, RenderWork(t) PROVE PendingOwned'
  BY <1>24 DEF RenderWork, Step, Goto, WakesOwned, PendingOwned, Marked, TypeOK, DocsTypeOK
<1>25. ASSUME NEW t \in Recognizers, RecognizePop(t) PROVE PendingOwned'
  BY <1>25 DEF RecognizePop, Take, Goto, WakesOwned, PendingOwned, Marked, TypeOK, DocsTypeOK
<1>26. ASSUME NEW t \in Recognizers, RecognizeWork(t) PROVE PendingOwned'
  BY <1>26 DEF RecognizeWork, Step, Goto, WakesOwned, PendingOwned, Marked, TypeOK, DocsTypeOK
<1>27. ASSUME NEW t \in Assemblers, AssemblePop(t) PROVE PendingOwned'
  BY <1>27 DEF AssemblePop, Take, Goto, WakesOwned, PendingOwned, Marked, TypeOK, DocsTypeOK
<1>28. ASSUME NEW t \in Assemblers, Deliver(t) PROVE PendingOwned'
  BY <1>28 DEF Deliver, Goto, WakesOwned, PendingOwned, Marked, TypeOK, DocsTypeOK
<1>29. ASSUME NEW t \in Assemblers, ReturnCredit(t) PROVE PendingOwned'
  BY <1>29 DEF ReturnCredit, release_slots, Goto, WakesOwned, PendingOwned, Marked, TypeOK,
     DocsTypeOK
<1>30. ASSUME NEW t \in Assemblers, WakeAfterCredit(t) PROVE PendingOwned'
  BY <1>30 DEF WakeAfterCredit, queue_reschedule, Goto, WakesOwned, PendingOwned, Marked, TypeOK,
     DocsTypeOK
<1>31. ASSUME NEW t \in Renderers, PushInference(t) PROVE PendingOwned'
  BY <1>31 DEF PushInference, Drop, Goto, WakesOwned, PendingOwned, Marked, TypeOK, DocsTypeOK
<1>32. ASSUME NEW t \in Workers, PushAssembly(t) PROVE PendingOwned'
  BY <1>32 DEF PushAssembly, Drop, Goto, WakesOwned, PendingOwned, Marked, TypeOK, DocsTypeOK
<1>33. ASSUME NEW t \in Workers, CheckCancelled(t) PROVE PendingOwned'
  BY <1>33 DEF CheckCancelled, Step, Goto, WakesOwned, PendingOwned, Marked, TypeOK, DocsTypeOK
<1>34. ASSUME NEW t \in Workers, CompletePage(t) PROVE PendingOwned'
  BY <1>34 DEF CompletePage, queue_reschedule, Goto, WakesOwned, PendingOwned, Marked, TypeOK,
     DocsTypeOK
<1>35. ASSUME NEW t \in Workers, CountPage(t) PROVE PendingOwned'
  BY <1>35 DEF CountPage, CountDown, finish_request, Drop, Goto, WakesOwned, PendingOwned, Marked,
     TypeOK, DocsTypeOK
<1>36. CASE StopDocuments
  BY <1>36 DEF StopDocuments, StopClose, WakesOwned, PendingOwned, Marked, TypeOK, DocsTypeOK
<1>37. CASE StopReschedule
  BY <1>37 DEF StopReschedule, WakesOwned, PendingOwned, Marked, TypeOK, DocsTypeOK
<1>38. CASE StopRender
  BY <1>38 DEF StopRender, StopClose, WakesOwned, PendingOwned, Marked, TypeOK, DocsTypeOK
<1>39. CASE StopInference
  BY <1>39 DEF StopInference, StopClose, WakesOwned, PendingOwned, Marked, TypeOK, DocsTypeOK
<1>40. CASE StopAssembly
  BY <1>40 DEF StopAssembly, StopClose, WakesOwned, PendingOwned, Marked, TypeOK, DocsTypeOK
<1>41. CASE StopFail
  BY <1>41 DEF StopFail, Fail, WakesOwned, PendingOwned, Marked, TypeOK, DocsTypeOK
<1>42. CASE StopAbort
  BY <1>42 DEF StopAbort, CancelSource, WakesOwned, PendingOwned, Marked, TypeOK, DocsTypeOK
<1>43. CASE StopJoin
  BY <1>43 DEF StopJoin, WakesOwned, PendingOwned, Marked, TypeOK, DocsTypeOK
<1>44. CASE StopDone
  BY <1>44 DEF StopDone, WakesOwned, PendingOwned, Marked, TypeOK, DocsTypeOK
<1>45. ASSUME NEW x \in Docs, StopWaiter(x) PROVE PendingOwned'
  BY <1>45 DEF StopWaiter, queue_reschedule, WakesOwned, PendingOwned, Marked, TypeOK, DocsTypeOK
<1>46. ASSUME NEW x \in Docs, StopExamine(x) PROVE PendingOwned'
  BY <1>46 DEF StopExamine, WakesOwned, PendingOwned, Marked, TypeOK, DocsTypeOK
<1>47. ASSUME NEW x \in Docs, StopAbandon(x) PROVE PendingOwned'
  BY <1>47 DEF StopAbandon, Fail, CancelSource, finish_request, WakesOwned, PendingOwned, Marked,
     TypeOK, DocsTypeOK
<1>48. CASE UNCHANGED vars
  BY <1>48 DEF vars, WakesOwned, PendingOwned, Marked, TypeOK, DocsTypeOK
<1> QED BY StepCases, <1>1, <1>2, <1>3, <1>4, <1>5, <1>6, <1>7, <1>8, <1>9, <1>10, <1>11, <1>12,
    <1>13, <1>14, <1>15, <1>16, <1>17, <1>18, <1>19, <1>20, <1>21, <1>22, <1>23, <1>24, <1>25,
    <1>26, <1>27, <1>28, <1>29, <1>30, <1>31, <1>32, <1>33, <1>34, <1>35, <1>36, <1>37, <1>38,
    <1>39, <1>40, <1>41, <1>42, <1>43, <1>44, <1>45, <1>46, <1>47, <1>48
\* try_push() parks a document only on a full queue, and the pop that frees a place
\* takes every parked document with it.
LEMMA ParkedOnFullStep ==
  ASSUME TypeOK, HoldsJob, Lifecycle, WakesOwned, [Next]_vars
  PROVE  ParkedOnFull'
<1> USE Roles
<1>1. ASSUME NEW x \in Docs, Submit(x) PROVE ParkedOnFull'
  BY <1>1 DEF Submit, WakesOwned, ParkedOnFull, TypeOK, ThreadsTypeOK, QueuesTypeOK
<1>2. ASSUME NEW x \in Docs, TicketCancel(x) PROVE ParkedOnFull'
  BY <1>2 DEF TicketCancel, WakesOwned, ParkedOnFull, TypeOK, ThreadsTypeOK, QueuesTypeOK
<1>3. ASSUME NEW x \in Docs, TicketAbort(x) PROVE ParkedOnFull'
  BY <1>3 DEF TicketAbort, CancelSource, WakesOwned, ParkedOnFull, TypeOK, ThreadsTypeOK,
     QueuesTypeOK
<1>4. ASSUME NEW x \in Docs, TicketRelease(x) PROVE ParkedOnFull'
  BY <1>4 DEF TicketRelease, release_slots, WakesOwned, ParkedOnFull, TypeOK, ThreadsTypeOK,
     QueuesTypeOK
<1>5. ASSUME NEW x \in Docs, TicketWake(x) PROVE ParkedOnFull'
  BY <1>5 DEF TicketWake, queue_reschedule, WakesOwned, ParkedOnFull, TypeOK, ThreadsTypeOK,
     QueuesTypeOK
<1>6. ASSUME NEW x \in Docs, EnqueueReschedule(x) PROVE ParkedOnFull'
  BY <1>6 DEF EnqueueReschedule, WakesOwned, ParkedOnFull, TypeOK, ThreadsTypeOK, QueuesTypeOK
<1>7. ASSUME NEW t \in Openers, OpenerPop(t) PROVE ParkedOnFull'
  BY <1>7 DEF OpenerPop, Goto, WakesOwned, ParkedOnFull, TypeOK, ThreadsTypeOK, QueuesTypeOK
<1>8. ASSUME NEW t \in Openers, OpenerCheck(t) PROVE ParkedOnFull'
  BY <1>8 DEF OpenerCheck, finish_request, Drop, Goto, WakesOwned, ParkedOnFull, TypeOK,
     ThreadsTypeOK, QueuesTypeOK
<1>9. ASSUME NEW t \in Openers, OpenerPublish(t) PROVE ParkedOnFull'
  BY <1>9 DEF OpenerPublish, Goto, WakesOwned, ParkedOnFull, TypeOK, ThreadsTypeOK, QueuesTypeOK
<1>10. ASSUME NEW t \in Openers, OpenerRecheck(t) PROVE ParkedOnFull'
  BY <1>10 DEF OpenerRecheck, Goto, WakesOwned, ParkedOnFull, TypeOK, ThreadsTypeOK, QueuesTypeOK
<1>11. ASSUME NEW t \in Openers, OpenerSize(t) PROVE ParkedOnFull'
  BY <1>11 DEF OpenerSize, Goto, WakesOwned, ParkedOnFull, TypeOK, ThreadsTypeOK, QueuesTypeOK
<1>12. ASSUME NEW t \in Openers, OpenerAnnounce(t) PROVE ParkedOnFull'
  BY <1>12 DEF OpenerAnnounce, Goto, WakesOwned, ParkedOnFull, TypeOK, ThreadsTypeOK, QueuesTypeOK
<1>13. ASSUME NEW t \in Openers, OpenerWake(t) PROVE ParkedOnFull'
  BY <1>13 DEF OpenerWake, queue_reschedule, Drop, Goto, WakesOwned, ParkedOnFull, TypeOK,
     ThreadsTypeOK, QueuesTypeOK
<1>14. ASSUME NEW t \in Openers, OpenerSettle(t) PROVE ParkedOnFull'
  BY <1>14 DEF OpenerSettle, finish_request, queue_reschedule, Drop, Goto, WakesOwned,
     ParkedOnFull, TypeOK, ThreadsTypeOK, QueuesTypeOK
<1>15. ASSUME NEW t \in Threads, ThreadFail(t) PROVE ParkedOnFull'
  BY <1>15 DEF ThreadFail, Fail, Goto, WakesOwned, ParkedOnFull, TypeOK, ThreadsTypeOK,
     QueuesTypeOK
<1>16. ASSUME NEW t \in Threads, ThreadAbort(t) PROVE ParkedOnFull'
  BY <1>16 DEF ThreadAbort, CancelSource, Goto, WakesOwned, ParkedOnFull, TypeOK, ThreadsTypeOK,
     QueuesTypeOK
<1>17. CASE RescheduleNext
  BY <1>17 DEF RescheduleNext, WakesOwned, ParkedOnFull, TypeOK, ThreadsTypeOK, QueuesTypeOK
<1>18. CASE RescheduleClear
  BY <1>18 DEF RescheduleClear, WakesOwned, ParkedOnFull, TypeOK, ThreadsTypeOK, QueuesTypeOK
<1>19. CASE ScheduleEnter
  BY <1>19 DEF ScheduleEnter, RescheduleDone, WakesOwned, ParkedOnFull, TypeOK, ThreadsTypeOK,
     QueuesTypeOK
<1>20. CASE SchedulePush
  <2>1. CASE PushPage(rs_doc) /\ Len(render) < RenderCapacity /\ UNCHANGED space_waiters
    <3>1. Len(render') = Len(render) + 1 BY <2>1 DEF PushPage, TypeOK, QueuesTypeOK
    <3>2. Len(render') <= RenderCapacity /\ space_waiters = {}
      BY <2>1, <3>1, SchedulerAssumption DEF WakesOwned, ParkedOnFull, TypeOK, QueuesTypeOK
    <3> QED BY <2>1, <3>2, <1>20 DEF SchedulePush, WakesOwned, ParkedOnFull
  <2>2. CASE Len(render) >= RenderCapacity /\ UNCHANGED render
    BY <2>2, <1>20, SchedulerAssumption DEF SchedulePush, WakesOwned, ParkedOnFull, TypeOK,
        QueuesTypeOK
  <2>3. CASE UNCHANGED <<render, space_waiters>>
    BY <2>3, <1>20 DEF SchedulePush, WakesOwned, ParkedOnFull
  <2> QED BY <1>20, <2>1, <2>2, <2>3 DEF SchedulePush
<1>21. CASE ScheduleCut
  BY <1>21 DEF ScheduleCut, CountDown, finish_request, RescheduleDone, WakesOwned, ParkedOnFull,
     TypeOK, ThreadsTypeOK, QueuesTypeOK
<1>22. ASSUME NEW t \in Renderers, RenderPop(t) PROVE ParkedOnFull'
  <2>1. CASE render # <<>> /\ render' = Tail(render) /\ space_waiters' = {}
             /\ waiters' = [waiters EXCEPT ![t] = space_waiters]
             /\ Goto(t, IF space_waiters = {} THEN "held" ELSE "notify")
    <3>1. Len(render') <= RenderCapacity
      BY <2>1, HeadTailProperties, SchedulerAssumption DEF WakesOwned, ParkedOnFull, TypeOK,
        QueuesTypeOK
    <3>2. pc'[t] # "notify" => waiters'[t] = {}
      BY <2>1 DEF Goto, TypeOK, ThreadsTypeOK
    <3>3. \A u \in Renderers : u # t => pc'[u] = pc[u] /\ waiters'[u] = waiters[u]
      BY <2>1 DEF Goto, TypeOK, ThreadsTypeOK
    <3> QED BY <2>1, <3>1, <3>2, <3>3 DEF WakesOwned, ParkedOnFull
  <2>2. CASE UNCHANGED <<render, space_waiters, waiters>> /\ Goto(t, "exited")
    BY <2>2, <1>22 DEF RenderPop, Goto, WakesOwned, ParkedOnFull, TypeOK, ThreadsTypeOK
  <2> QED BY <1>22, <2>1, <2>2 DEF RenderPop
<1>23. ASSUME NEW t \in Renderers, RenderNotify(t) PROVE ParkedOnFull'
  BY <1>23 DEF RenderNotify, queue_reschedule, Goto, WakesOwned, ParkedOnFull, TypeOK,
     ThreadsTypeOK, QueuesTypeOK
<1>24. ASSUME NEW t \in Renderers, RenderWork(t) PROVE ParkedOnFull'
  BY <1>24 DEF RenderWork, Step, Goto, WakesOwned, ParkedOnFull, TypeOK, ThreadsTypeOK,
     QueuesTypeOK
<1>25. ASSUME NEW t \in Recognizers, RecognizePop(t) PROVE ParkedOnFull'
  BY <1>25 DEF RecognizePop, Take, Goto, WakesOwned, ParkedOnFull, TypeOK, ThreadsTypeOK,
     QueuesTypeOK
<1>26. ASSUME NEW t \in Recognizers, RecognizeWork(t) PROVE ParkedOnFull'
  BY <1>26 DEF RecognizeWork, Step, Goto, WakesOwned, ParkedOnFull, TypeOK, ThreadsTypeOK,
     QueuesTypeOK
<1>27. ASSUME NEW t \in Assemblers, AssemblePop(t) PROVE ParkedOnFull'
  BY <1>27 DEF AssemblePop, Take, Goto, WakesOwned, ParkedOnFull, TypeOK, ThreadsTypeOK,
     QueuesTypeOK
<1>28. ASSUME NEW t \in Assemblers, Deliver(t) PROVE ParkedOnFull'
  BY <1>28 DEF Deliver, Goto, WakesOwned, ParkedOnFull, TypeOK, ThreadsTypeOK, QueuesTypeOK
<1>29. ASSUME NEW t \in Assemblers, ReturnCredit(t) PROVE ParkedOnFull'
  BY <1>29 DEF ReturnCredit, release_slots, Goto, WakesOwned, ParkedOnFull, TypeOK, ThreadsTypeOK,
     QueuesTypeOK
<1>30. ASSUME NEW t \in Assemblers, WakeAfterCredit(t) PROVE ParkedOnFull'
  BY <1>30 DEF WakeAfterCredit, queue_reschedule, Goto, WakesOwned, ParkedOnFull, TypeOK,
     ThreadsTypeOK, QueuesTypeOK
<1>31. ASSUME NEW t \in Renderers, PushInference(t) PROVE ParkedOnFull'
  BY <1>31 DEF PushInference, Drop, Goto, WakesOwned, ParkedOnFull, TypeOK, ThreadsTypeOK,
     QueuesTypeOK
<1>32. ASSUME NEW t \in Workers, PushAssembly(t) PROVE ParkedOnFull'
  BY <1>32 DEF PushAssembly, Drop, Goto, WakesOwned, ParkedOnFull, TypeOK, ThreadsTypeOK,
     QueuesTypeOK
<1>33. ASSUME NEW t \in Workers, CheckCancelled(t) PROVE ParkedOnFull'
  BY <1>33 DEF CheckCancelled, Step, Goto, WakesOwned, ParkedOnFull, TypeOK, ThreadsTypeOK,
     QueuesTypeOK
<1>34. ASSUME NEW t \in Workers, CompletePage(t) PROVE ParkedOnFull'
  BY <1>34 DEF CompletePage, queue_reschedule, Goto, WakesOwned, ParkedOnFull, TypeOK,
     ThreadsTypeOK, QueuesTypeOK
<1>35. ASSUME NEW t \in Workers, CountPage(t) PROVE ParkedOnFull'
  BY <1>35 DEF CountPage, CountDown, finish_request, Drop, Goto, WakesOwned, ParkedOnFull, TypeOK,
     ThreadsTypeOK, QueuesTypeOK
<1>36. CASE StopDocuments
  BY <1>36 DEF StopDocuments, StopClose, WakesOwned, ParkedOnFull, TypeOK, ThreadsTypeOK,
     QueuesTypeOK
<1>37. CASE StopReschedule
  BY <1>37 DEF StopReschedule, WakesOwned, ParkedOnFull, TypeOK, ThreadsTypeOK, QueuesTypeOK
<1>38. CASE StopRender
  BY <1>38 DEF StopRender, StopClose, WakesOwned, ParkedOnFull, TypeOK, ThreadsTypeOK,
     QueuesTypeOK
<1>39. CASE StopInference
  BY <1>39 DEF StopInference, StopClose, WakesOwned, ParkedOnFull, TypeOK, ThreadsTypeOK,
     QueuesTypeOK
<1>40. CASE StopAssembly
  BY <1>40 DEF StopAssembly, StopClose, WakesOwned, ParkedOnFull, TypeOK, ThreadsTypeOK,
     QueuesTypeOK
<1>41. CASE StopFail
  BY <1>41 DEF StopFail, Fail, WakesOwned, ParkedOnFull, TypeOK, ThreadsTypeOK, QueuesTypeOK
<1>42. CASE StopAbort
  BY <1>42 DEF StopAbort, CancelSource, WakesOwned, ParkedOnFull, TypeOK, ThreadsTypeOK,
     QueuesTypeOK
<1>43. CASE StopJoin
  BY <1>43 DEF StopJoin, WakesOwned, ParkedOnFull, TypeOK, ThreadsTypeOK, QueuesTypeOK
<1>44. CASE StopDone
  BY <1>44 DEF StopDone, WakesOwned, ParkedOnFull, TypeOK, ThreadsTypeOK, QueuesTypeOK
<1>45. ASSUME NEW x \in Docs, StopWaiter(x) PROVE ParkedOnFull'
  BY <1>45 DEF StopWaiter, queue_reschedule, WakesOwned, ParkedOnFull, TypeOK, ThreadsTypeOK,
     QueuesTypeOK
<1>46. ASSUME NEW x \in Docs, StopExamine(x) PROVE ParkedOnFull'
  BY <1>46 DEF StopExamine, WakesOwned, ParkedOnFull, TypeOK, ThreadsTypeOK, QueuesTypeOK
<1>47. ASSUME NEW x \in Docs, StopAbandon(x) PROVE ParkedOnFull'
  BY <1>47 DEF StopAbandon, Fail, CancelSource, finish_request, WakesOwned, ParkedOnFull, TypeOK,
     ThreadsTypeOK, QueuesTypeOK
<1>48. CASE UNCHANGED vars
  BY <1>48 DEF vars, WakesOwned, ParkedOnFull, TypeOK, ThreadsTypeOK, QueuesTypeOK
<1> QED BY StepCases, <1>1, <1>2, <1>3, <1>4, <1>5, <1>6, <1>7, <1>8, <1>9, <1>10, <1>11, <1>12,
    <1>13, <1>14, <1>15, <1>16, <1>17, <1>18, <1>19, <1>20, <1>21, <1>22, <1>23, <1>24, <1>25,
    <1>26, <1>27, <1>28, <1>29, <1>30, <1>31, <1>32, <1>33, <1>34, <1>35, <1>36, <1>37, <1>38,
    <1>39, <1>40, <1>41, <1>42, <1>43, <1>44, <1>45, <1>46, <1>47, <1>48
\* State::cancel() sets the flag before it waits for schedule_mutex.
LEMMA CancellerWaitsStep ==
  ASSUME TypeOK, HoldsJob, Lifecycle, WakesOwned, [Next]_vars
  PROVE  CancellerWaits'
<1> USE Roles
<1>1. ASSUME NEW x \in Docs, Submit(x) PROVE CancellerWaits'
  BY <1>1 DEF Submit, WakesOwned, CancellerWaits, TypeOK, DocsTypeOK, ThreadsTypeOK, HoldsJob,
     ScheduleLocked
<1>2. ASSUME NEW x \in Docs, TicketCancel(x) PROVE CancellerWaits'
  BY <1>2 DEF TicketCancel, WakesOwned, CancellerWaits, TypeOK, DocsTypeOK, ThreadsTypeOK,
     HoldsJob, ScheduleLocked
<1>3. ASSUME NEW x \in Docs, TicketAbort(x) PROVE CancellerWaits'
  BY <1>3 DEF TicketAbort, CancelSource, WakesOwned, CancellerWaits, TypeOK, DocsTypeOK,
     ThreadsTypeOK, HoldsJob, ScheduleLocked
<1>4. ASSUME NEW x \in Docs, TicketRelease(x) PROVE CancellerWaits'
  BY <1>4 DEF TicketRelease, release_slots, WakesOwned, CancellerWaits, TypeOK, DocsTypeOK,
     ThreadsTypeOK, HoldsJob, ScheduleLocked
<1>5. ASSUME NEW x \in Docs, TicketWake(x) PROVE CancellerWaits'
  BY <1>5 DEF TicketWake, queue_reschedule, WakesOwned, CancellerWaits, TypeOK, DocsTypeOK,
     ThreadsTypeOK, HoldsJob, ScheduleLocked
<1>6. ASSUME NEW x \in Docs, EnqueueReschedule(x) PROVE CancellerWaits'
  BY <1>6 DEF EnqueueReschedule, WakesOwned, CancellerWaits, TypeOK, DocsTypeOK, ThreadsTypeOK,
     HoldsJob, ScheduleLocked
<1>7. ASSUME NEW t \in Openers, OpenerPop(t) PROVE CancellerWaits'
  BY <1>7 DEF OpenerPop, Goto, WakesOwned, CancellerWaits, TypeOK, DocsTypeOK, ThreadsTypeOK,
     HoldsJob, ScheduleLocked
<1>8. ASSUME NEW t \in Openers, OpenerCheck(t) PROVE CancellerWaits'
  BY <1>8 DEF OpenerCheck, finish_request, Drop, Goto, WakesOwned, CancellerWaits, TypeOK,
     DocsTypeOK, ThreadsTypeOK, HoldsJob, ScheduleLocked
<1>9. ASSUME NEW t \in Openers, OpenerPublish(t) PROVE CancellerWaits'
  BY <1>9 DEF OpenerPublish, Goto, WakesOwned, CancellerWaits, TypeOK, DocsTypeOK, ThreadsTypeOK,
     HoldsJob, ScheduleLocked
<1>10. ASSUME NEW t \in Openers, OpenerRecheck(t) PROVE CancellerWaits'
  BY <1>10 DEF OpenerRecheck, Goto, WakesOwned, CancellerWaits, TypeOK, DocsTypeOK, ThreadsTypeOK,
     HoldsJob, ScheduleLocked
<1>11. ASSUME NEW t \in Openers, OpenerSize(t) PROVE CancellerWaits'
  BY <1>11 DEF OpenerSize, Goto, WakesOwned, CancellerWaits, TypeOK, DocsTypeOK, ThreadsTypeOK,
     HoldsJob, ScheduleLocked
<1>12. ASSUME NEW t \in Openers, OpenerAnnounce(t) PROVE CancellerWaits'
  BY <1>12 DEF OpenerAnnounce, Goto, WakesOwned, CancellerWaits, TypeOK, DocsTypeOK,
     ThreadsTypeOK, HoldsJob, ScheduleLocked
<1>13. ASSUME NEW t \in Openers, OpenerWake(t) PROVE CancellerWaits'
  BY <1>13 DEF OpenerWake, queue_reschedule, Drop, Goto, WakesOwned, CancellerWaits, TypeOK,
     DocsTypeOK, ThreadsTypeOK, HoldsJob, ScheduleLocked
<1>14. ASSUME NEW t \in Openers, OpenerSettle(t) PROVE CancellerWaits'
  BY <1>14 DEF OpenerSettle, finish_request, queue_reschedule, Drop, Goto, WakesOwned,
     CancellerWaits, TypeOK, DocsTypeOK, ThreadsTypeOK, HoldsJob, ScheduleLocked
<1>15. ASSUME NEW t \in Threads, ThreadFail(t) PROVE CancellerWaits'
  BY <1>15 DEF ThreadFail, Fail, Goto, WakesOwned, CancellerWaits, TypeOK, DocsTypeOK,
     ThreadsTypeOK, HoldsJob, ScheduleLocked
<1>16. ASSUME NEW t \in Threads, ThreadAbort(t) PROVE CancellerWaits'
  BY <1>16 DEF ThreadAbort, CancelSource, Goto, WakesOwned, CancellerWaits, TypeOK, DocsTypeOK,
     ThreadsTypeOK, HoldsJob, ScheduleLocked
<1>17. CASE RescheduleNext
  BY <1>17 DEF RescheduleNext, WakesOwned, CancellerWaits, TypeOK, DocsTypeOK, ThreadsTypeOK,
     HoldsJob, ScheduleLocked
<1>18. CASE RescheduleClear
  BY <1>18 DEF RescheduleClear, WakesOwned, CancellerWaits, TypeOK, DocsTypeOK, ThreadsTypeOK,
     HoldsJob, ScheduleLocked
<1>19. CASE ScheduleEnter
  BY <1>19 DEF ScheduleEnter, RescheduleDone, WakesOwned, CancellerWaits, TypeOK, DocsTypeOK,
     ThreadsTypeOK, HoldsJob, ScheduleLocked
<1>20. CASE SchedulePush
  BY <1>20 DEF SchedulePush, PushPage, Park, RescheduleDone, WakesOwned, CancellerWaits, TypeOK,
     DocsTypeOK, ThreadsTypeOK, HoldsJob, ScheduleLocked
<1>21. CASE ScheduleCut
  BY <1>21 DEF ScheduleCut, CountDown, finish_request, RescheduleDone, WakesOwned, CancellerWaits,
     TypeOK, DocsTypeOK, ThreadsTypeOK, HoldsJob, ScheduleLocked
<1>22. ASSUME NEW t \in Renderers, RenderPop(t) PROVE CancellerWaits'
  BY <1>22 DEF RenderPop, Take, Goto, WakesOwned, CancellerWaits, TypeOK, DocsTypeOK,
     ThreadsTypeOK, HoldsJob, ScheduleLocked
<1>23. ASSUME NEW t \in Renderers, RenderNotify(t) PROVE CancellerWaits'
  BY <1>23 DEF RenderNotify, queue_reschedule, Goto, WakesOwned, CancellerWaits, TypeOK,
     DocsTypeOK, ThreadsTypeOK, HoldsJob, ScheduleLocked
<1>24. ASSUME NEW t \in Renderers, RenderWork(t) PROVE CancellerWaits'
  BY <1>24 DEF RenderWork, Step, Goto, WakesOwned, CancellerWaits, TypeOK, DocsTypeOK,
     ThreadsTypeOK, HoldsJob, ScheduleLocked
<1>25. ASSUME NEW t \in Recognizers, RecognizePop(t) PROVE CancellerWaits'
  BY <1>25 DEF RecognizePop, Take, Goto, WakesOwned, CancellerWaits, TypeOK, DocsTypeOK,
     ThreadsTypeOK, HoldsJob, ScheduleLocked
<1>26. ASSUME NEW t \in Recognizers, RecognizeWork(t) PROVE CancellerWaits'
  BY <1>26 DEF RecognizeWork, Step, Goto, WakesOwned, CancellerWaits, TypeOK, DocsTypeOK,
     ThreadsTypeOK, HoldsJob, ScheduleLocked
<1>27. ASSUME NEW t \in Assemblers, AssemblePop(t) PROVE CancellerWaits'
  BY <1>27 DEF AssemblePop, Take, Goto, WakesOwned, CancellerWaits, TypeOK, DocsTypeOK,
     ThreadsTypeOK, HoldsJob, ScheduleLocked
<1>28. ASSUME NEW t \in Assemblers, Deliver(t) PROVE CancellerWaits'
  BY <1>28 DEF Deliver, Goto, WakesOwned, CancellerWaits, TypeOK, DocsTypeOK, ThreadsTypeOK,
     HoldsJob, ScheduleLocked
<1>29. ASSUME NEW t \in Assemblers, ReturnCredit(t) PROVE CancellerWaits'
  BY <1>29 DEF ReturnCredit, release_slots, Goto, WakesOwned, CancellerWaits, TypeOK, DocsTypeOK,
     ThreadsTypeOK, HoldsJob, ScheduleLocked
<1>30. ASSUME NEW t \in Assemblers, WakeAfterCredit(t) PROVE CancellerWaits'
  BY <1>30 DEF WakeAfterCredit, queue_reschedule, Goto, WakesOwned, CancellerWaits, TypeOK,
     DocsTypeOK, ThreadsTypeOK, HoldsJob, ScheduleLocked
<1>31. ASSUME NEW t \in Renderers, PushInference(t) PROVE CancellerWaits'
  BY <1>31 DEF PushInference, Drop, Goto, WakesOwned, CancellerWaits, TypeOK, DocsTypeOK,
     ThreadsTypeOK, HoldsJob, ScheduleLocked
<1>32. ASSUME NEW t \in Workers, PushAssembly(t) PROVE CancellerWaits'
  BY <1>32 DEF PushAssembly, Drop, Goto, WakesOwned, CancellerWaits, TypeOK, DocsTypeOK,
     ThreadsTypeOK, HoldsJob, ScheduleLocked
<1>33. ASSUME NEW t \in Workers, CheckCancelled(t) PROVE CancellerWaits'
  BY <1>33 DEF CheckCancelled, Step, Goto, WakesOwned, CancellerWaits, TypeOK, DocsTypeOK,
     ThreadsTypeOK, HoldsJob, ScheduleLocked
<1>34. ASSUME NEW t \in Workers, CompletePage(t) PROVE CancellerWaits'
  BY <1>34 DEF CompletePage, queue_reschedule, Goto, WakesOwned, CancellerWaits, TypeOK,
     DocsTypeOK, ThreadsTypeOK, HoldsJob, ScheduleLocked
<1>35. ASSUME NEW t \in Workers, CountPage(t) PROVE CancellerWaits'
  BY <1>35 DEF CountPage, CountDown, finish_request, Drop, Goto, WakesOwned, CancellerWaits,
     TypeOK, DocsTypeOK, ThreadsTypeOK, HoldsJob, ScheduleLocked
<1>36. CASE StopDocuments
  BY <1>36 DEF StopDocuments, StopClose, WakesOwned, CancellerWaits, TypeOK, DocsTypeOK,
     ThreadsTypeOK, HoldsJob, ScheduleLocked
<1>37. CASE StopReschedule
  BY <1>37 DEF StopReschedule, WakesOwned, CancellerWaits, TypeOK, DocsTypeOK, ThreadsTypeOK,
     HoldsJob, ScheduleLocked
<1>38. CASE StopRender
  BY <1>38 DEF StopRender, StopClose, WakesOwned, CancellerWaits, TypeOK, DocsTypeOK,
     ThreadsTypeOK, HoldsJob, ScheduleLocked
<1>39. CASE StopInference
  BY <1>39 DEF StopInference, StopClose, WakesOwned, CancellerWaits, TypeOK, DocsTypeOK,
     ThreadsTypeOK, HoldsJob, ScheduleLocked
<1>40. CASE StopAssembly
  BY <1>40 DEF StopAssembly, StopClose, WakesOwned, CancellerWaits, TypeOK, DocsTypeOK,
     ThreadsTypeOK, HoldsJob, ScheduleLocked
<1>41. CASE StopFail
  BY <1>41 DEF StopFail, Lifecycle, ThreadsSettled, CancellerWaits
<1>42. CASE StopAbort
  BY <1>42 DEF StopAbort, CancelSource, WakesOwned, CancellerWaits, TypeOK, DocsTypeOK,
     ThreadsTypeOK, HoldsJob, ScheduleLocked
<1>43. CASE StopJoin
  BY <1>43 DEF StopJoin, WakesOwned, CancellerWaits, TypeOK, DocsTypeOK, ThreadsTypeOK, HoldsJob,
     ScheduleLocked
<1>44. CASE StopDone
  BY <1>44 DEF StopDone, WakesOwned, CancellerWaits, TypeOK, DocsTypeOK, ThreadsTypeOK, HoldsJob,
     ScheduleLocked
<1>45. ASSUME NEW x \in Docs, StopWaiter(x) PROVE CancellerWaits'
  BY <1>45 DEF StopWaiter, queue_reschedule, WakesOwned, CancellerWaits, TypeOK, DocsTypeOK,
     ThreadsTypeOK, HoldsJob, ScheduleLocked
<1>46. ASSUME NEW x \in Docs, StopExamine(x) PROVE CancellerWaits'
  BY <1>46 DEF StopExamine, WakesOwned, CancellerWaits, TypeOK, DocsTypeOK, ThreadsTypeOK,
     HoldsJob, ScheduleLocked
<1>47. ASSUME NEW x \in Docs, StopAbandon(x) PROVE CancellerWaits'
  BY <1>47 DEF StopAbandon, Fail, CancelSource, finish_request, WakesOwned, CancellerWaits,
     TypeOK, DocsTypeOK, ThreadsTypeOK, HoldsJob, ScheduleLocked
<1>48. CASE UNCHANGED vars
  BY <1>48 DEF vars, WakesOwned, CancellerWaits, TypeOK, DocsTypeOK, ThreadsTypeOK, HoldsJob,
     ScheduleLocked
<1> QED BY StepCases, <1>1, <1>2, <1>3, <1>4, <1>5, <1>6, <1>7, <1>8, <1>9, <1>10, <1>11, <1>12,
    <1>13, <1>14, <1>15, <1>16, <1>17, <1>18, <1>19, <1>20, <1>21, <1>22, <1>23, <1>24, <1>25,
    <1>26, <1>27, <1>28, <1>29, <1>30, <1>31, <1>32, <1>33, <1>34, <1>35, <1>36, <1>37, <1>38,
    <1>39, <1>40, <1>41, <1>42, <1>43, <1>44, <1>45, <1>46, <1>47, <1>48
\* Whoever makes a document want a turn wakes it, and whoever takes its wake passes
\* it on.
LEMMA NoLostWakeupStep ==
  ASSUME TypeOK, HoldsJob, Lifecycle, WakesOwned, NoLostWakeup, NEW d \in Docs,
         d \in active_requests', Wanting(d)', [Next]_vars
  PROVE  WakeComing(d)'
<1> USE Roles
<1>1. ASSUME NEW x \in Docs, Submit(x) PROVE WakeComing(d)'
  <2>4. d \in active_requests
    <3>1. d \in submitted
      BY <1>1, SchedulerAssumption DEF Submit, Wanting, Lifecycle, Registered, Known, TypeOK,
          DocsTypeOK
    <3> QED BY <1>1, <3>1 DEF Submit
  <2>1. Wanting(d) /\ d \in active_requests
    BY <1>1, <2>4 DEF Submit, Wanting, TypeOK, DocsTypeOK
  <2>2. WakeComing(d) BY <2>1 DEF NoLostWakeup
  <2>3. WakeKept(d) BY <1>1 DEF Submit, WakeKept, Marked, Waking, TypeOK, DocsTypeOK,
      ThreadsTypeOK, HoldsJob
  <2> QED BY <2>2, <2>3, KeptIsComing
<1>2. ASSUME NEW x \in Docs, TicketCancel(x) PROVE WakeComing(d)'
  <2>1. CASE x = d
    BY <1>2, <2>1 DEF TicketCancel, WakeComing, TypeOK, DocsTypeOK
  <2>2. CASE x # d
    <3>1. Wanting(d) /\ d \in active_requests
      BY <1>2, <2>2 DEF TicketCancel, Wanting, TypeOK, DocsTypeOK
    <3>2. WakeComing(d) BY <3>1 DEF NoLostWakeup
    <3>3. WakeKept(d) BY <1>2, <2>2 DEF TicketCancel, WakeKept, Marked, Waking, TypeOK,
        DocsTypeOK, ThreadsTypeOK, HoldsJob
    <3> QED BY <3>2, <3>3, KeptIsComing
  <2> QED BY <2>1, <2>2
<1>3. ASSUME NEW x \in Docs, TicketAbort(x) PROVE WakeComing(d)'
  <2>1. Wanting(d) /\ d \in active_requests
    BY <1>3 DEF TicketAbort, CancelSource, Wanting, TypeOK, DocsTypeOK
  <2>2. WakeComing(d) BY <2>1 DEF NoLostWakeup
  <2>3. WakeKept(d) BY <1>3 DEF TicketAbort, CancelSource, WakeKept, Marked, Waking, TypeOK,
      DocsTypeOK, ThreadsTypeOK, HoldsJob
  <2> QED BY <2>2, <2>3, KeptIsComing
<1>4. ASSUME NEW x \in Docs, TicketRelease(x) PROVE WakeComing(d)'
  <2>1. CASE x = d
    <3>1. d \in active_requests BY <1>4 DEF TicketRelease
    <3>2. ~finish_called[d] BY <3>1 DEF Lifecycle, Registered
    <3> QED BY <1>4, <2>1, <3>2 DEF TicketRelease, WakeComing, TypeOK, DocsTypeOK
  <2>2. CASE x # d
    <3>1. Wanting(d) /\ d \in active_requests
      BY <1>4, <2>2 DEF TicketRelease, release_slots, Wanting, TypeOK, DocsTypeOK
    <3>2. WakeComing(d) BY <3>1 DEF NoLostWakeup
    <3>3. WakeKept(d) BY <1>4, <2>2 DEF TicketRelease, release_slots, WakeKept, Marked, Waking,
        TypeOK, DocsTypeOK, ThreadsTypeOK, HoldsJob
    <3> QED BY <3>2, <3>3, KeptIsComing
  <2> QED BY <2>1, <2>2
<1>5. ASSUME NEW x \in Docs, TicketWake(x) PROVE WakeComing(d)'
  <2>1. CASE x = d
    <3>1. d \in active_requests /\ ~stopping BY <1>5 DEF TicketWake, queue_reschedule, Wanting
    <3>2. ~finish_called[d] BY <3>1 DEF Lifecycle, Registered
    <3>3. Marked(d)' BY <1>5, <2>1, <3>1, <3>2, QueueMarks DEF TicketWake, WakesOwned
    <3> QED BY <3>3 DEF WakeComing
  <2>2. CASE x # d
    <3>1. Wanting(d) /\ d \in active_requests
      BY <1>5, <2>2 DEF TicketWake, queue_reschedule, Wanting, TypeOK, DocsTypeOK
    <3>2. WakeComing(d) BY <3>1 DEF NoLostWakeup
    <3>4. Marked(d) => Marked(d)' BY <1>5, QueueMarks DEF TicketWake
    <3>3. WakeKept(d) BY <1>5, <2>2, <3>4 DEF TicketWake, queue_reschedule, WakeKept, Marked,
        Waking, TypeOK, DocsTypeOK, ThreadsTypeOK, HoldsJob
    <3> QED BY <3>2, <3>3, KeptIsComing
  <2> QED BY <2>1, <2>2
<1>6. ASSUME NEW x \in Docs, EnqueueReschedule(x) PROVE WakeComing(d)'
  <2>1. Wanting(d) /\ d \in active_requests
    BY <1>6 DEF EnqueueReschedule, Wanting, TypeOK, DocsTypeOK
  <2>2. WakeComing(d) BY <2>1 DEF NoLostWakeup
  <2>3. Range(pending_reschedules') = Range(pending_reschedules) \cup {x}
    BY <2>1, <1>6, AppendElements DEF EnqueueReschedule, Wanting, TypeOK, QueuesTypeOK
  <2>4. Marked(d) => Marked(d)' BY <2>3, <1>6 DEF EnqueueReschedule, Marked
  <2>5. WakeKept(d) BY <2>4, <1>6 DEF EnqueueReschedule, WakeKept
  <2> QED BY <2>2, <2>5, KeptIsComing
<1>7. ASSUME NEW t \in Openers, OpenerPop(t) PROVE WakeComing(d)'
  <2>1. Wanting(d) /\ d \in active_requests
    BY <1>7 DEF OpenerPop, Goto, Wanting, TypeOK, DocsTypeOK
  <2>2. WakeComing(d) BY <2>1 DEF NoLostWakeup
  <2>4. job[t] # d BY <1>7, SchedulerAssumption DEF OpenerPop, Lifecycle, ThreadsSettled
  <2>3. WakeKept(d) BY <1>7, <2>4 DEF OpenerPop, Goto, WakeKept, Marked, Waking, TypeOK,
      DocsTypeOK, ThreadsTypeOK, HoldsJob
  <2> QED BY <2>2, <2>3, KeptIsComing
<1>8. ASSUME NEW t \in Openers, OpenerCheck(t) PROVE WakeComing(d)'
  <2>1. CASE job[t] = d
    <3>1. d \in active_requests BY <1>8 DEF OpenerCheck, finish_request
    <3>2. ~finish_called[d] BY <3>1 DEF Lifecycle, Registered
    <3>3. ~cancelled[d] BY <1>8, <2>1, <3>2 DEF OpenerCheck, finish_request
    <3> QED BY <1>8, <2>1, <3>3 DEF OpenerCheck, WakeComing
  <2>2. CASE job[t] # d
    <3>1. Wanting(d) /\ d \in active_requests
      BY <1>8, <2>2 DEF OpenerCheck, finish_request, Drop, Goto, Wanting, TypeOK, DocsTypeOK
    <3>2. WakeComing(d) BY <3>1 DEF NoLostWakeup
    <3>3. WakeKept(d) BY <1>8, <2>2 DEF OpenerCheck, finish_request, Drop, Goto, WakeKept,
        Marked, Waking, TypeOK, DocsTypeOK, ThreadsTypeOK, HoldsJob
    <3> QED BY <3>2, <3>3, KeptIsComing
  <2> QED BY <2>1, <2>2
<1>9. ASSUME NEW t \in Openers, OpenerPublish(t) PROVE WakeComing(d)'
  <2>1. Wanting(d) /\ d \in active_requests
    BY <1>9 DEF OpenerPublish, Goto, Wanting, TypeOK, DocsTypeOK
  <2>2. WakeComing(d) BY <2>1 DEF NoLostWakeup
  <2>3. WakeKept(d) BY <1>9 DEF OpenerPublish, Goto, WakeKept, Marked, Waking, TypeOK,
      DocsTypeOK, ThreadsTypeOK, HoldsJob
  <2> QED BY <2>2, <2>3, KeptIsComing
<1>10. ASSUME NEW t \in Openers, OpenerRecheck(t) PROVE WakeComing(d)'
  <2>1. Wanting(d) /\ d \in active_requests
    BY <1>10 DEF OpenerRecheck, Goto, Wanting, TypeOK, DocsTypeOK
  <2>2. WakeComing(d) BY <2>1 DEF NoLostWakeup
  <2>3. WakeKept(d) BY <1>10 DEF OpenerRecheck, Goto, WakeKept, Marked, Waking, TypeOK,
      DocsTypeOK, ThreadsTypeOK, HoldsJob
  <2> QED BY <2>2, <2>3, KeptIsComing
<1>11. ASSUME NEW t \in Openers, OpenerSize(t) PROVE WakeComing(d)'
  <2>1. CASE job[t] = d
    BY <1>11, <2>1 DEF OpenerSize, WakeComing
  <2>2. CASE job[t] # d
    <3>1. Wanting(d) /\ d \in active_requests
      BY <1>11, <2>2 DEF OpenerSize, Goto, Wanting, TypeOK, DocsTypeOK
    <3>2. WakeComing(d) BY <3>1 DEF NoLostWakeup
    <3>3. WakeKept(d) BY SMTT(30), <1>11, <2>2 DEF OpenerSize, Goto, WakeKept, Marked, Waking, TypeOK,
        DocsTypeOK, ThreadsTypeOK, HoldsJob
    <3> QED BY <3>2, <3>3, KeptIsComing
  <2> QED BY <2>1, <2>2
<1>12. ASSUME NEW t \in Openers, OpenerAnnounce(t) PROVE WakeComing(d)'
  <2>1. Wanting(d) /\ d \in active_requests
    BY <1>12 DEF OpenerAnnounce, Goto, Wanting, TypeOK, DocsTypeOK
  <2>2. WakeComing(d) BY <2>1 DEF NoLostWakeup
  <2>3. WakeKept(d) BY <1>12 DEF OpenerAnnounce, Goto, WakeKept, Marked, Waking, TypeOK,
      DocsTypeOK, ThreadsTypeOK, HoldsJob
  <2> QED BY <2>2, <2>3, KeptIsComing
<1>13. ASSUME NEW t \in Openers, OpenerWake(t) PROVE WakeComing(d)'
  <2>1. CASE job[t] = d
    <3>1. d \in active_requests /\ ~stopping BY <1>13 DEF OpenerWake, queue_reschedule, Drop,
        Goto, Wanting
    <3>2. ~finish_called[d] BY <3>1 DEF Lifecycle, Registered
    <3>3. Marked(d)' BY <1>13, <2>1, <3>1, <3>2, QueueMarks DEF OpenerWake, WakesOwned
    <3> QED BY <3>3 DEF WakeComing
  <2>2. CASE job[t] # d
    <3>1. Wanting(d) /\ d \in active_requests
      BY <1>13, <2>2 DEF OpenerWake, queue_reschedule, Drop, Goto, Wanting, TypeOK, DocsTypeOK
    <3>2. WakeComing(d) BY <3>1 DEF NoLostWakeup
    <3>4. Marked(d) => Marked(d)' BY <1>13, QueueMarks DEF OpenerWake, HoldsJob
    <3>3. WakeKept(d) BY <1>13, <2>2, <3>4 DEF OpenerWake, queue_reschedule, Drop, Goto,
        WakeKept, Marked, Waking, TypeOK, DocsTypeOK, ThreadsTypeOK, HoldsJob
    <3> QED BY <3>2, <3>3, KeptIsComing
  <2> QED BY <2>1, <2>2
<1>14. ASSUME NEW t \in Openers, OpenerSettle(t) PROVE WakeComing(d)'
  <2>1. CASE job[t] = d
    <3>1. d \in active_requests /\ ~stopping BY <1>14 DEF OpenerSettle, finish_request, Wanting
    <3>2. ~finish_called[d] BY <3>1 DEF Lifecycle, Registered
    <3>3. remaining_pages[d] # 0 BY <1>14, <2>1, <3>2 DEF OpenerSettle, finish_request
    <3>4. Marked(d)' BY <1>14, <2>1, <3>1, <3>2, <3>3, QueueMarks DEF OpenerSettle, WakesOwned
    <3> QED BY <3>4 DEF WakeComing
  <2>2. CASE job[t] # d
    <3>1. Wanting(d) /\ d \in active_requests
      BY <1>14, <2>2 DEF OpenerSettle, finish_request, queue_reschedule, Drop, Goto, Wanting,
          TypeOK, DocsTypeOK
    <3>2. WakeComing(d) BY <3>1 DEF NoLostWakeup
    <3>4. Marked(d) => Marked(d)'
      <4>1. CASE queue_reschedule(job[t]) /\ UNCHANGED finishes
        BY <1>14, <4>1, QueueMarks DEF OpenerSettle, HoldsJob
      <4>2. CASE UNCHANGED wakes BY <1>14, <4>2 DEF OpenerSettle, Marked
      <4> QED BY <1>14, <4>1, <4>2 DEF OpenerSettle
    <3>3. WakeKept(d) BY <1>14, <2>2, <3>4 DEF OpenerSettle, finish_request, queue_reschedule,
        Drop, Goto, WakeKept, Marked, Waking, TypeOK, DocsTypeOK, ThreadsTypeOK, HoldsJob
    <3> QED BY <3>2, <3>3, KeptIsComing
  <2> QED BY <2>1, <2>2
<1>15. ASSUME NEW t \in Threads, ThreadFail(t) PROVE WakeComing(d)'
  <2>1. CASE job[t] = d
    <3>1. t \in Openers \/ t \in Workers BY DEF Threads
    <3> QED BY <1>15, <2>1, <3>1 DEF ThreadFail, Goto, WakeComing, Waking, TypeOK, ThreadsTypeOK
  <2>2. CASE job[t] # d
    <3>1. Wanting(d) /\ d \in active_requests
      BY <1>15, <2>2 DEF ThreadFail, Fail, Goto, Wanting, TypeOK, DocsTypeOK
    <3>2. WakeComing(d) BY <3>1 DEF NoLostWakeup
    <3>3. WakeKept(d) BY <1>15, <2>2 DEF ThreadFail, Fail, Goto, WakeKept, Marked, Waking,
        TypeOK, DocsTypeOK, ThreadsTypeOK, HoldsJob
    <3> QED BY <3>2, <3>3, KeptIsComing
  <2> QED BY <2>1, <2>2
<1>16. ASSUME NEW t \in Threads, ThreadAbort(t) PROVE WakeComing(d)'
  <2>1. Wanting(d) /\ d \in active_requests
    BY <1>16 DEF ThreadAbort, CancelSource, Goto, Wanting, TypeOK, DocsTypeOK
  <2>2. WakeComing(d) BY <2>1 DEF NoLostWakeup
  <2>4. cancelled[job[t]] /\ (t \in Workers => t \notin Openers)
    BY <1>16 DEF ThreadAbort, Lifecycle, ThreadsSettled
  <2>3. WakeKept(d) BY <1>16, <2>4 DEF ThreadAbort, CancelSource, Goto, WakeKept, Marked,
      Waking, TypeOK, DocsTypeOK, ThreadsTypeOK, HoldsJob
  <2> QED BY <2>2, <2>3, KeptIsComing
<1>17. CASE RescheduleNext
  <2>1. Wanting(d) /\ d \in active_requests
    BY <1>17 DEF RescheduleNext, Wanting, TypeOK, DocsTypeOK
  <2>2. WakeComing(d) BY <2>1 DEF NoLostWakeup
  <2>3. Range(pending_reschedules) = Range(pending_reschedules') \cup
      {Head(pending_reschedules)}
    BY <2>1, <1>17, TailElements DEF RescheduleNext, Wanting, TypeOK, QueuesTypeOK
  <2>4. Marked(d) => Marked(d)' BY <2>1, <2>3, <1>17 DEF RescheduleNext, Marked, Wanting
  <2>5. WakeKept(d) BY <2>4, <1>17 DEF RescheduleNext, WakeKept
  <2> QED BY <2>2, <2>5, KeptIsComing
<1>18. CASE RescheduleClear
  <2>1. CASE rs_doc = d
    BY <1>18, <2>1 DEF RescheduleClear, WakeComing
  <2>2. CASE rs_doc # d
    <3>1. Wanting(d) /\ d \in active_requests
      BY <1>18, <2>2 DEF RescheduleClear, Wanting, TypeOK, DocsTypeOK
    <3>2. WakeComing(d) BY <3>1 DEF NoLostWakeup
    <3>3. WakeKept(d) BY <1>18, <2>2 DEF RescheduleClear, WakeKept, Marked, Waking, TypeOK,
        DocsTypeOK, ThreadsTypeOK, HoldsJob
    <3> QED BY <3>2, <3>3, KeptIsComing
  <2> QED BY <2>1, <2>2
<1>19. CASE ScheduleEnter
  <2>1. CASE rs_doc = d
    <3>1. total_pages[d] > 0 /\ total_pages[d] \in Nat /\ source[d]
      BY <1>19, SchedulerAssumption DEF ScheduleEnter, Wanting, Lifecycle, Registered, TypeOK,
          DocsTypeOK
    <3>2. CASE ~cancelled[d] BY <1>19, <2>1, <3>1, <3>2 DEF ScheduleEnter, WakeComing
    <3>3. CASE cancelled[d]
      <4>1. next_page'[d] = total_pages[d] + 1 \/ ~(next_page'[d] <= total_pages[d])
        BY <1>19, <2>1, <3>1, <3>3 DEF ScheduleEnter, TypeOK, DocsTypeOK
      <4> QED BY <1>19, <3>1, <4>1 DEF ScheduleEnter, Wanting
    <3> QED BY <3>2, <3>3
  <2>2. CASE rs_doc # d
    <3>1. Wanting(d) /\ d \in active_requests
      BY <1>19, <2>2 DEF ScheduleEnter, RescheduleDone, Wanting, TypeOK, DocsTypeOK
    <3>2. WakeComing(d) BY <3>1 DEF NoLostWakeup
    <3>3. WakeKept(d) BY <1>19, <2>2 DEF ScheduleEnter, RescheduleDone, WakeKept, Marked,
        Waking, TypeOK, DocsTypeOK, ThreadsTypeOK, HoldsJob
    <3> QED BY <3>2, <3>3, KeptIsComing
  <2> QED BY <2>1, <2>2
<1>20. CASE SchedulePush
  <2>1. CASE rs_doc = d
    <3>1. ~stopping /\ "render" \notin closed
      BY <1>20 DEF SchedulePush, Wanting, Lifecycle, ThreadsSettled
    <3>2. CASE available_slots[d] > 0 /\ next_page[d] <= total_pages[d]
      <4>1. CASE Len(render) < RenderCapacity
        BY <1>20, <2>1, <3>1, <3>2, <4>1, SchedulerAssumption
        DEF SchedulePush, WakeComing, TypeOK, QueuesTypeOK
      <4>2. CASE Len(render) >= RenderCapacity
        <5>1. Len(render) = RenderCapacity
          BY <4>2, SchedulerAssumption DEF WakesOwned, ParkedOnFull, TypeOK, QueuesTypeOK
        <5>2. d \in space_waiters' /\ UNCHANGED render
          BY <1>20, <2>1, <3>1, <3>2, <4>2, SchedulerAssumption
          DEF SchedulePush, Park, TypeOK, QueuesTypeOK
        <5> QED BY <5>1, <5>2 DEF WakeComing
      <4> QED BY <4>1, <4>2, SchedulerAssumption DEF TypeOK, QueuesTypeOK
    <3>3. CASE ~(available_slots[d] > 0 /\ next_page[d] <= total_pages[d])
      <4>1. UNCHANGED <<cancelled, ticket, job, pc, total_pages, next_page, available_slots>>
        BY <1>20, <2>1, <3>3 DEF SchedulePush
      <4>2. cancelled[d] BY <4>1, <3>3 DEF Wanting
      <4>3. ticket[d] = "abort" \/ \E t \in Threads : job[t] = d /\ pc[t] = "abort"
        BY <1>20, <2>1, <3>1, <4>2 DEF SchedulePush, WakesOwned, CancellerWaits
      <4> QED BY <4>1, <4>3 DEF WakeComing, Waking, Threads
    <3> QED BY <3>2, <3>3
  <2>2. CASE rs_doc # d
    <3>1. Wanting(d) /\ d \in active_requests
      BY <1>20, <2>2 DEF SchedulePush, PushPage, Park, RescheduleDone, Wanting, TypeOK,
          DocsTypeOK
    <3>2. WakeComing(d) BY <3>1 DEF NoLostWakeup
    <3>4. d \in space_waiters => UNCHANGED render
      BY <1>20, SchedulerAssumption DEF SchedulePush, WakesOwned, ParkedOnFull, TypeOK,
          QueuesTypeOK
    <3>3. WakeKept(d) BY <1>20, <2>2, <3>4 DEF SchedulePush, PushPage, Park, RescheduleDone,
        WakeKept, Marked, Waking, TypeOK, DocsTypeOK, ThreadsTypeOK, HoldsJob
    <3> QED BY <3>2, <3>3, KeptIsComing
  <2> QED BY <2>1, <2>2
<1>21. CASE ScheduleCut
  <2>1. Wanting(d) /\ d \in active_requests
    BY <1>21 DEF ScheduleCut, CountDown, finish_request, RescheduleDone, Wanting, TypeOK,
        DocsTypeOK
  <2>2. WakeComing(d) BY <2>1 DEF NoLostWakeup
  <2>3. WakeKept(d) BY <1>21 DEF ScheduleCut, CountDown, finish_request, RescheduleDone,
      WakeKept, Marked, Waking, TypeOK, DocsTypeOK, ThreadsTypeOK, HoldsJob
  <2> QED BY <2>2, <2>3, KeptIsComing
<1>22. ASSUME NEW t \in Renderers, RenderPop(t) PROVE WakeComing(d)'
  <2>1. Wanting(d) /\ d \in active_requests
    BY <1>22 DEF RenderPop, Take, Goto, Wanting, TypeOK, DocsTypeOK
  <2>2. WakeComing(d) BY <2>1 DEF NoLostWakeup
  <2>4. job[t] # d BY <1>22, SchedulerAssumption DEF RenderPop, Lifecycle, ThreadsSettled
  <2>5. waiters[t] = {} BY <1>22 DEF RenderPop, WakesOwned, ParkedOnFull
  <2>6. CASE d \in space_waiters'
    <3>1. UNCHANGED <<space_waiters, render, waiters, job>> BY <1>22, <2>6 DEF RenderPop
    <3> QED BY <1>22, <2>2, <3>1, KeptIsComing DEF RenderPop, Goto, WakeKept, Marked, Waking,
        TypeOK, DocsTypeOK, ThreadsTypeOK, HoldsJob
  <2>7. CASE d \in space_waiters /\ d \notin space_waiters'
    <3>1. d \in waiters'[t] BY <1>22, <2>7 DEF RenderPop, TypeOK, ThreadsTypeOK
    <3> QED BY <3>1 DEF WakeComing
  <2>8. CASE d \notin space_waiters
    <3>1. WakeKept(d) BY <1>22, <2>4, <2>5, <2>8 DEF RenderPop, Take, Goto, WakeKept, Marked,
        Waking, TypeOK, DocsTypeOK, ThreadsTypeOK, HoldsJob
    <3> QED BY <2>2, <3>1, KeptIsComing
  <2> QED BY <2>6, <2>7, <2>8
<1>23. ASSUME NEW t \in Renderers, RenderNotify(t) PROVE WakeComing(d)'
  <2>1. Wanting(d) /\ d \in active_requests
    BY <1>23 DEF RenderNotify, queue_reschedule, Goto, Wanting, TypeOK, DocsTypeOK
  <2>2. WakeComing(d) /\ ~finish_called[d] /\ ~stopping
    BY <2>1 DEF NoLostWakeup, Lifecycle, Registered, Wanting
  <2>3. PICK e \in waiters[t] : /\ queue_reschedule(e)
                                /\ waiters' = [waiters EXCEPT ![t] = waiters[t] \ {e}]
                                /\ Goto(t, IF waiters[t] = {e} THEN "held" ELSE "notify")
    BY <1>23 DEF RenderNotify
  <2>4. e \in Docs BY DEF TypeOK, ThreadsTypeOK
  <2>5. CASE e = d
    <3>1. Marked(d)' BY <1>23, <2>2, <2>3, <2>4, <2>5, QueueMarks DEF RenderNotify, WakesOwned
    <3> QED BY <3>1 DEF WakeComing
  <2>6. CASE e # d
    <3>1. Marked(d) => Marked(d)' BY <1>23, <2>3, <2>4, QueueMarks DEF RenderNotify
    <3>2. WakeKept(d) BY <1>23, <2>3, <2>6, <3>1 DEF RenderNotify, Goto, WakeKept, Waking,
        TypeOK, DocsTypeOK, ThreadsTypeOK, HoldsJob
    <3> QED BY <2>2, <3>2, KeptIsComing
  <2> QED BY <2>5, <2>6
<1>24. ASSUME NEW t \in Renderers, RenderWork(t) PROVE WakeComing(d)'
  <2>1. Wanting(d) /\ d \in active_requests
    BY <1>24 DEF RenderWork, Step, Goto, Wanting, TypeOK, DocsTypeOK
  <2>2. WakeComing(d) BY <2>1 DEF NoLostWakeup
  <2>3. WakeKept(d) BY <1>24 DEF RenderWork, Step, Goto, WakeKept, Marked, Waking, TypeOK,
      DocsTypeOK, ThreadsTypeOK, HoldsJob
  <2> QED BY <2>2, <2>3, KeptIsComing
<1>25. ASSUME NEW t \in Recognizers, RecognizePop(t) PROVE WakeComing(d)'
  <2>1. Wanting(d) /\ d \in active_requests
    BY <1>25 DEF RecognizePop, Take, Goto, Wanting, TypeOK, DocsTypeOK
  <2>2. WakeComing(d) BY <2>1 DEF NoLostWakeup
  <2>4. job[t] # d BY <1>25, SchedulerAssumption DEF RecognizePop, Lifecycle, ThreadsSettled
  <2>3. WakeKept(d) BY <1>25, <2>4 DEF RecognizePop, Take, Goto, WakeKept, Marked, Waking,
      TypeOK, DocsTypeOK, ThreadsTypeOK, HoldsJob
  <2> QED BY <2>2, <2>3, KeptIsComing
<1>26. ASSUME NEW t \in Recognizers, RecognizeWork(t) PROVE WakeComing(d)'
  <2>1. Wanting(d) /\ d \in active_requests
    BY <1>26 DEF RecognizeWork, Step, Goto, Wanting, TypeOK, DocsTypeOK
  <2>2. WakeComing(d) BY <2>1 DEF NoLostWakeup
  <2>3. WakeKept(d) BY <1>26 DEF RecognizeWork, Step, Goto, WakeKept, Marked, Waking, TypeOK,
      DocsTypeOK, ThreadsTypeOK, HoldsJob
  <2> QED BY <2>2, <2>3, KeptIsComing
<1>27. ASSUME NEW t \in Assemblers, AssemblePop(t) PROVE WakeComing(d)'
  <2>1. Wanting(d) /\ d \in active_requests
    BY <1>27 DEF AssemblePop, Take, Goto, Wanting, TypeOK, DocsTypeOK
  <2>2. WakeComing(d) BY <2>1 DEF NoLostWakeup
  <2>4. job[t] # d BY <1>27, SchedulerAssumption DEF AssemblePop, Lifecycle, ThreadsSettled
  <2>3. WakeKept(d) BY <1>27, <2>4 DEF AssemblePop, Take, Goto, WakeKept, Marked, Waking,
      TypeOK, DocsTypeOK, ThreadsTypeOK, HoldsJob
  <2> QED BY <2>2, <2>3, KeptIsComing
<1>28. ASSUME NEW t \in Assemblers, Deliver(t) PROVE WakeComing(d)'
  <2>1. CASE job[t] = d
    <3>1. CASE pc'[t] = "abort" BY <1>28, <2>1, <3>1 DEF Deliver, WakeComing, Waking
    <3>2. CASE UNCHANGED cancelled
      <4>1. Wanting(d) /\ d \in active_requests BY <1>28, <3>2 DEF Deliver, Wanting
      <4>2. WakeComing(d) BY <4>1 DEF NoLostWakeup
      <4>3. WakeKept(d) BY <1>28, <3>2 DEF Deliver, Goto, WakeKept, Marked, Waking, TypeOK,
          DocsTypeOK, ThreadsTypeOK, HoldsJob
      <4> QED BY <4>2, <4>3, KeptIsComing
    <3> QED BY <1>28, <3>1, <3>2 DEF Deliver, Goto, TypeOK, ThreadsTypeOK
  <2>2. CASE job[t] # d
    <3>1. Wanting(d) /\ d \in active_requests
      BY <1>28, <2>2 DEF Deliver, Goto, Wanting, TypeOK, DocsTypeOK
    <3>2. WakeComing(d) BY <3>1 DEF NoLostWakeup
    <3>3. WakeKept(d) BY <1>28, <2>2 DEF Deliver, Goto, WakeKept, Marked, Waking, TypeOK,
        DocsTypeOK, ThreadsTypeOK, HoldsJob
    <3> QED BY <3>2, <3>3, KeptIsComing
  <2> QED BY <2>1, <2>2
<1>29. ASSUME NEW t \in Assemblers, ReturnCredit(t) PROVE WakeComing(d)'
  <2>1. CASE job[t] = d
    BY <1>29, <2>1 DEF ReturnCredit, Goto, WakeComing, Waking, TypeOK, ThreadsTypeOK
  <2>2. CASE job[t] # d
    <3>1. Wanting(d) /\ d \in active_requests
      BY <1>29, <2>2 DEF ReturnCredit, release_slots, Goto, Wanting, TypeOK, DocsTypeOK
    <3>2. WakeComing(d) BY <3>1 DEF NoLostWakeup
    <3>3. WakeKept(d) BY <1>29, <2>2 DEF ReturnCredit, release_slots, Goto, WakeKept, Marked,
        Waking, TypeOK, DocsTypeOK, ThreadsTypeOK, HoldsJob
    <3> QED BY <3>2, <3>3, KeptIsComing
  <2> QED BY <2>1, <2>2
<1>30. ASSUME NEW t \in Assemblers, WakeAfterCredit(t) PROVE WakeComing(d)'
  <2>1. CASE job[t] = d
    <3>1. d \in active_requests /\ ~stopping BY <1>30 DEF WakeAfterCredit, queue_reschedule,
        Goto, Wanting
    <3>2. ~finish_called[d] BY <3>1 DEF Lifecycle, Registered
    <3>3. Marked(d)' BY <1>30, <2>1, <3>1, <3>2, QueueMarks DEF WakeAfterCredit, WakesOwned
    <3> QED BY <3>3 DEF WakeComing
  <2>2. CASE job[t] # d
    <3>1. Wanting(d) /\ d \in active_requests
      BY <1>30, <2>2 DEF WakeAfterCredit, queue_reschedule, Goto, Wanting, TypeOK, DocsTypeOK
    <3>2. WakeComing(d) BY <3>1 DEF NoLostWakeup
    <3>4. Marked(d) => Marked(d)' BY <1>30, QueueMarks DEF WakeAfterCredit, HoldsJob
    <3>3. WakeKept(d) BY <1>30, <2>2, <3>4 DEF WakeAfterCredit, queue_reschedule, Goto,
        WakeKept, Marked, Waking, TypeOK, DocsTypeOK, ThreadsTypeOK, HoldsJob
    <3> QED BY <3>2, <3>3, KeptIsComing
  <2> QED BY <2>1, <2>2
<1>31. ASSUME NEW t \in Renderers, PushInference(t) PROVE WakeComing(d)'
  <2>1. Wanting(d) /\ d \in active_requests
    BY <1>31 DEF PushInference, Drop, Goto, Wanting, TypeOK, DocsTypeOK
  <2>2. WakeComing(d) BY <2>1 DEF NoLostWakeup
  <2>3. WakeKept(d) BY ZenonT(40), <1>31 DEF PushInference, Drop, Goto, WakeKept, Marked, Waking, TypeOK,
      DocsTypeOK, ThreadsTypeOK, HoldsJob
  <2> QED BY <2>2, <2>3, KeptIsComing
<1>32. ASSUME NEW t \in Workers, PushAssembly(t) PROVE WakeComing(d)'
  <2>1. Wanting(d) /\ d \in active_requests
    BY <1>32 DEF PushAssembly, Drop, Goto, Wanting, TypeOK, DocsTypeOK
  <2>2. WakeComing(d) BY <2>1 DEF NoLostWakeup
  <2>3. WakeKept(d) BY <1>32 DEF PushAssembly, Drop, Goto, WakeKept, Marked, Waking, TypeOK,
      DocsTypeOK, ThreadsTypeOK, HoldsJob
  <2> QED BY <2>2, <2>3, KeptIsComing
<1>33. ASSUME NEW t \in Workers, CheckCancelled(t) PROVE WakeComing(d)'
  <2>1. Wanting(d) /\ d \in active_requests
    BY <1>33 DEF CheckCancelled, Step, Goto, Wanting, TypeOK, DocsTypeOK
  <2>2. WakeComing(d) BY <2>1 DEF NoLostWakeup
  <2>3. WakeKept(d) BY <1>33 DEF CheckCancelled, Step, Goto, WakeKept, Marked, Waking, TypeOK,
      DocsTypeOK, ThreadsTypeOK, HoldsJob
  <2> QED BY <2>2, <2>3, KeptIsComing
<1>34. ASSUME NEW t \in Workers, CompletePage(t) PROVE WakeComing(d)'
  <2>1. Wanting(d) /\ d \in active_requests
    BY <1>34 DEF CompletePage, queue_reschedule, Goto, Wanting, TypeOK, DocsTypeOK
  <2>2. WakeComing(d) /\ ~finish_called[d] /\ ~stopping /\ job[t] \in Docs
    BY <1>34, <2>1 DEF CompletePage, HoldsJob, NoLostWakeup, Lifecycle, Registered, Wanting
  <2>3. CASE cancelled[job[t]] /\ queue_reschedule(job[t])
    <3>1. CASE job[t] = d
      <4>1. Marked(d)' BY <1>34, <2>2, <2>3, <3>1, QueueMarks DEF CompletePage, WakesOwned
      <4> QED BY <4>1 DEF WakeComing
    <3>2. CASE job[t] # d
      <4>1. Marked(d) => Marked(d)' BY <1>34, <2>2, <2>3, QueueMarks DEF CompletePage
      <4>2. WakeKept(d) BY <1>34, <3>2, <4>1 DEF CompletePage, Goto, WakeKept, Waking, TypeOK,
          DocsTypeOK, ThreadsTypeOK, HoldsJob
      <4> QED BY <2>2, <4>2, KeptIsComing
    <3> QED BY <3>1, <3>2
  <2>4. CASE ~cancelled[job[t]] /\ UNCHANGED wakes
    <3>1. WakeKept(d) BY <1>34, <2>4 DEF CompletePage, Goto, WakeKept, Marked, Waking, TypeOK,
        DocsTypeOK, ThreadsTypeOK, HoldsJob
    <3> QED BY <2>2, <3>1, KeptIsComing
  <2> QED BY <1>34, <2>3, <2>4 DEF CompletePage
<1>35. ASSUME NEW t \in Workers, CountPage(t) PROVE WakeComing(d)'
  <2>1. Wanting(d) /\ d \in active_requests
    BY <1>35 DEF CountPage, CountDown, finish_request, Drop, Goto, Wanting, TypeOK, DocsTypeOK
  <2>2. WakeComing(d) BY <2>1 DEF NoLostWakeup
  <2>3. WakeKept(d) BY <1>35 DEF CountPage, CountDown, finish_request, Drop, Goto, WakeKept,
      Marked, Waking, TypeOK, DocsTypeOK, ThreadsTypeOK, HoldsJob
  <2> QED BY <2>2, <2>3, KeptIsComing
<1>36. CASE StopDocuments
  <2>1. Wanting(d) /\ d \in active_requests
    BY <1>36 DEF StopDocuments, StopClose, Wanting, TypeOK, DocsTypeOK
  <2>2. WakeComing(d) BY <2>1 DEF NoLostWakeup
  <2>3. WakeKept(d) BY <1>36 DEF StopDocuments, StopClose, WakeKept, Marked, Waking, TypeOK,
      DocsTypeOK, ThreadsTypeOK, HoldsJob
  <2> QED BY <2>2, <2>3, KeptIsComing
<1>37. CASE StopReschedule
  BY <1>37 DEF StopReschedule, Wanting, Lifecycle, ThreadsSettled
<1>38. CASE StopRender
  BY <1>38 DEF StopRender, StopClose, Wanting, Lifecycle, ThreadsSettled
<1>39. CASE StopInference
  BY <1>39 DEF StopInference, StopClose, Wanting, Lifecycle, ThreadsSettled
<1>40. CASE StopAssembly
  BY <1>40 DEF StopAssembly, StopClose, Wanting, Lifecycle, ThreadsSettled
<1>41. CASE StopFail
  BY <1>41 DEF StopFail, Fail, Wanting, Lifecycle, ThreadsSettled
<1>42. CASE StopAbort
  BY <1>42 DEF StopAbort, CancelSource, Wanting, Lifecycle, ThreadsSettled
<1>43. CASE StopJoin
  BY <1>43 DEF StopJoin, Wanting, Lifecycle, ThreadsSettled
<1>44. CASE StopDone
  BY <1>44 DEF StopDone, Wanting, Lifecycle, ThreadsSettled
<1>45. ASSUME NEW x \in Docs, StopWaiter(x) PROVE WakeComing(d)'
  BY <1>45 DEF StopWaiter, queue_reschedule, Wanting, Lifecycle, ThreadsSettled
<1>46. ASSUME NEW x \in Docs, StopExamine(x) PROVE WakeComing(d)'
  BY <1>46 DEF StopExamine, Wanting, Lifecycle, ThreadsSettled
<1>47. ASSUME NEW x \in Docs, StopAbandon(x) PROVE WakeComing(d)'
  BY <1>47 DEF StopAbandon, Fail, CancelSource, finish_request, Wanting, Lifecycle,
      ThreadsSettled
<1>48. CASE UNCHANGED vars
  BY <1>48 DEF vars, WakeComing, Marked, Waking, Wanting, NoLostWakeup
<1> QED BY StepCases, <1>1, <1>2, <1>3, <1>4, <1>5, <1>6, <1>7, <1>8, <1>9, <1>10, <1>11, <1>12,
    <1>13, <1>14, <1>15, <1>16, <1>17, <1>18, <1>19, <1>20, <1>21, <1>22, <1>23, <1>24, <1>25,
    <1>26, <1>27, <1>28, <1>29, <1>30, <1>31, <1>32, <1>33, <1>34, <1>35, <1>36, <1>37, <1>38,
    <1>39, <1>40, <1>41, <1>42, <1>43, <1>44, <1>45, <1>46, <1>47, <1>48

\* Nothing is marked, parked or scheduled at first.
LEMMA WakesInit == Init => WakesOwned /\ NoLostWakeup
BY SchedulerAssumption
DEF Init, WakesOwned, PendingOwned, ParkedOnFull, CancellerWaits, NoLostWakeup

\* A pending mark always has an owner, a document is parked only on a full
\* render queue, and a cancel that meets a push in progress has its canceller
\* waiting (queue_reschedule(), try_push() with its space waiter, cancel()).
THEOREM WakesAlwaysOwned == Spec => []WakesOwned
<1>1. Init => WakesOwned BY WakesInit
<1>2. TypeOK /\ HoldsJob /\ Lifecycle /\ WakesOwned /\ [Next]_vars => WakesOwned'
  BY PendingOwnedStep, ParkedOnFullStep, CancellerWaitsStep DEF WakesOwned
<1> QED BY <1>1, <1>2, TypeCorrect, LifecycleKept, PTL DEF Spec

\* No wake is lost: an unfinished document that could schedule a page, or has
\* pages to give up, is in the hands of somebody who will run schedule_pages().
THEOREM WakeupNeverLost == Spec => []NoLostWakeup
<1>1. Init => NoLostWakeup BY WakesInit
<1>2. TypeOK /\ HoldsJob /\ Lifecycle /\ WakesOwned /\ NoLostWakeup /\ [Next]_vars => NoLostWakeup'
  <2> SUFFICES ASSUME TypeOK, HoldsJob, Lifecycle, WakesOwned, NoLostWakeup, [Next]_vars
               PROVE  NoLostWakeup'
    OBVIOUS
  <2>1. TypeOK' BY TypeStep
  <2>2. active_requests' \subseteq Docs BY <2>1 DEF TypeOK, QueuesTypeOK
  <2>3. ASSUME NEW d \in active_requests', Wanting(d)' PROVE WakeComing(d)'
    BY <2>2, <2>3, NoLostWakeupStep
  <2> QED BY <2>3 DEF NoLostWakeup
<1> QED BY <1>1, <1>2, TypeCorrect, LifecycleKept, WakesAlwaysOwned, PTL DEF Spec
=============================================================================
