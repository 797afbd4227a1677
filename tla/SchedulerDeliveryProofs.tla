----------------------- MODULE SchedulerDeliveryProofs -----------------------
(***************************************************************************)
(* The counts of PageScheduler, for every set of documents and threads and *)
(* every capacity: remaining_pages is the number of pages that still have  *)
(* to end, and every credit of a live document is free, on a page or owed. *)
(*                                                                         *)
(* On top of them the threads, queues and wakes of PageScheduler implement *)
(* the promise of DocumentDelivery to the caller of submit().              *)
(***************************************************************************)
EXTENDS PageSchedulerProofs, FiniteSetTheorems

USE DEF admission, ties, span, wakes, pipe, sched, workers, stopvars, seen, finishes

-----------------------------------------------------------------------------
(* Counting the pages in a queue and in the workers' hands. *)

\* The positions of a queue that hold a page of d.
Places(q, d) == {i \in 1..Len(q) : q[i][1] = d}

\* A queue holds finitely many pages of a document.
LEMMA PlacesFinite ==
  ASSUME NEW S, NEW q \in Seq(S), NEW d
  PROVE  IsFiniteSet(Places(q, d)) /\ Queued(q, d) \in Nat /\ Queued(q, d) = Cardinality(Places(q, d))
<1>1. Len(q) \in Nat OBVIOUS
<1>2. IsFiniteSet(1..Len(q)) BY <1>1, FS_Interval
<1>3. Places(q, d) \in SUBSET (1..Len(q)) BY DEF Places
<1>4. IsFiniteSet(Places(q, d)) BY <1>2, <1>3, FS_Subset
<1> QED BY <1>4, FS_CardinalityType DEF Queued, Places

\* A push counts for the document of the pushed page.
LEMMA QueuedAppend ==
  ASSUME NEW S, NEW q \in Seq(S), NEW e \in S, NEW d
  PROVE  Queued(Append(q, e), d) = Queued(q, d) + (IF e[1] = d THEN 1 ELSE 0)
<1>1. /\ Len(Append(q, e)) = Len(q) + 1 /\ Len(q) \in Nat /\ Append(q, e) \in Seq(S)
      /\ Append(q, e)[Len(q) + 1] = e /\ \A i \in 1..Len(q) : Append(q, e)[i] = q[i]
  BY AppendProperties
<1>2. /\ IsFiniteSet(Places(q, d)) /\ Queued(q, d) = Cardinality(Places(q, d))
      /\ Queued(q, d) \in Nat
  BY PlacesFinite
<1>3. Queued(Append(q, e), d) = Cardinality(Places(Append(q, e), d)) BY <1>1, PlacesFinite
<1>4. CASE e[1] = d
  <2>1. Places(Append(q, e), d) = Places(q, d) \cup {Len(q) + 1} BY <1>1, <1>4 DEF Places
  <2>2. Len(q) + 1 \notin Places(q, d) BY <1>1 DEF Places
  <2>3. Cardinality(Places(q, d) \cup {Len(q) + 1}) = Cardinality(Places(q, d)) + 1
    BY <1>2, <2>2, FS_AddElement
  <2> QED BY <1>2, <1>3, <1>4, <2>1, <2>3
<1>5. CASE e[1] # d
  <2>1. Places(Append(q, e), d) = Places(q, d) BY <1>1, <1>5 DEF Places
  <2> QED BY <1>2, <1>3, <1>5, <2>1
<1> QED BY <1>4, <1>5

\* A pop counts for the document of the popped page.
LEMMA QueuedTail ==
  ASSUME NEW S, NEW q \in Seq(S), q # <<>>, NEW d
  PROVE  /\ Queued(q, d) = Queued(Tail(q), d) + (IF Head(q)[1] = d THEN 1 ELSE 0)
         /\ Queued(Tail(q), d) \in Nat
<1>1. /\ Len(Tail(q)) = Len(q) - 1 /\ Len(q) \in Nat \ {0} /\ Tail(q) \in Seq(S)
      /\ Head(q) = q[1] /\ \A i \in 1..Len(q) - 1 : Tail(q)[i] = q[i + 1]
  BY HeadTailProperties
<1> DEFINE Rest == {i \in 2..Len(q) : q[i][1] = d}
           f == [i \in Places(Tail(q), d) |-> i + 1]
<1>2. f \in Bijection(Places(Tail(q), d), Rest)
  <2>1. f \in [Places(Tail(q), d) -> Rest] BY <1>1 DEF Places
  <2>2. \A i, j \in Places(Tail(q), d) : f[i] = f[j] => i = j BY <1>1 DEF Places
  <2>3. \A k \in Rest : \E i \in Places(Tail(q), d) : f[i] = k
    <3> TAKE k \in Rest
    <3>1. k - 1 \in Places(Tail(q), d) /\ f[k - 1] = k BY <1>1 DEF Places
    <3> QED BY <3>1
  <2> QED BY <2>1, <2>2, <2>3 DEF Bijection, Injection, Surjection, IsInjective
<1>3. ExistsBijection(Places(Tail(q), d), Rest) BY <1>2 DEF ExistsBijection
<1>4. IsFiniteSet(Rest) /\ Cardinality(Rest) = Queued(Tail(q), d)
  <2>1. /\ IsFiniteSet(Places(Tail(q), d))
        /\ Queued(Tail(q), d) = Cardinality(Places(Tail(q), d))
    BY <1>1, PlacesFinite
  <2> HIDE DEF Rest
  <2> QED BY <1>3, <2>1, FS_Bijection
<1>5. Queued(q, d) = Cardinality(Places(q, d)) /\ Queued(Tail(q), d) \in Nat
  BY <1>1, PlacesFinite
<1>6. CASE Head(q)[1] = d
  <2>1. Places(q, d) = Rest \cup {1} /\ 1 \notin Rest BY <1>1, <1>6 DEF Places
  <2>2. Cardinality(Rest \cup {1}) = Cardinality(Rest) + 1 BY <1>4, <2>1, FS_AddElement
  <2> HIDE DEF Rest
  <2> QED BY <1>4, <1>5, <1>6, <2>1, <2>2
<1>7. CASE Head(q)[1] # d
  <2>1. Places(q, d) = Rest BY <1>1, <1>7 DEF Places
  <2> HIDE DEF Rest
  <2> QED BY <1>4, <1>5, <1>7, <2>1
<1> QED BY <1>6, <1>7

\* No page of d in the queue: none is counted.
LEMMA QueuedNone ==
  ASSUME NEW S, NEW q \in Seq(S), NEW d, \A j \in Range(q) : j[1] # d
  PROVE  Queued(q, d) = 0
<1>1. Places(q, d) = {} BY DEF Places, Range
<1> QED BY <1>1, PlacesFinite, FS_EmptySet

\* A set of threads that changes by one of them changes its size accordingly.
LEMMA OneThreadCounts ==
  ASSUME NEW A \in SUBSET Workers, NEW B \in SUBSET Workers, NEW t, A \ {t} = B \ {t}
  PROVE  /\ Cardinality(A) \in Nat /\ Cardinality(B) \in Nat
         /\ Cardinality(B) = Cardinality(A) - (IF t \in A THEN 1 ELSE 0)
                                            + (IF t \in B THEN 1 ELSE 0)
<1>1. IsFiniteSet(A) /\ IsFiniteSet(B) BY ThreadAssumption, FS_Subset
<1>2. Cardinality(A) \in Nat /\ Cardinality(B) \in Nat BY <1>1, FS_CardinalityType
<1>3. Cardinality(A \ {t}) = Cardinality(A) - (IF t \in A THEN 1 ELSE 0)
  BY SMTT(30), <1>1, <1>2, FS_RemoveElement
<1>4. Cardinality(B \ {t}) = Cardinality(B) - (IF t \in B THEN 1 ELSE 0)
  BY SMTT(30), <1>1, <1>2, FS_RemoveElement
<1>5. Cardinality(A \ {t}) = Cardinality(B \ {t}) OBVIOUS
<1> QED BY <1>2, <1>3, <1>4, <1>5

\* Whether worker t holds a page of d at one of pcs.
Holds(t, d, pcs) == job[t] = d /\ pc[t] \in pcs

\* A step of one worker changes what it holds and nothing else.
LEMMA HoldingChange ==
  ASSUME NEW d, NEW pcs, NEW t \in Workers,
         \A u \in Workers : u # t => job'[u] = job[u] /\ pc'[u] = pc[u]
  PROVE  /\ Holding(d, pcs) \in Nat /\ Holding(d, pcs)' \in Nat
         /\ Holding(d, pcs)' = Holding(d, pcs) - (IF Holds(t, d, pcs) THEN 1 ELSE 0)
                                  + (IF job'[t] = d /\ pc'[t] \in pcs THEN 1 ELSE 0)
<1> DEFINE A == {u \in Workers : job[u] = d /\ pc[u] \in pcs}
           B == {u \in Workers : job'[u] = d /\ pc'[u] \in pcs}
<1>1. A \ {t} = B \ {t} OBVIOUS
<1>2. Holding(d, pcs) = Cardinality(A) /\ Holding(d, pcs)' = Cardinality(B) BY DEF Holding
<1>3. (t \in A <=> Holds(t, d, pcs)) /\ (t \in B <=> job'[t] = d /\ pc'[t] \in pcs) BY DEF Holds
<1> HIDE DEF A, B
<1>4. A \in SUBSET Workers /\ B \in SUBSET Workers BY DEF A, B
<1> QED BY <1>1, <1>2, <1>3, <1>4, OneThreadCounts

\* A step that moves no thread in or out of the places counted.
LEMMA HoldingSame ==
  ASSUME NEW d, NEW pcs,
         \A u \in Workers : job'[u] = d /\ pc'[u] \in pcs <=> job[u] = d /\ pc[u] \in pcs
  PROVE  Holding(d, pcs)' = Holding(d, pcs)
BY DEF Holding

\* A document no thread holds is held nowhere.
LEMMA HoldingNone ==
  ASSUME NEW d, NEW pcs, \A u \in Workers : job[u] # d
  PROVE  Holding(d, pcs) = 0
<1>1. {u \in Workers : job[u] = d /\ pc[u] \in pcs} = {} OBVIOUS
<1> QED BY <1>1, FS_EmptySet DEF Holding

\* The counts are numbers.
LEMMA CountsAreNat ==
  ASSUME TypeOK, NEW d, NEW pcs
  PROVE  /\ Holding(d, pcs) \in Nat /\ InQueues(d) \in Nat /\ InFlight(d, pcs) \in Nat
         /\ Queued(render, d) \in Nat /\ Queued(inference, d) \in Nat /\ Queued(assembly, d) \in Nat
<1>1. {u \in Workers : job[u] = d /\ pc[u] \in pcs} \in SUBSET Workers OBVIOUS
<1>2. Holding(d, pcs) \in Nat BY <1>1, ThreadAssumption, FS_Subset, FS_CardinalityType DEF Holding
<1>3. /\ Queued(render, d) \in Nat /\ Queued(inference, d) \in Nat
      /\ Queued(assembly, d) \in Nat
  BY PlacesFinite DEF TypeOK, QueuesTypeOK
<1> QED BY <1>2, <1>3 DEF InQueues, InFlight


\* A pop moves a page from the queue into the worker's hands.
LEMMA PopFlight ==
  ASSUME TypeOK, HoldsJob, Lifecycle, [Next]_vars, NEW t \in Workers, NEW d \in Docs,
         (t \in Renderers /\ RenderPop(t)) \/ RecognizePop(t) \/ AssemblePop(t),
         NEW pcs, {"held", "notify"} \subseteq pcs
  PROVE  InFlight(d, pcs)' = InFlight(d, pcs)
<1> USE Roles
<1>1. CASE t \in Renderers /\ RenderPop(t)
  <2>1. UNCHANGED <<inference, assembly>> /\ job[t] = NoDoc /\ render \in Seq(Jobs)
        /\ \A u \in Workers : u # t => job'[u] = job[u] /\ pc'[u] = pc[u]
    BY <1>1 DEF RenderPop, Take, Goto, Lifecycle, ThreadsSettled, TypeOK, QueuesTypeOK, ThreadsTypeOK
  <2>2. ~Holds(t, d, pcs) BY <2>1, SchedulerAssumption DEF Holds
  <2>3. CASE render # <<>> /\ render' = Tail(render) /\ Take(t, Head(render)) /\ pc'[t] \in {"held", "notify"}
    <3>1. /\ Queued(render, d) = Queued(render', d) + (IF Head(render)[1] = d THEN 1 ELSE 0)
          /\ Queued(render', d) \in Nat
      BY <2>1, <2>3, QueuedTail
    <3>2. job'[t] = Head(render)[1] BY <2>3 DEF Take, TypeOK, ThreadsTypeOK
    <3>3. Holding(d, pcs)' = Holding(d, pcs) + (IF Head(render)[1] = d THEN 1 ELSE 0)
      BY <2>1, <2>2, <2>3, <3>2, HoldingChange, CountsAreNat
    <3> QED BY <2>1, <3>1, <3>3, CountsAreNat DEF InFlight, InQueues
  <2>4. CASE UNCHANGED <<job, render>>
    <3>1. Holding(d, pcs)' = Holding(d, pcs) BY <2>1, <2>4, SchedulerAssumption, HoldingSame
    <3> QED BY <2>1, <2>4, <3>1 DEF InFlight, InQueues
  <2> QED BY <1>1, <2>3, <2>4 DEF RenderPop, Goto, TypeOK, ThreadsTypeOK
<1>2. CASE RecognizePop(t)
  <2>1. UNCHANGED <<render, assembly>> /\ job[t] = NoDoc /\ inference \in Seq(Jobs)
        /\ \A u \in Workers : u # t => job'[u] = job[u] /\ pc'[u] = pc[u]
    BY <1>2 DEF RecognizePop, Take, Goto, Lifecycle, ThreadsSettled, TypeOK, QueuesTypeOK, ThreadsTypeOK
  <2>2. ~Holds(t, d, pcs) BY <2>1, SchedulerAssumption DEF Holds
  <2>3. CASE inference # <<>> /\ inference' = Tail(inference) /\ Take(t, Head(inference)) /\ pc'[t] \in {"held", "notify"}
    <3>1. /\ Queued(inference, d) = Queued(inference', d) + (IF Head(inference)[1] = d THEN 1 ELSE 0)
          /\ Queued(inference', d) \in Nat
      BY <2>1, <2>3, QueuedTail
    <3>2. job'[t] = Head(inference)[1] BY <2>3 DEF Take, TypeOK, ThreadsTypeOK
    <3>3. Holding(d, pcs)' = Holding(d, pcs) + (IF Head(inference)[1] = d THEN 1 ELSE 0)
      BY <2>1, <2>2, <2>3, <3>2, HoldingChange, CountsAreNat
    <3> QED BY <2>1, <3>1, <3>3, CountsAreNat DEF InFlight, InQueues
  <2>4. CASE UNCHANGED <<job, inference>>
    <3>1. Holding(d, pcs)' = Holding(d, pcs) BY <2>1, <2>4, SchedulerAssumption, HoldingSame
    <3> QED BY <2>1, <2>4, <3>1 DEF InFlight, InQueues
  <2> QED BY <1>2, <2>3, <2>4 DEF RecognizePop, Goto, TypeOK, ThreadsTypeOK
<1>3. CASE AssemblePop(t)
  <2>1. UNCHANGED <<render, inference>> /\ job[t] = NoDoc /\ assembly \in Seq(Jobs)
        /\ \A u \in Workers : u # t => job'[u] = job[u] /\ pc'[u] = pc[u]
    BY <1>3 DEF AssemblePop, Take, Goto, Lifecycle, ThreadsSettled, TypeOK, QueuesTypeOK, ThreadsTypeOK
  <2>2. ~Holds(t, d, pcs) BY <2>1, SchedulerAssumption DEF Holds
  <2>3. CASE assembly # <<>> /\ assembly' = Tail(assembly) /\ Take(t, Head(assembly)) /\ pc'[t] \in {"held", "notify"}
    <3>1. /\ Queued(assembly, d) = Queued(assembly', d) + (IF Head(assembly)[1] = d THEN 1 ELSE 0)
          /\ Queued(assembly', d) \in Nat
      BY <2>1, <2>3, QueuedTail
    <3>2. job'[t] = Head(assembly)[1] BY <2>3 DEF Take, TypeOK, ThreadsTypeOK
    <3>3. Holding(d, pcs)' = Holding(d, pcs) + (IF Head(assembly)[1] = d THEN 1 ELSE 0)
      BY <2>1, <2>2, <2>3, <3>2, HoldingChange, CountsAreNat
    <3> QED BY SMTT(30), <2>1, <3>1, <3>3, CountsAreNat DEF InFlight, InQueues
  <2>4. CASE UNCHANGED <<job, assembly>>
    <3>1. Holding(d, pcs)' = Holding(d, pcs) BY <2>1, <2>4, SchedulerAssumption, HoldingSame
    <3> QED BY <2>1, <2>4, <3>1 DEF InFlight, InQueues
  <2> QED BY <1>3, <2>3, <2>4 DEF AssemblePop, Goto, TypeOK, ThreadsTypeOK
<1> QED BY <1>1, <1>2, <1>3

\* A push moves it on to the next queue, or leaves it with the worker that
\* found the queue closed.
LEMMA PushFlight ==
  ASSUME TypeOK, HoldsJob, Lifecycle, [Next]_vars, NEW t \in Workers, NEW d \in Docs,
         PushInference(t) \/ PushAssembly(t),
         NEW pcs, {"to_inference", "to_assembly", "fail_closed"} \subseteq pcs
  PROVE  InFlight(d, pcs)' = InFlight(d, pcs)
<1> USE Roles
<1>1. CASE PushInference(t)
  <2>1. UNCHANGED <<render, assembly>> /\ <<job[t], page[t]>> \in Jobs /\ inference \in Seq(Jobs)
        /\ (Holds(t, d, pcs) <=> job[t] = d)
        /\ \A u \in Workers : u # t => job'[u] = job[u] /\ pc'[u] = pc[u]
    BY <1>1 DEF PushInference, Drop, Goto, Holds, HoldsJob, Jobs, TypeOK, QueuesTypeOK, ThreadsTypeOK
  <2>2. CASE inference' = Append(inference, <<job[t], page[t]>>) /\ job'[t] = NoDoc
    <3>1. Queued(inference', d) = Queued(inference, d) + (IF job[t] = d THEN 1 ELSE 0)
      BY <2>1, <2>2, QueuedAppend
    <3>2. Holding(d, pcs)' = Holding(d, pcs) - (IF job[t] = d THEN 1 ELSE 0)
      <4>1. NoDoc # d BY SchedulerAssumption
      <4>2. /\ Holding(d, pcs)' = Holding(d, pcs) - (IF Holds(t, d, pcs) THEN 1 ELSE 0)
                 + (IF job'[t] = d /\ pc'[t] \in pcs THEN 1 ELSE 0)
            /\ Holding(d, pcs) \in Nat
        BY <2>1, HoldingChange
      <4> QED BY <2>1, <2>2, <4>1, <4>2
    <3> QED BY <2>1, <3>1, <3>2, CountsAreNat DEF InFlight, InQueues
  <2>3. CASE UNCHANGED <<job, inference>> /\ pc'[t] = "fail_closed"
    <3>1. Holding(d, pcs)' = Holding(d, pcs)
      BY <2>1, <2>3, HoldingChange, CountsAreNat
    <3> QED BY <2>1, <2>3, <3>1 DEF InFlight, InQueues
  <2> QED BY <1>1, <2>2, <2>3, TypeStep DEF PushInference, Drop, Goto, TypeOK, ThreadsTypeOK
<1>2. CASE PushAssembly(t)
  <2>1. UNCHANGED <<render, inference>> /\ <<job[t], page[t]>> \in Jobs /\ assembly \in Seq(Jobs)
        /\ (Holds(t, d, pcs) <=> job[t] = d)
        /\ \A u \in Workers : u # t => job'[u] = job[u] /\ pc'[u] = pc[u]
    BY <1>2 DEF PushAssembly, Drop, Goto, Holds, HoldsJob, Jobs, TypeOK, QueuesTypeOK, ThreadsTypeOK
  <2>2. CASE assembly' = Append(assembly, <<job[t], page[t]>>) /\ job'[t] = NoDoc
    <3>1. Queued(assembly', d) = Queued(assembly, d) + (IF job[t] = d THEN 1 ELSE 0)
      BY <2>1, <2>2, QueuedAppend
    <3>2. Holding(d, pcs)' = Holding(d, pcs) - (IF job[t] = d THEN 1 ELSE 0)
      <4>1. NoDoc # d BY SchedulerAssumption
      <4>2. /\ Holding(d, pcs)' = Holding(d, pcs) - (IF Holds(t, d, pcs) THEN 1 ELSE 0)
                 + (IF job'[t] = d /\ pc'[t] \in pcs THEN 1 ELSE 0)
            /\ Holding(d, pcs) \in Nat
        BY <2>1, HoldingChange
      <4> QED BY <2>1, <2>2, <4>1, <4>2
    <3> QED BY <2>1, <3>1, <3>2, CountsAreNat DEF InFlight, InQueues
  <2>3. CASE UNCHANGED <<job, assembly>> /\ pc'[t] = "fail_closed"
    <3>1. Holding(d, pcs)' = Holding(d, pcs)
      BY <2>1, <2>3, HoldingChange, CountsAreNat
    <3> QED BY <2>1, <2>3, <3>1 DEF InFlight, InQueues
  <2> QED BY <1>2, <2>2, <2>3, TypeStep DEF PushAssembly, Drop, Goto, TypeOK, ThreadsTypeOK
<1> QED BY <1>1, <1>2

\* A page pushed by the rescheduler is one more in flight.
LEMMA PagePushFlight ==
  ASSUME TypeOK, HoldsJob, SchedulePush, [Next]_vars, NEW d \in Docs, NEW pcs
  PROVE  InFlight(d, pcs)' = InFlight(d, pcs)
           + (IF rs_doc = d /\ PushPage(rs_doc) /\ UNCHANGED rs THEN 1 ELSE 0)
<1>1. UNCHANGED <<inference, assembly, job, pc>> BY DEF SchedulePush
<1>2. Holding(d, pcs)' = Holding(d, pcs) BY <1>1, HoldingSame
<1>3. CASE PushPage(rs_doc) /\ UNCHANGED rs
  <2>1. /\ next_page[rs_doc] <= total_pages[rs_doc] /\ rs_doc \in Docs
    BY <1>3 DEF SchedulePush, HoldsJob, RescheduleDone
  <2>2. <<rs_doc, next_page[rs_doc]>> \in Jobs /\ render \in Seq(Jobs)
    BY SMTT(30), <2>1, SchedulerAssumption DEF Jobs, Pages, TypeOK, DocsTypeOK, QueuesTypeOK
  <2>3. Queued(render', d) = Queued(render, d) + (IF rs_doc = d THEN 1 ELSE 0)
    BY <1>3, <2>2, QueuedAppend DEF PushPage
  <2> QED BY <1>1, <1>2, <1>3, <2>3, CountsAreNat DEF InFlight, InQueues
<1>4. CASE ~(PushPage(rs_doc) /\ UNCHANGED rs)
  <2>1. UNCHANGED render BY <1>4 DEF SchedulePush
  <2> QED BY <1>1, <1>2, <1>4, <2>1, CountsAreNat DEF InFlight, InQueues
<1> QED BY <1>3, <1>4

\* A step of one worker that leaves the queues alone.
LEMMA WorkerFlight ==
  ASSUME TypeOK, NEW d, NEW pcs, NEW t \in Workers, UNCHANGED <<render, inference, assembly>>,
         \A u \in Workers : u # t => job'[u] = job[u] /\ pc'[u] = pc[u]
  PROVE  InFlight(d, pcs)' = InFlight(d, pcs) - (IF Holds(t, d, pcs) THEN 1 ELSE 0)
                                + (IF job'[t] = d /\ pc'[t] \in pcs THEN 1 ELSE 0)
<1>1. InQueues(d)' = InQueues(d) BY DEF InQueues
<1> QED BY <1>1, HoldingChange, CountsAreNat DEF InFlight

\* A step that leaves the queues and the workers' jobs alone.
LEMMA FlightSame ==
  ASSUME NEW d, NEW pcs, UNCHANGED <<render, inference, assembly>>,
         \A u \in Workers : job'[u] = d /\ pc'[u] \in pcs <=> job[u] = d /\ pc[u] \in pcs
  PROVE  InFlight(d, pcs)' = InFlight(d, pcs)
BY HoldingSame DEF InFlight, InQueues

\* No page of an unsized document is in flight.
LEMMA FlightNone ==
  ASSUME TypeOK, Lifecycle, NEW d \in Docs, total_pages[d] = 0, NEW pcs
  PROVE  InFlight(d, pcs) = 0 /\ Cutting(d) = 0
<1>1. /\ \A j \in Range(render) : j[1] # d
      /\ \A j \in Range(inference) : j[1] # d
      /\ \A u \in Workers : job[u] # d
      /\ ~(rs = "cut" /\ rs_doc = d)
  BY DEF Lifecycle, PagesOpened
<1>2. render \in Seq(Jobs) /\ inference \in Seq(Jobs) /\ assembly \in Seq(Jobs)
  BY DEF TypeOK, QueuesTypeOK
<1>3. Queued(render, d) = 0 BY <1>1, <1>2, QueuedNone
<1>4. Queued(inference, d) = 0 BY <1>1, <1>2, QueuedNone
<1>5. Queued(assembly, d) = 0
  <2>1. \A j \in Range(assembly) : j[1] # d BY DEF Lifecycle, PagesOpened
  <2> QED BY <1>2, <2>1, QueuedNone
<1> QED BY <1>1, <1>3, <1>4, <1>5, HoldingNone DEF InFlight, InQueues, Cutting


-----------------------------------------------------------------------------
(* remaining_pages *)

\* A step that moves no page and finishes no sized document.
QuietCount ==
  /\ UNCHANGED <<render, inference, assembly, total_pages, next_page, remaining_pages>>
  /\ \A u \in Workers : job'[u] = job[u]
  /\ \A d \in Docs : Cutting(d)' = Cutting(d)
  /\ \A d \in Docs : total_pages[d] > 0 => finish_called'[d] = finish_called[d]
  /\ stop_pc' \notin {"abandon", "stopped"} => stop_pc \notin {"abandon", "stopped"}

\* A step that moves no page keeps every page accounted for.
LEMMA QuietAccounts ==
  ASSUME TypeOK, TypeOK', PagesAccounted, QuietCount
  PROVE  PagesAccounted'
<1> SUFFICES ASSUME NEW d \in Docs, total_pages'[d] > 0
             PROVE  /\ remaining_pages'[d] = (total_pages'[d] - next_page'[d] + 1)
                                               + Cutting(d)' + InFlight(d, ThreadPC)'
                    /\ stop_pc' \notin {"abandon", "stopped"} =>
                         (finish_called'[d] <=> remaining_pages'[d] = 0)
  BY DEF PagesAccounted
<1>1. \A u \in Workers : pc[u] \in ThreadPC /\ pc'[u] \in ThreadPC
  BY DEF TypeOK, ThreadsTypeOK, Threads
<1>2. InFlight(d, ThreadPC)' = InFlight(d, ThreadPC) BY <1>1, FlightSame DEF QuietCount
<1> QED BY <1>2 DEF QuietCount, PagesAccounted

\* A page leaves remaining_pages in the step that lets go of it, and whoever takes
\* the last one finishes the document.
LEMMA PagesAccountedStep ==
  ASSUME TypeOK, HoldsJob, Lifecycle, CutHasPages, PagesAccounted, [Next]_vars
  PROVE  PagesAccounted'
<1> USE Roles
<1>1. ASSUME NEW x \in Docs, Submit(x) PROVE PagesAccounted'
  <2>1. QuietCount BY <1>1 DEF Submit, QuietCount, Cutting, TypeOK, ThreadsTypeOK, DocsTypeOK
  <2> QED BY <2>1, TypeStep, QuietAccounts
<1>2. ASSUME NEW x \in Docs, TicketCancel(x) PROVE PagesAccounted'
  <2>1. QuietCount BY <1>2 DEF TicketCancel, QuietCount, Cutting, TypeOK, ThreadsTypeOK,
      DocsTypeOK
  <2> QED BY <2>1, TypeStep, QuietAccounts
<1>3. ASSUME NEW x \in Docs, TicketAbort(x) PROVE PagesAccounted'
  <2>1. QuietCount BY <1>3 DEF TicketAbort, CancelSource, QuietCount, Cutting, TypeOK,
      ThreadsTypeOK, DocsTypeOK
  <2> QED BY <2>1, TypeStep, QuietAccounts
<1>4. ASSUME NEW x \in Docs, TicketRelease(x) PROVE PagesAccounted'
  <2>1. QuietCount BY <1>4 DEF TicketRelease, release_slots, QuietCount, Cutting, TypeOK,
      ThreadsTypeOK, DocsTypeOK
  <2> QED BY <2>1, TypeStep, QuietAccounts
<1>5. ASSUME NEW x \in Docs, TicketWake(x) PROVE PagesAccounted'
  <2>1. QuietCount BY <1>5 DEF TicketWake, queue_reschedule, QuietCount, Cutting, TypeOK,
      ThreadsTypeOK, DocsTypeOK
  <2> QED BY <2>1, TypeStep, QuietAccounts
<1>6. ASSUME NEW x \in Docs, EnqueueReschedule(x) PROVE PagesAccounted'
  <2>1. QuietCount BY <1>6 DEF EnqueueReschedule, QuietCount, Cutting, TypeOK, ThreadsTypeOK,
      DocsTypeOK
  <2> QED BY <2>1, TypeStep, QuietAccounts
<1>7. ASSUME NEW t \in Openers, OpenerPop(t) PROVE PagesAccounted'
  <2>1. QuietCount BY <1>7 DEF OpenerPop, Goto, QuietCount, Cutting, TypeOK, ThreadsTypeOK,
      DocsTypeOK
  <2> QED BY <2>1, TypeStep, QuietAccounts
<1>8. ASSUME NEW t \in Openers, OpenerCheck(t) PROVE PagesAccounted'
  <2>2. job[t] \in Docs /\ total_pages[job[t]] = 0
    BY <1>8 DEF OpenerCheck, HoldsJob, Lifecycle, OpenedOnce
  <2>1. QuietCount BY <1>8, <2>2 DEF OpenerCheck, finish_request, Drop, Goto, QuietCount,
      Cutting, TypeOK, ThreadsTypeOK, DocsTypeOK
  <2> QED BY <2>1, TypeStep, QuietAccounts
<1>9. ASSUME NEW t \in Openers, OpenerPublish(t) PROVE PagesAccounted'
  <2>1. QuietCount BY <1>9 DEF OpenerPublish, Goto, QuietCount, Cutting, TypeOK, ThreadsTypeOK,
      DocsTypeOK
  <2> QED BY <2>1, TypeStep, QuietAccounts
<1>10. ASSUME NEW t \in Openers, OpenerRecheck(t) PROVE PagesAccounted'
  <2>1. QuietCount BY <1>10 DEF OpenerRecheck, Goto, QuietCount, Cutting, TypeOK, ThreadsTypeOK,
      DocsTypeOK
  <2> QED BY <2>1, TypeStep, QuietAccounts
<1>11. ASSUME NEW t \in Openers, OpenerSize(t) PROVE PagesAccounted'
  <2> SUFFICES ASSUME NEW d \in Docs, total_pages'[d] > 0
               PROVE  /\ remaining_pages'[d] = (total_pages'[d] - next_page'[d] + 1)
                                                 + Cutting(d)' + InFlight(d, ThreadPC)'
                      /\ stop_pc' \notin {"abandon", "stopped"} =>
                           (finish_called'[d] <=> remaining_pages'[d] = 0)
    BY DEF PagesAccounted
  <2>0. /\ total_pages[d] \in Int /\ next_page[d] \in Int /\ remaining_pages[d] \in Int
        /\ rs_cut \in Int /\ InFlight(d, ThreadPC) \in Nat
    BY CountsAreNat, SchedulerAssumption DEF TypeOK, DocsTypeOK, ThreadsTypeOK
  <2>1. /\ UNCHANGED <<render, inference, assembly, rs, rs_doc, rs_cut, job, finish_called,
           stop_pc>>
        /\ \A u \in Workers : pc'[u] = pc[u]
    BY <1>11 DEF OpenerSize, Goto, TypeOK, ThreadsTypeOK
  <2>2. InFlight(d, ThreadPC)' = InFlight(d, ThreadPC) /\ Cutting(d)' = Cutting(d)
    BY <2>1, FlightSame DEF Cutting
  <2>3. job[t] \in Docs /\ total_pages[job[t]] = 0
    BY <1>11 DEF OpenerSize, HoldsJob, Lifecycle, OpenedOnce
  <2>4. ~finish_called[job[t]]
    BY <2>3 DEF Lifecycle, OpenedOnce, Registered, Unopened
  <2>5. CASE UNCHANGED <<remaining_pages, span>> BY <2>1, <2>2, <2>5 DEF PagesAccounted
  <2>6. CASE \E s \in OpenSpans :
               /\ remaining_pages' = [remaining_pages EXCEPT ![job[t]] = s[2] - s[1] + 1]
               /\ total_pages' = [total_pages EXCEPT ![job[t]] = s[2]]
               /\ next_page' = [next_page EXCEPT ![job[t]] = s[1]]
    <3>1. PICK s \in OpenSpans :
            /\ remaining_pages' = [remaining_pages EXCEPT ![job[t]] = s[2] - s[1] + 1]
            /\ total_pages' = [total_pages EXCEPT ![job[t]] = s[2]]
            /\ next_page' = [next_page EXCEPT ![job[t]] = s[1]]
      BY <2>6
    <3>2. s[1] \in Int /\ s[2] \in Int /\ s[1] <= s[2] BY SchedulerAssumption DEF Pages
    <3>3. CASE d = job[t]
      <4>1. InFlight(d, ThreadPC) = 0 /\ Cutting(d) = 0 BY <2>3, <3>3, FlightNone
      <4>2. /\ remaining_pages'[d] = s[2] - s[1] + 1 /\ total_pages'[d] = s[2] /\ next_page'[d]
               = s[1]
        BY <3>1, <3>3 DEF TypeOK, DocsTypeOK
      <4> QED BY <2>1, <2>2, <2>4, <3>2, <3>3, <4>1, <4>2
    <3>4. CASE d # job[t]
      <4>1. /\ remaining_pages'[d] = remaining_pages[d] /\ total_pages'[d] = total_pages[d]
            /\ next_page'[d] = next_page[d]
        BY <3>1, <3>4 DEF TypeOK, DocsTypeOK
      <4> QED BY <2>1, <2>2, <4>1 DEF PagesAccounted
    <3> QED BY <3>3, <3>4
  <2> QED BY <1>11, <2>5, <2>6 DEF OpenerSize
<1>12. ASSUME NEW t \in Openers, OpenerAnnounce(t) PROVE PagesAccounted'
  <2>1. QuietCount BY <1>12 DEF OpenerAnnounce, Goto, QuietCount, Cutting, TypeOK,
      ThreadsTypeOK, DocsTypeOK
  <2> QED BY <2>1, TypeStep, QuietAccounts
<1>13. ASSUME NEW t \in Openers, OpenerWake(t) PROVE PagesAccounted'
  <2>1. QuietCount BY <1>13 DEF OpenerWake, queue_reschedule, Drop, Goto, QuietCount, Cutting,
      TypeOK, ThreadsTypeOK, DocsTypeOK
  <2> QED BY <2>1, TypeStep, QuietAccounts
<1>14. ASSUME NEW t \in Openers, OpenerSettle(t) PROVE PagesAccounted'
  <2>2. job[t] \in Docs /\ stop_pc \notin {"abandon", "stopped"}
        /\ (total_pages[job[t]] > 0 /\ remaining_pages[job[t]] = 0 => finish_called[job[t]])
    BY <1>14 DEF OpenerSettle, HoldsJob, Lifecycle, ThreadsSettled, Abandoning, PagesAccounted
  <2>1. QuietCount BY <1>14, <2>2 DEF OpenerSettle, finish_request, queue_reschedule, Drop,
      Goto, QuietCount, Cutting, TypeOK, ThreadsTypeOK, DocsTypeOK
  <2> QED BY <2>1, TypeStep, QuietAccounts
<1>15. ASSUME NEW t \in Threads, ThreadFail(t) PROVE PagesAccounted'
  <2>1. QuietCount BY <1>15 DEF ThreadFail, Fail, Goto, QuietCount, Cutting, TypeOK,
      ThreadsTypeOK, DocsTypeOK
  <2> QED BY <2>1, TypeStep, QuietAccounts
<1>16. ASSUME NEW t \in Threads, ThreadAbort(t) PROVE PagesAccounted'
  <2>1. QuietCount BY <1>16 DEF ThreadAbort, CancelSource, Goto, QuietCount, Cutting, TypeOK,
      ThreadsTypeOK, DocsTypeOK
  <2> QED BY <2>1, TypeStep, QuietAccounts
<1>17. CASE RescheduleNext
  <2>1. QuietCount BY <1>17 DEF RescheduleNext, QuietCount, Cutting, TypeOK, ThreadsTypeOK,
      DocsTypeOK
  <2> QED BY <2>1, TypeStep, QuietAccounts
<1>18. CASE RescheduleClear
  <2>1. QuietCount BY <1>18 DEF RescheduleClear, QuietCount, Cutting, TypeOK, ThreadsTypeOK,
      DocsTypeOK
  <2> QED BY <2>1, TypeStep, QuietAccounts
<1>19. CASE ScheduleEnter
  <2> SUFFICES ASSUME NEW d \in Docs, total_pages'[d] > 0
               PROVE  /\ remaining_pages'[d] = (total_pages'[d] - next_page'[d] + 1)
                                                 + Cutting(d)' + InFlight(d, ThreadPC)'
                      /\ stop_pc' \notin {"abandon", "stopped"} =>
                           (finish_called'[d] <=> remaining_pages'[d] = 0)
    BY DEF PagesAccounted
  <2>0. /\ total_pages[d] \in Int /\ next_page[d] \in Int /\ remaining_pages[d] \in Int
        /\ rs_cut \in Int /\ InFlight(d, ThreadPC) \in Nat
    BY CountsAreNat, SchedulerAssumption DEF TypeOK, DocsTypeOK, ThreadsTypeOK
  <2>1. /\ UNCHANGED <<render, inference, assembly, remaining_pages, total_pages, job, pc,
                       finish_called, stop_pc>>
        /\ rs = "enter" /\ rs_doc \in Docs
    BY <1>19 DEF ScheduleEnter, HoldsJob
  <2>2. InFlight(d, ThreadPC)' = InFlight(d, ThreadPC) /\ Cutting(d) = 0
    BY <2>1, FlightSame DEF Cutting
  <2>3. CASE rs' = "cut"
    <3>1. /\ rs_doc' = rs_doc /\ rs_cut' = total_pages[rs_doc] - next_page[rs_doc] + 1
          /\ next_page' = [next_page EXCEPT ![rs_doc] = total_pages[rs_doc] + 1]
      BY <1>19, <2>3 DEF ScheduleEnter, RescheduleDone
    <3>2. CASE d = rs_doc
      <4>1. next_page'[d] = total_pages[d] + 1 /\ Cutting(d)' = total_pages[d] - next_page[d] +
          1
        BY <2>3, <3>1, <3>2 DEF Cutting, TypeOK, DocsTypeOK
      <4> QED BY <2>0, <2>1, <2>2, <4>1 DEF PagesAccounted
    <3>3. CASE d # rs_doc
      <4>1. next_page'[d] = next_page[d] /\ Cutting(d)' = 0
        BY <3>1, <3>3 DEF Cutting, TypeOK, DocsTypeOK
      <4> QED BY <2>1, <2>2, <4>1 DEF PagesAccounted
    <3> QED BY <3>2, <3>3
  <2>4. CASE rs' # "cut"
    <3>1. Cutting(d)' = 0 /\ UNCHANGED next_page
      BY <1>19, <2>4 DEF ScheduleEnter, RescheduleDone, Cutting
    <3> QED BY <2>1, <2>2, <3>1 DEF PagesAccounted
  <2> QED BY <2>3, <2>4
<1>20. CASE SchedulePush
  <2> SUFFICES ASSUME NEW d \in Docs, total_pages'[d] > 0
               PROVE  /\ remaining_pages'[d] = (total_pages'[d] - next_page'[d] + 1)
                                                 + Cutting(d)' + InFlight(d, ThreadPC)'
                      /\ stop_pc' \notin {"abandon", "stopped"} =>
                           (finish_called'[d] <=> remaining_pages'[d] = 0)
    BY DEF PagesAccounted
  <2>0. /\ total_pages[d] \in Int /\ next_page[d] \in Int /\ remaining_pages[d] \in Int
        /\ rs_cut \in Int /\ InFlight(d, ThreadPC) \in Nat
    BY CountsAreNat, SchedulerAssumption DEF TypeOK, DocsTypeOK, ThreadsTypeOK
  <2>1. /\ UNCHANGED <<remaining_pages, total_pages, finish_called, stop_pc>>
        /\ rs = "push" /\ rs' \in {"push", "wait"} /\ rs_doc \in Docs
    BY <1>20 DEF SchedulePush, RescheduleDone, HoldsJob
  <2>2. Cutting(d) = 0 /\ Cutting(d)' = 0 BY <2>1 DEF Cutting
  <2>3. InFlight(d, ThreadPC)' = InFlight(d, ThreadPC)
          + (IF rs_doc = d /\ PushPage(rs_doc) /\ UNCHANGED rs THEN 1 ELSE 0)
    BY <1>20, PagePushFlight
  <2>4. next_page'[d] = next_page[d] + (IF rs_doc = d /\ PushPage(rs_doc) /\ UNCHANGED rs THEN 1
      ELSE 0)
    <3>1. CASE PushPage(rs_doc) /\ UNCHANGED rs
      <4>1. next_page' = [next_page EXCEPT ![rs_doc] = next_page[rs_doc] + 1]
        BY <3>1 DEF PushPage
      <4> QED BY <2>0, <2>1, <3>1, <4>1 DEF TypeOK, DocsTypeOK
    <3>2. CASE ~(PushPage(rs_doc) /\ UNCHANGED rs)
      <4>1. UNCHANGED next_page BY <1>20, <3>2 DEF SchedulePush
      <4> QED BY <2>0, <3>2, <4>1
    <3> QED BY <3>1, <3>2
  <2> QED BY <2>0, <2>1, <2>2, <2>3, <2>4 DEF PagesAccounted
<1>21. CASE ScheduleCut
  <2> SUFFICES ASSUME NEW d \in Docs, total_pages'[d] > 0
               PROVE  /\ remaining_pages'[d] = (total_pages'[d] - next_page'[d] + 1)
                                                 + Cutting(d)' + InFlight(d, ThreadPC)'
                      /\ stop_pc' \notin {"abandon", "stopped"} =>
                           (finish_called'[d] <=> remaining_pages'[d] = 0)
    BY DEF PagesAccounted
  <2>0. /\ total_pages[d] \in Int /\ next_page[d] \in Int /\ remaining_pages[d] \in Int
        /\ rs_cut \in Int /\ InFlight(d, ThreadPC) \in Nat
    BY CountsAreNat, SchedulerAssumption DEF TypeOK, DocsTypeOK, ThreadsTypeOK
  <2>1. /\ UNCHANGED <<total_pages, next_page>> /\ rs_doc \in Docs
        /\ remaining_pages' = [remaining_pages EXCEPT ![rs_doc] = remaining_pages[rs_doc] -
            rs_cut]
        /\ stop_pc \notin {"abandon", "stopped"}
    BY <1>21 DEF ScheduleCut, CountDown, HoldsJob, Lifecycle, ThreadsSettled, Abandoning
  <2>2. InFlight(d, ThreadPC)' = InFlight(d, ThreadPC) BY <1>21, FlightSame DEF ScheduleCut
  <2>3. /\ Cutting(d) = (IF d = rs_doc THEN rs_cut ELSE 0) /\ Cutting(d)' = 0 /\ rs_cut > 0
    BY <1>21 DEF ScheduleCut, RescheduleDone, Cutting, CutHasPages
  <2>4. CASE d = rs_doc
    <3>1. remaining_pages[d] = (total_pages[d] - next_page[d] + 1) + Cutting(d) + InFlight(d,
        ThreadPC)
          /\ (finish_called[d] <=> remaining_pages[d] = 0)
      BY <2>1 DEF PagesAccounted
    <3>2. next_page[d] <= total_pages[d] + 1 BY <2>1 DEF Lifecycle, Registered
    <3>3. remaining_pages'[d] = remaining_pages[d] - rs_cut BY <2>1, <2>4 DEF TypeOK, DocsTypeOK
    <3>4. Cutting(d)' + InFlight(d, ThreadPC)' = Cutting(d) + InFlight(d, ThreadPC) - rs_cut
          /\ Cutting(d) + InFlight(d, ThreadPC) >= rs_cut /\ rs_cut > 0
      BY <2>0, <2>2, <2>3, <2>4
    <3>5. ~finish_called[d] BY <2>0, <2>2, <2>3, <2>4, <3>1, <3>2, <3>4
    <3>6. IF remaining_pages[d] = rs_cut THEN finish_called'[d] ELSE ~finish_called'[d]
      BY <1>21, <2>1, <2>4, <3>5 DEF ScheduleCut, CountDown, finish_request, TypeOK, DocsTypeOK
    <3>7. remaining_pages'[d] = (total_pages[d] - next_page[d] + 1) + Cutting(d)' + InFlight(d,
        ThreadPC)'
      BY <2>0, <2>2, <2>3, <2>4, <3>1, <3>3, <3>4
    <3>8. finish_called'[d] <=> remaining_pages'[d] = 0 BY <2>0, <3>3, <3>6
    <3> QED BY <2>1, <3>7, <3>8
  <2>5. CASE d # rs_doc
    <3>1. remaining_pages'[d] = remaining_pages[d] /\ finish_called'[d] = finish_called[d]
      BY <1>21, <2>1, <2>5 DEF ScheduleCut, CountDown, finish_request, TypeOK, DocsTypeOK
    <3> QED BY <2>0, <2>1, <2>2, <2>3, <2>5, <3>1 DEF PagesAccounted
  <2> QED BY <2>4, <2>5
<1>22. ASSUME NEW t \in Renderers, RenderPop(t) PROVE PagesAccounted'
  <2> SUFFICES ASSUME NEW d \in Docs, total_pages'[d] > 0
               PROVE  /\ remaining_pages'[d] = (total_pages'[d] - next_page'[d] + 1)
                                                 + Cutting(d)' + InFlight(d, ThreadPC)'
                      /\ stop_pc' \notin {"abandon", "stopped"} =>
                           (finish_called'[d] <=> remaining_pages'[d] = 0)
    BY DEF PagesAccounted
  <2>1. /\ UNCHANGED <<remaining_pages, total_pages, next_page, finish_called, stop_pc>>
        /\ Cutting(d)' = Cutting(d)
    BY <1>22 DEF RenderPop, Cutting
  <2>2. {"held", "notify"} \subseteq ThreadPC BY DEF ThreadPC
  <2>3. InFlight(d, ThreadPC)' = InFlight(d, ThreadPC) BY <1>22, <2>2, PopFlight
  <2> QED BY <2>1, <2>3 DEF PagesAccounted
<1>23. ASSUME NEW t \in Renderers, RenderNotify(t) PROVE PagesAccounted'
  <2>1. QuietCount BY <1>23 DEF RenderNotify, queue_reschedule, Goto, QuietCount, Cutting,
      TypeOK, ThreadsTypeOK, DocsTypeOK
  <2> QED BY <2>1, TypeStep, QuietAccounts
<1>24. ASSUME NEW t \in Renderers, RenderWork(t) PROVE PagesAccounted'
  <2>1. QuietCount BY <1>24 DEF RenderWork, Step, Goto, QuietCount, Cutting, TypeOK,
      ThreadsTypeOK, DocsTypeOK
  <2> QED BY <2>1, TypeStep, QuietAccounts
<1>25. ASSUME NEW t \in Recognizers, RecognizePop(t) PROVE PagesAccounted'
  <2> SUFFICES ASSUME NEW d \in Docs, total_pages'[d] > 0
               PROVE  /\ remaining_pages'[d] = (total_pages'[d] - next_page'[d] + 1)
                                                 + Cutting(d)' + InFlight(d, ThreadPC)'
                      /\ stop_pc' \notin {"abandon", "stopped"} =>
                           (finish_called'[d] <=> remaining_pages'[d] = 0)
    BY DEF PagesAccounted
  <2>1. /\ UNCHANGED <<remaining_pages, total_pages, next_page, finish_called, stop_pc>>
        /\ Cutting(d)' = Cutting(d)
    BY <1>25 DEF RecognizePop, Cutting
  <2>2. {"held", "notify"} \subseteq ThreadPC BY DEF ThreadPC
  <2>3. InFlight(d, ThreadPC)' = InFlight(d, ThreadPC) BY <1>25, <2>2, PopFlight
  <2> QED BY <2>1, <2>3 DEF PagesAccounted
<1>26. ASSUME NEW t \in Recognizers, RecognizeWork(t) PROVE PagesAccounted'
  <2>1. QuietCount BY <1>26 DEF RecognizeWork, Step, Goto, QuietCount, Cutting, TypeOK,
      ThreadsTypeOK, DocsTypeOK
  <2> QED BY <2>1, TypeStep, QuietAccounts
<1>27. ASSUME NEW t \in Assemblers, AssemblePop(t) PROVE PagesAccounted'
  <2> SUFFICES ASSUME NEW d \in Docs, total_pages'[d] > 0
               PROVE  /\ remaining_pages'[d] = (total_pages'[d] - next_page'[d] + 1)
                                                 + Cutting(d)' + InFlight(d, ThreadPC)'
                      /\ stop_pc' \notin {"abandon", "stopped"} =>
                           (finish_called'[d] <=> remaining_pages'[d] = 0)
    BY DEF PagesAccounted
  <2>1. /\ UNCHANGED <<remaining_pages, total_pages, next_page, finish_called, stop_pc>>
        /\ Cutting(d)' = Cutting(d)
    BY <1>27 DEF AssemblePop, Cutting
  <2>2. {"held", "notify"} \subseteq ThreadPC BY DEF ThreadPC
  <2>3. InFlight(d, ThreadPC)' = InFlight(d, ThreadPC) BY <1>27, <2>2, PopFlight
  <2> QED BY <2>1, <2>3 DEF PagesAccounted
<1>28. ASSUME NEW t \in Assemblers, Deliver(t) PROVE PagesAccounted'
  <2>1. QuietCount BY <1>28 DEF Deliver, Goto, QuietCount, Cutting, TypeOK, ThreadsTypeOK,
      DocsTypeOK
  <2> QED BY <2>1, TypeStep, QuietAccounts
<1>29. ASSUME NEW t \in Assemblers, ReturnCredit(t) PROVE PagesAccounted'
  <2>1. QuietCount BY <1>29 DEF ReturnCredit, release_slots, Goto, QuietCount, Cutting, TypeOK,
      ThreadsTypeOK, DocsTypeOK
  <2> QED BY <2>1, TypeStep, QuietAccounts
<1>30. ASSUME NEW t \in Assemblers, WakeAfterCredit(t) PROVE PagesAccounted'
  <2>1. QuietCount BY <1>30 DEF WakeAfterCredit, queue_reschedule, Goto, QuietCount, Cutting,
      TypeOK, ThreadsTypeOK, DocsTypeOK
  <2> QED BY <2>1, TypeStep, QuietAccounts
<1>31. ASSUME NEW t \in Renderers, PushInference(t) PROVE PagesAccounted'
  <2> SUFFICES ASSUME NEW d \in Docs, total_pages'[d] > 0
               PROVE  /\ remaining_pages'[d] = (total_pages'[d] - next_page'[d] + 1)
                                                 + Cutting(d)' + InFlight(d, ThreadPC)'
                      /\ stop_pc' \notin {"abandon", "stopped"} =>
                           (finish_called'[d] <=> remaining_pages'[d] = 0)
    BY DEF PagesAccounted
  <2>1. /\ UNCHANGED <<remaining_pages, total_pages, next_page, finish_called, stop_pc>>
        /\ Cutting(d)' = Cutting(d)
    BY <1>31 DEF PushInference, Cutting
  <2>2. {"to_inference", "to_assembly", "fail_closed"} \subseteq ThreadPC BY DEF ThreadPC
  <2>3. InFlight(d, ThreadPC)' = InFlight(d, ThreadPC) BY <1>31, <2>2, PushFlight
  <2> QED BY <2>1, <2>3 DEF PagesAccounted
<1>32. ASSUME NEW t \in Workers, PushAssembly(t) PROVE PagesAccounted'
  <2> SUFFICES ASSUME NEW d \in Docs, total_pages'[d] > 0
               PROVE  /\ remaining_pages'[d] = (total_pages'[d] - next_page'[d] + 1)
                                                 + Cutting(d)' + InFlight(d, ThreadPC)'
                      /\ stop_pc' \notin {"abandon", "stopped"} =>
                           (finish_called'[d] <=> remaining_pages'[d] = 0)
    BY DEF PagesAccounted
  <2>1. /\ UNCHANGED <<remaining_pages, total_pages, next_page, finish_called, stop_pc>>
        /\ Cutting(d)' = Cutting(d)
    BY <1>32 DEF PushAssembly, Cutting
  <2>2. {"to_inference", "to_assembly", "fail_closed"} \subseteq ThreadPC BY DEF ThreadPC
  <2>3. InFlight(d, ThreadPC)' = InFlight(d, ThreadPC) BY <1>32, <2>2, PushFlight
  <2> QED BY <2>1, <2>3 DEF PagesAccounted
<1>33. ASSUME NEW t \in Workers, CheckCancelled(t) PROVE PagesAccounted'
  <2>1. QuietCount BY <1>33 DEF CheckCancelled, Step, Goto, QuietCount, Cutting, TypeOK,
      ThreadsTypeOK, DocsTypeOK
  <2> QED BY <2>1, TypeStep, QuietAccounts
<1>34. ASSUME NEW t \in Workers, CompletePage(t) PROVE PagesAccounted'
  <2>1. QuietCount BY <1>34 DEF CompletePage, queue_reschedule, Goto, QuietCount, Cutting,
      TypeOK, ThreadsTypeOK, DocsTypeOK
  <2> QED BY <2>1, TypeStep, QuietAccounts
<1>35. ASSUME NEW t \in Workers, CountPage(t) PROVE PagesAccounted'
  <2> SUFFICES ASSUME NEW d \in Docs, total_pages'[d] > 0
               PROVE  /\ remaining_pages'[d] = (total_pages'[d] - next_page'[d] + 1)
                                                 + Cutting(d)' + InFlight(d, ThreadPC)'
                      /\ stop_pc' \notin {"abandon", "stopped"} =>
                           (finish_called'[d] <=> remaining_pages'[d] = 0)
    BY DEF PagesAccounted
  <2>0. /\ total_pages[d] \in Int /\ next_page[d] \in Int /\ remaining_pages[d] \in Int
        /\ rs_cut \in Int /\ InFlight(d, ThreadPC) \in Nat
    BY CountsAreNat, SchedulerAssumption DEF TypeOK, DocsTypeOK, ThreadsTypeOK
  <2>1. /\ UNCHANGED <<total_pages, next_page>> /\ job[t] \in Docs
        /\ remaining_pages' = [remaining_pages EXCEPT ![job[t]] = remaining_pages[job[t]] - 1]
        /\ stop_pc \notin {"abandon", "stopped"}
    BY <1>35 DEF CountPage, CountDown, HoldsJob, Lifecycle, ThreadsSettled, Abandoning
  <2>2. Cutting(d)' = Cutting(d) /\ Cutting(d) \in Nat
    BY <1>35, SchedulerAssumption DEF CountPage, Cutting, TypeOK, ThreadsTypeOK
  <2>3. /\ InFlight(d, ThreadPC)' = InFlight(d, ThreadPC) - (IF d = job[t] THEN 1 ELSE 0)
        /\ d = job[t] => InFlight(d, ThreadPC) >= 1
    <3>1. /\ UNCHANGED <<render, inference, assembly>> /\ job'[t] = NoDoc
          /\ \A u \in Workers : u # t => job'[u] = job[u] /\ pc'[u] = pc[u]
      BY <1>35 DEF CountPage, Drop, Goto, TypeOK, ThreadsTypeOK
    <3>2. NoDoc # d /\ (Holds(t, d, ThreadPC) <=> d = job[t])
      BY SchedulerAssumption DEF Holds, TypeOK, ThreadsTypeOK
    <3>3. InFlight(d, ThreadPC)' = InFlight(d, ThreadPC) - (IF d = job[t] THEN 1 ELSE 0)
      BY <2>0, <3>1, <3>2, WorkerFlight
    <3>4. TypeOK' BY TypeStep
    <3>5. Holding(d, ThreadPC)' \in Nat /\ InQueues(d)' = InQueues(d) /\ InQueues(d) \in Nat
      BY <3>1, HoldingChange, CountsAreNat DEF InQueues
    <3> QED BY <2>0, <3>3, <3>5 DEF InFlight
  <2>4. CASE d = job[t]
    <3>1. remaining_pages[d] = (total_pages[d] - next_page[d] + 1) + Cutting(d) + InFlight(d,
        ThreadPC)
          /\ (finish_called[d] <=> remaining_pages[d] = 0)
      BY <2>1 DEF PagesAccounted
    <3>2. next_page[d] <= total_pages[d] + 1 BY <2>1 DEF Lifecycle, Registered
    <3>3. remaining_pages'[d] = remaining_pages[d] - 1 BY <2>1, <2>4 DEF TypeOK, DocsTypeOK
    <3>4. Cutting(d)' + InFlight(d, ThreadPC)' = Cutting(d) + InFlight(d, ThreadPC) - 1
          /\ Cutting(d) + InFlight(d, ThreadPC) >= 1 /\ 1 > 0
      BY <2>0, <2>2, <2>3, <2>4
    <3>5. ~finish_called[d] BY <2>0, <2>2, <2>3, <2>4, <3>1, <3>2, <3>4
    <3>6. IF remaining_pages[d] = 1 THEN finish_called'[d] ELSE ~finish_called'[d]
      BY <1>35, <2>1, <2>4, <3>5 DEF CountPage, CountDown, finish_request, TypeOK, DocsTypeOK
    <3>7. remaining_pages'[d] = (total_pages[d] - next_page[d] + 1) + Cutting(d)' + InFlight(d,
        ThreadPC)'
      BY <2>0, <2>2, <2>3, <2>4, <3>1, <3>3, <3>4
    <3>8. finish_called'[d] <=> remaining_pages'[d] = 0 BY <2>0, <3>3, <3>6
    <3> QED BY <2>1, <3>7, <3>8
  <2>5. CASE d # job[t]
    <3>1. remaining_pages'[d] = remaining_pages[d] /\ finish_called'[d] = finish_called[d]
      BY <1>35, <2>1, <2>5 DEF CountPage, CountDown, finish_request, TypeOK, DocsTypeOK
    <3> QED BY <2>0, <2>1, <2>2, <2>3, <2>5, <3>1 DEF PagesAccounted
  <2> QED BY <2>4, <2>5
<1>36. CASE StopDocuments
  <2>1. QuietCount BY <1>36 DEF StopDocuments, StopClose, QuietCount, Cutting, TypeOK,
      ThreadsTypeOK, DocsTypeOK
  <2> QED BY <2>1, TypeStep, QuietAccounts
<1>37. CASE StopReschedule
  <2>1. QuietCount BY <1>37 DEF StopReschedule, QuietCount, Cutting, TypeOK, ThreadsTypeOK,
      DocsTypeOK
  <2> QED BY <2>1, TypeStep, QuietAccounts
<1>38. CASE StopRender
  <2>1. QuietCount BY <1>38 DEF StopRender, StopClose, QuietCount, Cutting, TypeOK,
      ThreadsTypeOK, DocsTypeOK
  <2> QED BY <2>1, TypeStep, QuietAccounts
<1>39. CASE StopInference
  <2>1. QuietCount BY <1>39 DEF StopInference, StopClose, QuietCount, Cutting, TypeOK,
      ThreadsTypeOK, DocsTypeOK
  <2> QED BY <2>1, TypeStep, QuietAccounts
<1>40. CASE StopAssembly
  <2>1. QuietCount BY <1>40 DEF StopAssembly, StopClose, QuietCount, Cutting, TypeOK,
      ThreadsTypeOK, DocsTypeOK
  <2> QED BY <2>1, TypeStep, QuietAccounts
<1>41. CASE StopFail
  <2>1. QuietCount BY <1>41 DEF StopFail, Fail, QuietCount, Cutting, TypeOK, ThreadsTypeOK,
      DocsTypeOK
  <2> QED BY <2>1, TypeStep, QuietAccounts
<1>42. CASE StopAbort
  <2>1. QuietCount BY <1>42 DEF StopAbort, CancelSource, QuietCount, Cutting, TypeOK,
      ThreadsTypeOK, DocsTypeOK
  <2> QED BY <2>1, TypeStep, QuietAccounts
<1>43. CASE StopJoin
  <2>1. QuietCount BY <1>43 DEF StopJoin, QuietCount, Cutting, TypeOK, ThreadsTypeOK, DocsTypeOK
  <2> QED BY <2>1, TypeStep, QuietAccounts
<1>44. CASE StopDone
  <2>1. QuietCount BY <1>44 DEF StopDone, QuietCount, Cutting, TypeOK, ThreadsTypeOK, DocsTypeOK
  <2> QED BY <2>1, TypeStep, QuietAccounts
<1>45. ASSUME NEW x \in Docs, StopWaiter(x) PROVE PagesAccounted'
  <2>1. QuietCount BY <1>45 DEF StopWaiter, queue_reschedule, QuietCount, Cutting, TypeOK,
      ThreadsTypeOK, DocsTypeOK
  <2> QED BY <2>1, TypeStep, QuietAccounts
<1>46. ASSUME NEW x \in Docs, StopExamine(x) PROVE PagesAccounted'
  <2>1. QuietCount BY <1>46 DEF StopExamine, QuietCount, Cutting, TypeOK, ThreadsTypeOK,
      DocsTypeOK
  <2> QED BY <2>1, TypeStep, QuietAccounts
<1>47. ASSUME NEW x \in Docs, StopAbandon(x) PROVE PagesAccounted'
  <2> SUFFICES ASSUME NEW d \in Docs, total_pages'[d] > 0
               PROVE  /\ remaining_pages'[d] = (total_pages'[d] - next_page'[d] + 1)
                                                 + Cutting(d)' + InFlight(d, ThreadPC)'
                      /\ stop_pc' \notin {"abandon", "stopped"} =>
                           (finish_called'[d] <=> remaining_pages'[d] = 0)
    BY DEF PagesAccounted
  <2>1. UNCHANGED <<render, inference, assembly, total_pages, next_page, remaining_pages, job,
      pc, rs,
                    rs_doc, rs_cut, stop_pc>> /\ stop_pc = "abandon"
    BY <1>47 DEF StopAbandon
  <2>2. InFlight(d, ThreadPC)' = InFlight(d, ThreadPC) BY <2>1, FlightSame
  <2> QED BY <2>1, <2>2 DEF PagesAccounted, Cutting
<1>48. CASE UNCHANGED vars
  <2>1. QuietCount BY <1>48 DEF vars, QuietCount, Cutting
  <2> QED BY <2>1, TypeStep, QuietAccounts
<1> QED BY StepCases, <1>1, <1>2, <1>3, <1>4, <1>5, <1>6, <1>7, <1>8, <1>9, <1>10, <1>11, <1>12,
    <1>13, <1>14, <1>15, <1>16, <1>17, <1>18, <1>19, <1>20, <1>21, <1>22, <1>23, <1>24, <1>25,
    <1>26, <1>27, <1>28, <1>29, <1>30, <1>31, <1>32, <1>33, <1>34, <1>35, <1>36, <1>37, <1>38,
    <1>39, <1>40, <1>41, <1>42, <1>43, <1>44, <1>45, <1>46, <1>47, <1>48

\* The rescheduler gives up at least one page.
LEMMA CutHasPagesStep ==
  ASSUME TypeOK, HoldsJob, CutHasPages, [Next]_vars
  PROVE  CutHasPages'
<1>1. ASSUME NEW x \in Docs, Submit(x) PROVE CutHasPages'
  BY <1>1 DEF Submit, CutHasPages
<1>2. ASSUME NEW x \in Docs, TicketCancel(x) PROVE CutHasPages'
  BY <1>2 DEF TicketCancel, CutHasPages
<1>3. ASSUME NEW x \in Docs, TicketAbort(x) PROVE CutHasPages'
  BY <1>3 DEF TicketAbort, CancelSource, CutHasPages
<1>4. ASSUME NEW x \in Docs, TicketRelease(x) PROVE CutHasPages'
  BY <1>4 DEF TicketRelease, release_slots, CutHasPages
<1>5. ASSUME NEW x \in Docs, TicketWake(x) PROVE CutHasPages'
  BY <1>5 DEF TicketWake, queue_reschedule, CutHasPages
<1>6. ASSUME NEW x \in Docs, EnqueueReschedule(x) PROVE CutHasPages'
  BY <1>6 DEF EnqueueReschedule, CutHasPages
<1>7. ASSUME NEW t \in Openers, OpenerPop(t) PROVE CutHasPages'
  BY <1>7 DEF OpenerPop, Goto, CutHasPages
<1>8. ASSUME NEW t \in Openers, OpenerCheck(t) PROVE CutHasPages'
  BY <1>8 DEF OpenerCheck, finish_request, Drop, Goto, CutHasPages
<1>9. ASSUME NEW t \in Openers, OpenerPublish(t) PROVE CutHasPages'
  BY <1>9 DEF OpenerPublish, Goto, CutHasPages
<1>10. ASSUME NEW t \in Openers, OpenerRecheck(t) PROVE CutHasPages'
  BY <1>10 DEF OpenerRecheck, Goto, CutHasPages
<1>11. ASSUME NEW t \in Openers, OpenerSize(t) PROVE CutHasPages'
  BY <1>11 DEF OpenerSize, Goto, CutHasPages
<1>12. ASSUME NEW t \in Openers, OpenerAnnounce(t) PROVE CutHasPages'
  BY <1>12 DEF OpenerAnnounce, Goto, CutHasPages
<1>13. ASSUME NEW t \in Openers, OpenerWake(t) PROVE CutHasPages'
  BY <1>13 DEF OpenerWake, queue_reschedule, Drop, Goto, CutHasPages
<1>14. ASSUME NEW t \in Openers, OpenerSettle(t) PROVE CutHasPages'
  BY <1>14 DEF OpenerSettle, finish_request, queue_reschedule, Drop, Goto, CutHasPages
<1>15. ASSUME NEW t \in Threads, ThreadFail(t) PROVE CutHasPages'
  BY <1>15 DEF ThreadFail, Fail, Goto, CutHasPages
<1>16. ASSUME NEW t \in Threads, ThreadAbort(t) PROVE CutHasPages'
  BY <1>16 DEF ThreadAbort, CancelSource, Goto, CutHasPages
<1>17. CASE RescheduleNext
  BY <1>17 DEF RescheduleNext, CutHasPages
<1>18. CASE RescheduleClear
  BY <1>18 DEF RescheduleClear, CutHasPages
<1>19. CASE ScheduleEnter
  BY <1>19, SchedulerAssumption DEF ScheduleEnter, RescheduleDone, RescheduleDone, HoldsJob,
     TypeOK, DocsTypeOK, CutHasPages
<1>20. CASE SchedulePush
  BY <1>20 DEF SchedulePush, PushPage, Park, RescheduleDone, CutHasPages
<1>21. CASE ScheduleCut
  BY <1>21 DEF ScheduleCut, CountDown, finish_request, RescheduleDone, CutHasPages
<1>22. ASSUME NEW t \in Renderers, RenderPop(t) PROVE CutHasPages'
  BY <1>22 DEF RenderPop, Take, Goto, CutHasPages
<1>23. ASSUME NEW t \in Renderers, RenderNotify(t) PROVE CutHasPages'
  BY <1>23 DEF RenderNotify, queue_reschedule, Goto, CutHasPages
<1>24. ASSUME NEW t \in Renderers, RenderWork(t) PROVE CutHasPages'
  BY <1>24 DEF RenderWork, Step, Goto, CutHasPages
<1>25. ASSUME NEW t \in Recognizers, RecognizePop(t) PROVE CutHasPages'
  BY <1>25 DEF RecognizePop, Take, Goto, CutHasPages
<1>26. ASSUME NEW t \in Recognizers, RecognizeWork(t) PROVE CutHasPages'
  BY <1>26 DEF RecognizeWork, Step, Goto, CutHasPages
<1>27. ASSUME NEW t \in Assemblers, AssemblePop(t) PROVE CutHasPages'
  BY <1>27 DEF AssemblePop, Take, Goto, CutHasPages
<1>28. ASSUME NEW t \in Assemblers, Deliver(t) PROVE CutHasPages'
  BY <1>28 DEF Deliver, Goto, CutHasPages
<1>29. ASSUME NEW t \in Assemblers, ReturnCredit(t) PROVE CutHasPages'
  BY <1>29 DEF ReturnCredit, release_slots, Goto, CutHasPages
<1>30. ASSUME NEW t \in Assemblers, WakeAfterCredit(t) PROVE CutHasPages'
  BY <1>30 DEF WakeAfterCredit, queue_reschedule, Goto, CutHasPages
<1>31. ASSUME NEW t \in Renderers, PushInference(t) PROVE CutHasPages'
  BY <1>31 DEF PushInference, Drop, Goto, CutHasPages
<1>32. ASSUME NEW t \in Workers, PushAssembly(t) PROVE CutHasPages'
  BY <1>32 DEF PushAssembly, Drop, Goto, CutHasPages
<1>33. ASSUME NEW t \in Workers, CheckCancelled(t) PROVE CutHasPages'
  BY <1>33 DEF CheckCancelled, Step, Goto, CutHasPages
<1>34. ASSUME NEW t \in Workers, CompletePage(t) PROVE CutHasPages'
  BY <1>34 DEF CompletePage, queue_reschedule, Goto, CutHasPages
<1>35. ASSUME NEW t \in Workers, CountPage(t) PROVE CutHasPages'
  BY <1>35 DEF CountPage, CountDown, finish_request, Drop, Goto, CutHasPages
<1>36. CASE StopDocuments
  BY <1>36 DEF StopDocuments, StopClose, CutHasPages
<1>37. CASE StopReschedule
  BY <1>37 DEF StopReschedule, CutHasPages
<1>38. CASE StopRender
  BY <1>38 DEF StopRender, StopClose, CutHasPages
<1>39. CASE StopInference
  BY <1>39 DEF StopInference, StopClose, CutHasPages
<1>40. CASE StopAssembly
  BY <1>40 DEF StopAssembly, StopClose, CutHasPages
<1>41. CASE StopFail
  BY <1>41 DEF StopFail, Fail, CutHasPages
<1>42. CASE StopAbort
  BY <1>42 DEF StopAbort, CancelSource, CutHasPages
<1>43. CASE StopJoin
  BY <1>43 DEF StopJoin, CutHasPages
<1>44. CASE StopDone
  BY <1>44 DEF StopDone, CutHasPages
<1>45. ASSUME NEW x \in Docs, StopWaiter(x) PROVE CutHasPages'
  BY <1>45 DEF StopWaiter, queue_reschedule, CutHasPages
<1>46. ASSUME NEW x \in Docs, StopExamine(x) PROVE CutHasPages'
  BY <1>46 DEF StopExamine, CutHasPages
<1>47. ASSUME NEW x \in Docs, StopAbandon(x) PROVE CutHasPages'
  BY <1>47 DEF StopAbandon, Fail, CancelSource, finish_request, CutHasPages
<1>48. CASE UNCHANGED vars
  BY <1>48 DEF vars, CutHasPages
<1> QED BY StepCases, <1>1, <1>2, <1>3, <1>4, <1>5, <1>6, <1>7, <1>8, <1>9, <1>10, <1>11, <1>12,
    <1>13, <1>14, <1>15, <1>16, <1>17, <1>18, <1>19, <1>20, <1>21, <1>22, <1>23, <1>24, <1>25,
    <1>26, <1>27, <1>28, <1>29, <1>30, <1>31, <1>32, <1>33, <1>34, <1>35, <1>36, <1>37, <1>38,
    <1>39, <1>40, <1>41, <1>42, <1>43, <1>44, <1>45, <1>46, <1>47, <1>48

\* remaining_pages counts exactly the pages that still have to end, and a
\* document has finished exactly when none is left (schedule_pages(),
\* complete_page(), finish_request()).
THEOREM PagesAlwaysAccounted == Spec => []PagesAccounted
<1>1. Init => CutHasPages /\ PagesAccounted BY DEF Init, CutHasPages, PagesAccounted
<1>2. TypeOK /\ HoldsJob /\ Lifecycle /\ CutHasPages /\ PagesAccounted /\ [Next]_vars
        => CutHasPages' /\ PagesAccounted'
  BY CutHasPagesStep, PagesAccountedStep
<1> QED BY <1>1, <1>2, TypeCorrect, LifecycleKept, PTL DEF Spec

-----------------------------------------------------------------------------
(* Credits *)

\* A step that gives d no credit and takes none from it.
SameCredits(d) ==
  /\ total_pages'[d] = total_pages[d] /\ available_slots'[d] = available_slots[d]
  /\ owed'[d] = owed[d]
  /\ \A u \in Assemblers : pc'[u] = "credit" /\ job'[u] = d <=> pc[u] = "credit" /\ job[u] = d
  /\ cancelled[d] => cancelled'[d]
  /\ finish_called[d] => finish_called'[d]

\* A step that moves no page of d across its delivery.
QuietFlight(d) ==
  /\ UNCHANGED <<render, inference, assembly>>
  /\ \A u \in Workers : job'[u] = d /\ pc'[u] \in BeforeDelivery <=>
                          job[u] = d /\ pc[u] \in BeforeDelivery

\* A cancelled document may lose pages in flight with their credits.
LEMMA CreditFrame ==
  ASSUME TypeOK, TypeOK', NEW d \in Docs, CreditKept(d), SameCredits(d),
         \/ InFlight(d, BeforeDelivery)' = InFlight(d, BeforeDelivery)
         \/ cancelled'[d] /\ InFlight(d, BeforeDelivery)' <= InFlight(d, BeforeDelivery)
  PROVE  CreditKept(d)'
<1>1. Returning(d)' = Returning(d) BY DEF SameCredits, Returning
<1>2. /\ available_slots[d] \in Int /\ owed[d] \in Int /\ InFlight(d, BeforeDelivery) \in Nat
  BY CountsAreNat DEF TypeOK, DocsTypeOK, SeenTypeOK
<1>3. InFlight(d, BeforeDelivery)' \in Int
  <2>1. \A u \in Workers : u # u => job'[u] = job[u] OBVIOUS
  <2>2. Holding(d, BeforeDelivery)' \in Nat
    BY ThreadAssumption, FS_Subset, FS_CardinalityType DEF Holding
  <2>3. /\ Queued(render', d) \in Nat /\ Queued(inference', d) \in Nat
        /\ Queued(assembly', d) \in Nat
    BY PlacesFinite DEF TypeOK, QueuesTypeOK
  <2> QED BY <2>2, <2>3 DEF InFlight, InQueues
<1>4. PageWindow \in Nat BY SchedulerAssumption
<1> QED BY <1>1, <1>2, <1>3, <1>4 DEF CreditKept, SameCredits

\* A step that touches no credit of a document keeps its credits.
LEMMA CreditQuiet ==
  ASSUME TypeOK, TypeOK', NEW d \in Docs, CreditKept(d), SameCredits(d), QuietFlight(d)
  PROVE  CreditKept(d)'
BY CreditFrame, FlightSame DEF QuietFlight

\* Finitely many assemblers return credits.
LEMMA ReturningFinite ==
  ASSUME NEW d PROVE IsFiniteSet(Returning(d)) /\ Cardinality(Returning(d)) \in Nat
<1>1. Returning(d) \in SUBSET Workers BY Roles DEF Returning
<1> QED BY <1>1, ThreadAssumption, FS_Subset, FS_CardinalityType

\* A credit is taken when a page is pushed, handed to the consumer with the page,
\* and given back once.
LEMMA CreditKeptStep ==
  ASSUME TypeOK, HoldsJob, Lifecycle, CreditsKept, NEW d \in Docs, [Next]_vars
  PROVE  CreditKept(d)'
<1> USE Roles
<1>1. ASSUME NEW x \in Docs, Submit(x) PROVE CreditKept(d)'
  <2>1. SameCredits(d) /\ QuietFlight(d)
    BY <1>1 DEF Submit, SameCredits, QuietFlight, BeforeDelivery, AfterDelivery, ThreadPC,
        TypeOK, DocsTypeOK, ThreadsTypeOK, SeenTypeOK
  <2> QED BY <2>1, TypeStep, CreditQuiet DEF CreditsKept
<1>2. ASSUME NEW x \in Docs, TicketCancel(x) PROVE CreditKept(d)'
  <2>1. SameCredits(d) /\ QuietFlight(d)
    BY <1>2 DEF TicketCancel, SameCredits, QuietFlight, BeforeDelivery, AfterDelivery, ThreadPC,
        TypeOK, DocsTypeOK, ThreadsTypeOK, SeenTypeOK
  <2> QED BY <2>1, TypeStep, CreditQuiet DEF CreditsKept
<1>3. ASSUME NEW x \in Docs, TicketAbort(x) PROVE CreditKept(d)'
  <2>1. SameCredits(d) /\ QuietFlight(d)
    BY <1>3 DEF TicketAbort, CancelSource, SameCredits, QuietFlight, BeforeDelivery,
        AfterDelivery, ThreadPC, TypeOK, DocsTypeOK, ThreadsTypeOK, SeenTypeOK
  <2> QED BY <2>1, TypeStep, CreditQuiet DEF CreditsKept
<1>4. ASSUME NEW x \in Docs, TicketRelease(x) PROVE CreditKept(d)'
  <2>0. /\ available_slots[d] \in 0..PageWindow /\ owed[d] \in Int /\ PageWindow \in Nat
        /\ InFlight(d, BeforeDelivery) \in Nat /\ Cardinality(Returning(d)) \in Nat
        /\ CreditKept(d)
    BY CountsAreNat, ReturningFinite, SchedulerAssumption DEF TypeOK, DocsTypeOK, SeenTypeOK,
        CreditsKept
  <2>1. CASE d = x
    <3>1. UNCHANGED <<render, inference, assembly, job, pc, cancelled, finish_called,
        total_pages>>
      BY <1>4 DEF TicketRelease
    <3>2. Returning(d)' = Returning(d) /\ InFlight(d, BeforeDelivery)' = InFlight(d,
        BeforeDelivery)
      BY <3>1, FlightSame DEF Returning
    <3>3. owed[d] > Cardinality(Returning(d)) /\ owed'[d] = owed[d] - 1
      BY <1>4, <2>1 DEF TicketRelease, Returning, TypeOK, SeenTypeOK
    <3>4. available_slots[d] + 1 <= PageWindow BY <2>0, <3>3 DEF CreditKept
    <3>5. IF finish_called[d] THEN available_slots'[d] = available_slots[d]
          ELSE available_slots'[d] = available_slots[d] + 1
      BY <1>4, <2>0, <2>1, <3>4 DEF TicketRelease, release_slots, TypeOK, DocsTypeOK
    <3> QED BY <2>0, <3>1, <3>2, <3>3, <3>5 DEF CreditKept
  <2>9. CASE d # x
    <3>1. SameCredits(d) /\ QuietFlight(d) BY <1>4, <2>9 DEF TicketRelease, release_slots,
        SameCredits, QuietFlight, BeforeDelivery, AfterDelivery, ThreadPC, TypeOK, DocsTypeOK,
        ThreadsTypeOK, SeenTypeOK
    <3> QED BY <3>1, TypeStep, CreditQuiet DEF CreditsKept
  <2> QED BY <2>1, <2>9
<1>5. ASSUME NEW x \in Docs, TicketWake(x) PROVE CreditKept(d)'
  <2>1. SameCredits(d) /\ QuietFlight(d)
    BY <1>5 DEF TicketWake, queue_reschedule, SameCredits, QuietFlight, BeforeDelivery,
        AfterDelivery, ThreadPC, TypeOK, DocsTypeOK, ThreadsTypeOK, SeenTypeOK
  <2> QED BY <2>1, TypeStep, CreditQuiet DEF CreditsKept
<1>6. ASSUME NEW x \in Docs, EnqueueReschedule(x) PROVE CreditKept(d)'
  <2>1. SameCredits(d) /\ QuietFlight(d)
    BY <1>6 DEF EnqueueReschedule, SameCredits, QuietFlight, BeforeDelivery, AfterDelivery,
        ThreadPC, TypeOK, DocsTypeOK, ThreadsTypeOK, SeenTypeOK
  <2> QED BY <2>1, TypeStep, CreditQuiet DEF CreditsKept
<1>7. ASSUME NEW t \in Openers, OpenerPop(t) PROVE CreditKept(d)'
  <2>1. /\ UNCHANGED <<ties, span, render, inference, assembly, finishes, owed>>
        /\ \A u \in Workers : job'[u] = job[u] /\ pc'[u] = pc[u]
    BY <1>7 DEF OpenerPop, Goto, TypeOK, ThreadsTypeOK
  <2>2. SameCredits(d) /\ QuietFlight(d) BY <2>1 DEF SameCredits, QuietFlight
  <2> QED BY <2>2, TypeStep, CreditQuiet DEF CreditsKept
<1>8. ASSUME NEW t \in Openers, OpenerCheck(t) PROVE CreditKept(d)'
  <2>1. SameCredits(d) /\ QuietFlight(d)
    BY <1>8 DEF OpenerCheck, finish_request, Drop, Goto, SameCredits, QuietFlight,
        BeforeDelivery, AfterDelivery, ThreadPC, TypeOK, DocsTypeOK, ThreadsTypeOK, SeenTypeOK
  <2> QED BY <2>1, TypeStep, CreditQuiet DEF CreditsKept
<1>9. ASSUME NEW t \in Openers, OpenerPublish(t) PROVE CreditKept(d)'
  <2>1. SameCredits(d) /\ QuietFlight(d)
    BY <1>9 DEF OpenerPublish, Goto, SameCredits, QuietFlight, BeforeDelivery, AfterDelivery,
        ThreadPC, TypeOK, DocsTypeOK, ThreadsTypeOK, SeenTypeOK
  <2> QED BY <2>1, TypeStep, CreditQuiet DEF CreditsKept
<1>10. ASSUME NEW t \in Openers, OpenerRecheck(t) PROVE CreditKept(d)'
  <2>1. SameCredits(d) /\ QuietFlight(d)
    BY <1>10 DEF OpenerRecheck, Goto, SameCredits, QuietFlight, BeforeDelivery, AfterDelivery,
        ThreadPC, TypeOK, DocsTypeOK, ThreadsTypeOK, SeenTypeOK
  <2> QED BY <2>1, TypeStep, CreditQuiet DEF CreditsKept
<1>11. ASSUME NEW t \in Openers, OpenerSize(t) PROVE CreditKept(d)'
  <2>0. /\ available_slots[d] \in 0..PageWindow /\ owed[d] \in Int /\ PageWindow \in Nat
        /\ InFlight(d, BeforeDelivery) \in Nat /\ Cardinality(Returning(d)) \in Nat
        /\ CreditKept(d)
    BY CountsAreNat, ReturningFinite, SchedulerAssumption DEF TypeOK, DocsTypeOK, SeenTypeOK,
        CreditsKept
  <2>1. UNCHANGED <<render, inference, assembly, job, owed, cancelled, finish_called>>
        /\ \A u \in Workers : pc'[u] = pc[u]
    BY <1>11 DEF OpenerSize, Goto, TypeOK, ThreadsTypeOK
  <2>2. Returning(d)' = Returning(d) /\ InFlight(d, BeforeDelivery)' = InFlight(d,
      BeforeDelivery)
    BY <2>1, FlightSame DEF Returning
  <2>3. CASE d = job[t]
    <3>1. total_pages[d] = 0 BY <1>11, <2>3 DEF OpenerSize, Lifecycle, OpenedOnce
    <3>2. InFlight(d, BeforeDelivery) = 0 /\ owed[d] = 0
      BY <2>0, <3>1, FlightNone DEF CreditKept
    <3>3. \/ available_slots'[d] = PageWindow
          \/ total_pages'[d] = total_pages[d] /\ available_slots'[d] = available_slots[d]
      BY <1>11, <2>3 DEF OpenerSize, TypeOK, DocsTypeOK
    <3> QED BY <2>0, <2>1, <2>2, <3>1, <3>2, <3>3 DEF CreditKept
  <2>9. CASE d # job[t]
    <3>1. SameCredits(d) /\ QuietFlight(d) BY <1>11, <2>9 DEF OpenerSize, Goto, SameCredits,
        QuietFlight, BeforeDelivery, AfterDelivery, ThreadPC, TypeOK, DocsTypeOK, ThreadsTypeOK,
        SeenTypeOK
    <3> QED BY <3>1, TypeStep, CreditQuiet DEF CreditsKept
  <2> QED BY <2>3, <2>9
<1>12. ASSUME NEW t \in Openers, OpenerAnnounce(t) PROVE CreditKept(d)'
  <2>1. SameCredits(d) /\ QuietFlight(d)
    BY <1>12 DEF OpenerAnnounce, Goto, SameCredits, QuietFlight, BeforeDelivery, AfterDelivery,
        ThreadPC, TypeOK, DocsTypeOK, ThreadsTypeOK, SeenTypeOK
  <2> QED BY <2>1, TypeStep, CreditQuiet DEF CreditsKept
<1>13. ASSUME NEW t \in Openers, OpenerWake(t) PROVE CreditKept(d)'
  <2>1. SameCredits(d) /\ QuietFlight(d)
    BY <1>13 DEF OpenerWake, queue_reschedule, Drop, Goto, SameCredits, QuietFlight,
        BeforeDelivery, AfterDelivery, ThreadPC, TypeOK, DocsTypeOK, ThreadsTypeOK, SeenTypeOK
  <2> QED BY <2>1, TypeStep, CreditQuiet DEF CreditsKept
<1>14. ASSUME NEW t \in Openers, OpenerSettle(t) PROVE CreditKept(d)'
  <2>1. SameCredits(d) /\ QuietFlight(d)
    BY <1>14 DEF OpenerSettle, finish_request, queue_reschedule, Drop, Goto, SameCredits,
        QuietFlight, BeforeDelivery, AfterDelivery, ThreadPC, TypeOK, DocsTypeOK, ThreadsTypeOK,
        SeenTypeOK
  <2> QED BY <2>1, TypeStep, CreditQuiet DEF CreditsKept
<1>15. ASSUME NEW t \in Threads, ThreadFail(t) PROVE CreditKept(d)'
  <2>1. SameCredits(d) /\ QuietFlight(d)
    BY <1>15 DEF ThreadFail, Fail, Goto, SameCredits, QuietFlight, BeforeDelivery,
        AfterDelivery, ThreadPC, TypeOK, DocsTypeOK, ThreadsTypeOK, SeenTypeOK
  <2> QED BY <2>1, TypeStep, CreditQuiet DEF CreditsKept
<1>16. ASSUME NEW t \in Threads, ThreadAbort(t) PROVE CreditKept(d)'
  <2>4. CASE t \in Workers
    <3>1. SameCredits(d) /\ UNCHANGED <<render, inference, assembly, job>>
          /\ \A u \in Workers : u # t => pc'[u] = pc[u]
      BY <1>16 DEF ThreadAbort, CancelSource, Goto, SameCredits, TypeOK, DocsTypeOK,
          ThreadsTypeOK
    <3>2. CASE job[t] = d /\ t \notin Openers
      <4>1. cancelled'[d] /\ ~(pc'[t] \in BeforeDelivery)
        BY <1>16, <3>2 DEF ThreadAbort, CancelSource, Goto, Lifecycle, ThreadsSettled,
            SameCredits, QuietFlight, BeforeDelivery, AfterDelivery, ThreadPC, TypeOK,
            DocsTypeOK, ThreadsTypeOK, SeenTypeOK
      <4>2. InFlight(d, BeforeDelivery)' <= InFlight(d, BeforeDelivery)
        <5>1. InFlight(d, BeforeDelivery)' = InFlight(d, BeforeDelivery)
                - (IF Holds(t, d, BeforeDelivery) THEN 1 ELSE 0)
                + (IF job'[t] = d /\ pc'[t] \in BeforeDelivery THEN 1 ELSE 0)
          BY <2>4, <3>1, WorkerFlight
        <5> QED BY <4>1, <5>1, CountsAreNat
      <4> QED BY <3>1, <4>1, <4>2, TypeStep, CreditFrame DEF CreditsKept
    <3>3. CASE ~(job[t] = d /\ t \notin Openers)
      <4>1. QuietFlight(d) BY <1>16, <3>3 DEF ThreadAbort, CancelSource, Goto, SameCredits,
          QuietFlight, BeforeDelivery, AfterDelivery, ThreadPC, TypeOK, DocsTypeOK,
          ThreadsTypeOK, SeenTypeOK
      <4> QED BY <3>1, <4>1, TypeStep, CreditQuiet DEF CreditsKept
    <3> QED BY <3>2, <3>3
  <2>5. CASE t \in Openers
    <3>1. SameCredits(d) /\ QuietFlight(d)
      BY <1>16, <2>5 DEF ThreadAbort, CancelSource, Goto, SameCredits, QuietFlight,
          BeforeDelivery, AfterDelivery, ThreadPC, TypeOK, DocsTypeOK, ThreadsTypeOK, SeenTypeOK
    <3> QED BY <3>1, TypeStep, CreditQuiet DEF CreditsKept
  <2> QED BY <2>4, <2>5 DEF Threads
<1>17. CASE RescheduleNext
  <2>1. SameCredits(d) /\ QuietFlight(d)
    BY <1>17 DEF RescheduleNext, SameCredits, QuietFlight, BeforeDelivery, AfterDelivery,
        ThreadPC, TypeOK, DocsTypeOK, ThreadsTypeOK, SeenTypeOK
  <2> QED BY <2>1, TypeStep, CreditQuiet DEF CreditsKept
<1>18. CASE RescheduleClear
  <2>1. SameCredits(d) /\ QuietFlight(d)
    BY <1>18 DEF RescheduleClear, SameCredits, QuietFlight, BeforeDelivery, AfterDelivery,
        ThreadPC, TypeOK, DocsTypeOK, ThreadsTypeOK, SeenTypeOK
  <2> QED BY <2>1, TypeStep, CreditQuiet DEF CreditsKept
<1>19. CASE ScheduleEnter
  <2>1. SameCredits(d) /\ QuietFlight(d)
    BY <1>19 DEF ScheduleEnter, RescheduleDone, SameCredits, QuietFlight, BeforeDelivery,
        AfterDelivery, ThreadPC, TypeOK, DocsTypeOK, ThreadsTypeOK, SeenTypeOK
  <2> QED BY <2>1, TypeStep, CreditQuiet DEF CreditsKept
<1>20. CASE SchedulePush
  <2>0. /\ available_slots[d] \in 0..PageWindow /\ owed[d] \in Int /\ PageWindow \in Nat
        /\ InFlight(d, BeforeDelivery) \in Nat /\ Cardinality(Returning(d)) \in Nat
        /\ CreditKept(d)
    BY CountsAreNat, ReturningFinite, SchedulerAssumption DEF TypeOK, DocsTypeOK, SeenTypeOK,
        CreditsKept
  <2>1. UNCHANGED <<total_pages, job, pc, owed, cancelled, finish_called>> /\ rs_doc \in Docs
    BY <1>20 DEF SchedulePush, HoldsJob
  <2>2. Returning(d)' = Returning(d) BY <2>1 DEF Returning
  <2>3. InFlight(d, BeforeDelivery)' = InFlight(d, BeforeDelivery)
          + (IF rs_doc = d /\ PushPage(rs_doc) /\ UNCHANGED rs THEN 1 ELSE 0)
    BY <1>20, PagePushFlight
  <2>4. available_slots'[d] = available_slots[d]
          - (IF rs_doc = d /\ PushPage(rs_doc) /\ UNCHANGED rs THEN 1 ELSE 0)
    <3>1. CASE PushPage(rs_doc) /\ UNCHANGED rs
      <4>1. available_slots' = [available_slots EXCEPT ![rs_doc] = available_slots[rs_doc] - 1]
        BY <3>1 DEF PushPage
      <4> QED BY <2>0, <2>1, <3>1, <4>1 DEF TypeOK, DocsTypeOK
    <3>2. CASE ~(PushPage(rs_doc) /\ UNCHANGED rs)
      <4>1. UNCHANGED available_slots BY <1>20, <3>2 DEF SchedulePush
      <4> QED BY <2>0, <3>2, <4>1
    <3> QED BY <3>1, <3>2
  <2> QED BY <2>0, <2>1, <2>2, <2>3, <2>4 DEF CreditKept
<1>21. CASE ScheduleCut
  <2>1. SameCredits(d) /\ QuietFlight(d)
    BY <1>21 DEF ScheduleCut, CountDown, finish_request, RescheduleDone, SameCredits,
        QuietFlight, BeforeDelivery, AfterDelivery, ThreadPC, TypeOK, DocsTypeOK, ThreadsTypeOK,
        SeenTypeOK
  <2> QED BY <2>1, TypeStep, CreditQuiet DEF CreditsKept
<1>22. ASSUME NEW t \in Renderers, RenderPop(t) PROVE CreditKept(d)'
  <2>0. job[t] = NoDoc /\ NoDoc # d
    BY <1>22, SchedulerAssumption DEF RenderPop, Lifecycle, ThreadsSettled
  <2>1. SameCredits(d) BY <1>22, <2>0 DEF RenderPop, Take, Goto, SameCredits, TypeOK,
      ThreadsTypeOK
  <2>2. {"held", "notify"} \subseteq BeforeDelivery BY DEF BeforeDelivery, AfterDelivery,
      ThreadPC
  <2>3. InFlight(d, BeforeDelivery)' = InFlight(d, BeforeDelivery) BY <1>22, <2>2, PopFlight
  <2> QED BY <2>1, <2>3, TypeStep, CreditFrame DEF CreditsKept
<1>23. ASSUME NEW t \in Renderers, RenderNotify(t) PROVE CreditKept(d)'
  <2>1. SameCredits(d) /\ QuietFlight(d)
    BY <1>23 DEF RenderNotify, queue_reschedule, Goto, SameCredits, QuietFlight, BeforeDelivery,
        AfterDelivery, ThreadPC, TypeOK, DocsTypeOK, ThreadsTypeOK, SeenTypeOK
  <2> QED BY <2>1, TypeStep, CreditQuiet DEF CreditsKept
<1>24. ASSUME NEW t \in Renderers, RenderWork(t) PROVE CreditKept(d)'
  <2>1. SameCredits(d) /\ UNCHANGED <<render, inference, assembly, job>>
        /\ \A u \in Workers : u # t => pc'[u] = pc[u]
    BY <1>24 DEF RenderWork, Step, Goto, SameCredits, TypeOK, DocsTypeOK, ThreadsTypeOK
  <2>2. CASE job[t] = d /\ (pc[t] = "rendered" /\ cancelled[job[t]])
    <3>1. cancelled'[d] /\ ~(pc'[t] \in BeforeDelivery)
      BY <1>24, <2>2 DEF RenderWork, Step, Goto, Lifecycle, ThreadsSettled, SameCredits,
          QuietFlight, BeforeDelivery, AfterDelivery, ThreadPC, TypeOK, DocsTypeOK,
          ThreadsTypeOK, SeenTypeOK
    <3>2. InFlight(d, BeforeDelivery)' <= InFlight(d, BeforeDelivery)
      <4>1. InFlight(d, BeforeDelivery)' = InFlight(d, BeforeDelivery)
              - (IF Holds(t, d, BeforeDelivery) THEN 1 ELSE 0)
              + (IF job'[t] = d /\ pc'[t] \in BeforeDelivery THEN 1 ELSE 0)
        BY <2>1, WorkerFlight
      <4> QED BY <3>1, <4>1, CountsAreNat
    <3> QED BY <2>1, <3>1, <3>2, TypeStep, CreditFrame DEF CreditsKept
  <2>3. CASE ~(job[t] = d /\ (pc[t] = "rendered" /\ cancelled[job[t]]))
    <3>1. QuietFlight(d) BY <1>24, <2>3 DEF RenderWork, Step, Goto, SameCredits, QuietFlight,
        BeforeDelivery, AfterDelivery, ThreadPC, TypeOK, DocsTypeOK, ThreadsTypeOK, SeenTypeOK
    <3> QED BY <2>1, <3>1, TypeStep, CreditQuiet DEF CreditsKept
  <2> QED BY <2>2, <2>3
<1>25. ASSUME NEW t \in Recognizers, RecognizePop(t) PROVE CreditKept(d)'
  <2>0. job[t] = NoDoc /\ NoDoc # d
    BY <1>25, SchedulerAssumption DEF RecognizePop, Lifecycle, ThreadsSettled
  <2>1. SameCredits(d) BY <1>25, <2>0 DEF RecognizePop, Take, Goto, SameCredits, TypeOK,
      ThreadsTypeOK
  <2>2. {"held", "notify"} \subseteq BeforeDelivery BY DEF BeforeDelivery, AfterDelivery,
      ThreadPC
  <2>3. InFlight(d, BeforeDelivery)' = InFlight(d, BeforeDelivery) BY <1>25, <2>2, PopFlight
  <2> QED BY <2>1, <2>3, TypeStep, CreditFrame DEF CreditsKept
<1>26. ASSUME NEW t \in Recognizers, RecognizeWork(t) PROVE CreditKept(d)'
  <2>1. SameCredits(d) /\ QuietFlight(d)
    BY <1>26 DEF RecognizeWork, Step, Goto, SameCredits, QuietFlight, BeforeDelivery,
        AfterDelivery, ThreadPC, TypeOK, DocsTypeOK, ThreadsTypeOK, SeenTypeOK
  <2> QED BY <2>1, TypeStep, CreditQuiet DEF CreditsKept
<1>27. ASSUME NEW t \in Assemblers, AssemblePop(t) PROVE CreditKept(d)'
  <2>0. job[t] = NoDoc /\ NoDoc # d
    BY <1>27, SchedulerAssumption DEF AssemblePop, Lifecycle, ThreadsSettled
  <2>1. SameCredits(d) BY <1>27, <2>0 DEF AssemblePop, Take, Goto, SameCredits, TypeOK,
      ThreadsTypeOK
  <2>2. {"held", "notify"} \subseteq BeforeDelivery BY DEF BeforeDelivery, AfterDelivery,
      ThreadPC
  <2>3. InFlight(d, BeforeDelivery)' = InFlight(d, BeforeDelivery) BY <1>27, <2>2, PopFlight
  <2> QED BY <2>1, <2>3, TypeStep, CreditFrame DEF CreditsKept
<1>28. ASSUME NEW t \in Assemblers, Deliver(t) PROVE CreditKept(d)'
  <2>0. /\ available_slots[d] \in 0..PageWindow /\ owed[d] \in Int /\ PageWindow \in Nat
        /\ InFlight(d, BeforeDelivery) \in Nat /\ Cardinality(Returning(d)) \in Nat
        /\ CreditKept(d)
    BY CountsAreNat, ReturningFinite, SchedulerAssumption DEF TypeOK, DocsTypeOK, SeenTypeOK,
        CreditsKept
  <2>1. /\ UNCHANGED <<render, inference, assembly, job, total_pages, available_slots,
                       finish_called>>
        /\ \A u \in Workers : u # t => pc'[u] = pc[u]
        /\ pc[t] = "work" /\ total_pages[job[t]] > 0
    BY <1>28 DEF Deliver, Goto, HoldsJob, Lifecycle, PagesOpened, TypeOK, ThreadsTypeOK
  <2>2. CASE d = job[t] /\ owed' # owed
    <3>1. owed'[d] = owed[d] + 1 /\ pc'[t] \in {"complete", "credit"} /\ UNCHANGED cancelled
      BY <1>28, <2>2 DEF Deliver, Goto, TypeOK, ThreadsTypeOK, SeenTypeOK
    <3>2. InFlight(d, BeforeDelivery)' = InFlight(d, BeforeDelivery) - 1
      BY <2>0, <2>1, <2>2, <3>1, WorkerFlight
      DEF Holds, BeforeDelivery, AfterDelivery, ThreadPC
    <3>3. Returning(d)' \subseteq Returning(d) \cup {t} BY <2>1 DEF Returning
    <3>4. Cardinality(Returning(d)') <= Cardinality(Returning(d)) + 1
      <4>1. IsFiniteSet(Returning(d)) BY ReturningFinite
      <4>2. /\ IsFiniteSet(Returning(d) \cup {t})
            /\ Cardinality(Returning(d) \cup {t}) <= Cardinality(Returning(d)) + 1
        <5>1. /\ IsFiniteSet(Returning(d) \cup {t})
              /\ Cardinality(Returning(d) \cup {t}) =
                   IF t \in Returning(d) THEN Cardinality(Returning(d)) ELSE
                       Cardinality(Returning(d)) + 1
          BY <4>1, FS_AddElement
        <5> QED BY <2>0, <5>1
      <4>3. Cardinality(Returning(d)') <= Cardinality(Returning(d) \cup {t})
        BY <3>3, <4>2, FS_Subset
      <4>4. /\ Cardinality(Returning(d)') \in Nat /\ Cardinality(Returning(d) \cup {t}) \in Nat
        BY <3>3, <4>2, FS_Subset, FS_CardinalityType
      <4> QED BY <2>0, <4>2, <4>3, <4>4
    <3>5. Cardinality(Returning(d)') \in Nat
      BY <3>3, ReturningFinite, FS_AddElement, FS_Subset, FS_CardinalityType
    <3> QED BY <2>0, <2>1, <2>2, <3>1, <3>2, <3>4, <3>5 DEF CreditKept
  <2>3. CASE d = job[t] /\ owed' = owed
    <3>1. pc'[t] \in {"abort", "fail"} /\ (cancelled[d] => cancelled'[d])
      <4>1. job[t] \in Docs BY <1>28 DEF Deliver, HoldsJob
      <4>2. owed[job[t]] + 1 # owed[job[t]] BY <4>1 DEF TypeOK, SeenTypeOK
      <4> QED BY <1>28, <2>3, <4>1, <4>2 DEF Deliver, Goto, TypeOK, DocsTypeOK, ThreadsTypeOK,
          SeenTypeOK
    <3>2. SameCredits(d) /\ QuietFlight(d) BY <2>1, <2>3, <3>1, Roles DEF SameCredits,
        QuietFlight, BeforeDelivery, AfterDelivery, ThreadPC, TypeOK, DocsTypeOK, ThreadsTypeOK,
        SeenTypeOK
    <3> QED BY <3>2, TypeStep, CreditQuiet DEF CreditsKept
  <2>9. CASE d # job[t]
    <3>1. SameCredits(d) /\ QuietFlight(d) BY <1>28, <2>9 DEF Deliver, Goto, SameCredits,
        QuietFlight, BeforeDelivery, AfterDelivery, ThreadPC, TypeOK, DocsTypeOK, ThreadsTypeOK,
        SeenTypeOK
    <3> QED BY <3>1, TypeStep, CreditQuiet DEF CreditsKept
  <2> QED BY <2>2, <2>3, <2>9
<1>29. ASSUME NEW t \in Assemblers, ReturnCredit(t) PROVE CreditKept(d)'
  <2>0. /\ available_slots[d] \in 0..PageWindow /\ owed[d] \in Int /\ PageWindow \in Nat
        /\ InFlight(d, BeforeDelivery) \in Nat /\ Cardinality(Returning(d)) \in Nat
        /\ CreditKept(d)
    BY CountsAreNat, ReturningFinite, SchedulerAssumption DEF TypeOK, DocsTypeOK, SeenTypeOK,
        CreditsKept
  <2>1. /\ UNCHANGED <<render, inference, assembly, job, total_pages, cancelled, finish_called>>
        /\ pc[t] = "credit" /\ pc'[t] = "wake" /\ \A u \in Workers : u # t => pc'[u] = pc[u]
    BY <1>29 DEF ReturnCredit, Goto, TypeOK, ThreadsTypeOK
  <2>2. CASE d = job[t]
    <3>1. t \in Returning(d) /\ Returning(d)' = Returning(d) \ {t} BY <2>1, <2>2 DEF Returning
    <3>2. Cardinality(Returning(d)') = Cardinality(Returning(d)) - 1
      BY <3>1, ReturningFinite, FS_RemoveElement
    <3>3. Cardinality(Returning(d)) >= 1
      BY <2>0, <3>1, ReturningFinite, FS_EmptySet
    <3>4. owed'[d] = owed[d] - 1 /\ owed[d] >= 1
      BY <1>29, <2>0, <2>2, <3>3 DEF ReturnCredit, CreditKept, TypeOK, SeenTypeOK
    <3>5. available_slots'[d] = available_slots[d] + 1
      BY <1>29, <2>0, <2>2, <3>4 DEF ReturnCredit, release_slots, CreditKept, TypeOK, DocsTypeOK
    <3>6. InFlight(d, BeforeDelivery)' = InFlight(d, BeforeDelivery)
      BY <2>1, <2>2, FlightSame DEF BeforeDelivery, AfterDelivery
    <3> QED BY <2>0, <2>1, <3>2, <3>4, <3>5, <3>6 DEF CreditKept
  <2>9. CASE d # job[t]
    <3>1. SameCredits(d) /\ QuietFlight(d) BY <1>29, <2>9 DEF ReturnCredit, release_slots, Goto,
        SameCredits, QuietFlight, BeforeDelivery, AfterDelivery, ThreadPC, TypeOK, DocsTypeOK,
        ThreadsTypeOK, SeenTypeOK
    <3> QED BY <3>1, TypeStep, CreditQuiet DEF CreditsKept
  <2> QED BY <2>2, <2>9
<1>30. ASSUME NEW t \in Assemblers, WakeAfterCredit(t) PROVE CreditKept(d)'
  <2>1. SameCredits(d) /\ QuietFlight(d)
    BY <1>30 DEF WakeAfterCredit, queue_reschedule, Goto, SameCredits, QuietFlight,
        BeforeDelivery, AfterDelivery, ThreadPC, TypeOK, DocsTypeOK, ThreadsTypeOK, SeenTypeOK
  <2> QED BY <2>1, TypeStep, CreditQuiet DEF CreditsKept
<1>31. ASSUME NEW t \in Renderers, PushInference(t) PROVE CreditKept(d)'
  <2>1. SameCredits(d) BY <1>31 DEF PushInference, Drop, Goto, SameCredits, TypeOK,
      ThreadsTypeOK
  <2>2. {"to_inference", "to_assembly", "fail_closed"} \subseteq BeforeDelivery BY DEF
      BeforeDelivery, AfterDelivery, ThreadPC
  <2>3. InFlight(d, BeforeDelivery)' = InFlight(d, BeforeDelivery) BY <1>31, <2>2, PushFlight
  <2> QED BY <2>1, <2>3, TypeStep, CreditFrame DEF CreditsKept
<1>32. ASSUME NEW t \in Workers, PushAssembly(t) PROVE CreditKept(d)'
  <2>1. SameCredits(d) BY <1>32 DEF PushAssembly, Drop, Goto, SameCredits, TypeOK, ThreadsTypeOK
  <2>2. {"to_inference", "to_assembly", "fail_closed"} \subseteq BeforeDelivery BY DEF
      BeforeDelivery, AfterDelivery, ThreadPC
  <2>3. InFlight(d, BeforeDelivery)' = InFlight(d, BeforeDelivery) BY <1>32, <2>2, PushFlight
  <2> QED BY <2>1, <2>3, TypeStep, CreditFrame DEF CreditsKept
<1>33. ASSUME NEW t \in Workers, CheckCancelled(t) PROVE CreditKept(d)'
  <2>1. SameCredits(d) /\ UNCHANGED <<render, inference, assembly, job>>
        /\ \A u \in Workers : u # t => pc'[u] = pc[u]
    BY <1>33 DEF CheckCancelled, Step, Goto, SameCredits, TypeOK, DocsTypeOK, ThreadsTypeOK
  <2>2. CASE job[t] = d /\ cancelled[job[t]]
    <3>1. cancelled'[d] /\ ~(pc'[t] \in BeforeDelivery)
      BY <1>33, <2>2 DEF CheckCancelled, Step, Goto, Lifecycle, ThreadsSettled, SameCredits,
          QuietFlight, BeforeDelivery, AfterDelivery, ThreadPC, TypeOK, DocsTypeOK,
          ThreadsTypeOK, SeenTypeOK
    <3>2. InFlight(d, BeforeDelivery)' <= InFlight(d, BeforeDelivery)
      <4>1. InFlight(d, BeforeDelivery)' = InFlight(d, BeforeDelivery)
              - (IF Holds(t, d, BeforeDelivery) THEN 1 ELSE 0)
              + (IF job'[t] = d /\ pc'[t] \in BeforeDelivery THEN 1 ELSE 0)
        BY <2>1, WorkerFlight
      <4> QED BY <3>1, <4>1, CountsAreNat
    <3> QED BY <2>1, <3>1, <3>2, TypeStep, CreditFrame DEF CreditsKept
  <2>3. CASE ~(job[t] = d /\ cancelled[job[t]])
    <3>1. QuietFlight(d) BY <1>33, <2>3 DEF CheckCancelled, Step, Goto, SameCredits,
        QuietFlight, BeforeDelivery, AfterDelivery, ThreadPC, TypeOK, DocsTypeOK, ThreadsTypeOK,
        SeenTypeOK
    <3> QED BY <2>1, <3>1, TypeStep, CreditQuiet DEF CreditsKept
  <2> QED BY <2>2, <2>3
<1>34. ASSUME NEW t \in Workers, CompletePage(t) PROVE CreditKept(d)'
  <2>1. SameCredits(d) /\ QuietFlight(d)
    BY <1>34 DEF CompletePage, queue_reschedule, Goto, SameCredits, QuietFlight, BeforeDelivery,
        AfterDelivery, ThreadPC, TypeOK, DocsTypeOK, ThreadsTypeOK, SeenTypeOK
  <2> QED BY <2>1, TypeStep, CreditQuiet DEF CreditsKept
<1>35. ASSUME NEW t \in Workers, CountPage(t) PROVE CreditKept(d)'
  <2>2. /\ pc[t] = "count" /\ pc'[t] = "idle" /\ job'[t] = NoDoc
        /\ \A u \in Workers : u # t => job'[u] = job[u] /\ pc'[u] = pc[u]
    BY <1>35 DEF CountPage, Drop, Goto, TypeOK, ThreadsTypeOK
  <2>1. SameCredits(d) /\ QuietFlight(d)
    BY <1>35, SchedulerAssumption, <2>2 DEF CountPage, CountDown, finish_request, Drop, Goto,
        SameCredits, QuietFlight, BeforeDelivery, AfterDelivery, ThreadPC, TypeOK, DocsTypeOK,
        ThreadsTypeOK, SeenTypeOK
  <2> QED BY <2>1, TypeStep, CreditQuiet DEF CreditsKept
<1>36. CASE StopDocuments
  <2>1. SameCredits(d) /\ QuietFlight(d)
    BY <1>36 DEF StopDocuments, StopClose, SameCredits, QuietFlight, BeforeDelivery,
        AfterDelivery, ThreadPC, TypeOK, DocsTypeOK, ThreadsTypeOK, SeenTypeOK
  <2> QED BY <2>1, TypeStep, CreditQuiet DEF CreditsKept
<1>37. CASE StopReschedule
  <2>1. SameCredits(d) /\ QuietFlight(d)
    BY <1>37 DEF StopReschedule, SameCredits, QuietFlight, BeforeDelivery, AfterDelivery,
        ThreadPC, TypeOK, DocsTypeOK, ThreadsTypeOK, SeenTypeOK
  <2> QED BY <2>1, TypeStep, CreditQuiet DEF CreditsKept
<1>38. CASE StopRender
  <2>1. SameCredits(d) /\ QuietFlight(d)
    BY <1>38 DEF StopRender, StopClose, SameCredits, QuietFlight, BeforeDelivery, AfterDelivery,
        ThreadPC, TypeOK, DocsTypeOK, ThreadsTypeOK, SeenTypeOK
  <2> QED BY <2>1, TypeStep, CreditQuiet DEF CreditsKept
<1>39. CASE StopInference
  <2>1. SameCredits(d) /\ QuietFlight(d)
    BY <1>39 DEF StopInference, StopClose, SameCredits, QuietFlight, BeforeDelivery,
        AfterDelivery, ThreadPC, TypeOK, DocsTypeOK, ThreadsTypeOK, SeenTypeOK
  <2> QED BY <2>1, TypeStep, CreditQuiet DEF CreditsKept
<1>40. CASE StopAssembly
  <2>1. SameCredits(d) /\ QuietFlight(d)
    BY <1>40 DEF StopAssembly, StopClose, SameCredits, QuietFlight, BeforeDelivery,
        AfterDelivery, ThreadPC, TypeOK, DocsTypeOK, ThreadsTypeOK, SeenTypeOK
  <2> QED BY <2>1, TypeStep, CreditQuiet DEF CreditsKept
<1>41. CASE StopFail
  <2>1. SameCredits(d) /\ QuietFlight(d)
    BY <1>41 DEF StopFail, Fail, SameCredits, QuietFlight, BeforeDelivery, AfterDelivery,
        ThreadPC, TypeOK, DocsTypeOK, ThreadsTypeOK, SeenTypeOK
  <2> QED BY <2>1, TypeStep, CreditQuiet DEF CreditsKept
<1>42. CASE StopAbort
  <2>1. SameCredits(d) /\ QuietFlight(d)
    BY <1>42 DEF StopAbort, CancelSource, SameCredits, QuietFlight, BeforeDelivery,
        AfterDelivery, ThreadPC, TypeOK, DocsTypeOK, ThreadsTypeOK, SeenTypeOK
  <2> QED BY <2>1, TypeStep, CreditQuiet DEF CreditsKept
<1>43. CASE StopJoin
  <2>1. SameCredits(d) /\ QuietFlight(d)
    BY <1>43 DEF StopJoin, SameCredits, QuietFlight, BeforeDelivery, AfterDelivery, ThreadPC,
        TypeOK, DocsTypeOK, ThreadsTypeOK, SeenTypeOK
  <2> QED BY <2>1, TypeStep, CreditQuiet DEF CreditsKept
<1>44. CASE StopDone
  <2>1. SameCredits(d) /\ QuietFlight(d)
    BY <1>44 DEF StopDone, SameCredits, QuietFlight, BeforeDelivery, AfterDelivery, ThreadPC,
        TypeOK, DocsTypeOK, ThreadsTypeOK, SeenTypeOK
  <2> QED BY <2>1, TypeStep, CreditQuiet DEF CreditsKept
<1>45. ASSUME NEW x \in Docs, StopWaiter(x) PROVE CreditKept(d)'
  <2>1. SameCredits(d) /\ QuietFlight(d)
    BY <1>45 DEF StopWaiter, queue_reschedule, SameCredits, QuietFlight, BeforeDelivery,
        AfterDelivery, ThreadPC, TypeOK, DocsTypeOK, ThreadsTypeOK, SeenTypeOK
  <2> QED BY <2>1, TypeStep, CreditQuiet DEF CreditsKept
<1>46. ASSUME NEW x \in Docs, StopExamine(x) PROVE CreditKept(d)'
  <2>1. SameCredits(d) /\ QuietFlight(d)
    BY <1>46 DEF StopExamine, SameCredits, QuietFlight, BeforeDelivery, AfterDelivery, ThreadPC,
        TypeOK, DocsTypeOK, ThreadsTypeOK, SeenTypeOK
  <2> QED BY <2>1, TypeStep, CreditQuiet DEF CreditsKept
<1>47. ASSUME NEW x \in Docs, StopAbandon(x) PROVE CreditKept(d)'
  <2>1. SameCredits(d) /\ QuietFlight(d)
    BY <1>47 DEF StopAbandon, Fail, CancelSource, finish_request, SameCredits, QuietFlight,
        BeforeDelivery, AfterDelivery, ThreadPC, TypeOK, DocsTypeOK, ThreadsTypeOK, SeenTypeOK
  <2> QED BY <2>1, TypeStep, CreditQuiet DEF CreditsKept
<1>48. CASE UNCHANGED vars
  <2>1. SameCredits(d) /\ QuietFlight(d) BY <1>48 DEF vars, SameCredits, QuietFlight
  <2> QED BY <2>1, TypeStep, CreditQuiet DEF CreditsKept
<1> QED BY StepCases, <1>1, <1>2, <1>3, <1>4, <1>5, <1>6, <1>7, <1>8, <1>9, <1>10, <1>11, <1>12,
    <1>13, <1>14, <1>15, <1>16, <1>17, <1>18, <1>19, <1>20, <1>21, <1>22, <1>23, <1>24, <1>25,
    <1>26, <1>27, <1>28, <1>29, <1>30, <1>31, <1>32, <1>33, <1>34, <1>35, <1>36, <1>37, <1>38,
    <1>39, <1>40, <1>41, <1>42, <1>43, <1>44, <1>45, <1>46, <1>47, <1>48

\* A scheduler that was just started owes no credit.
LEMMA CreditsInit == Init => CreditsKept
<1> SUFFICES ASSUME Init, NEW d \in Docs PROVE CreditKept(d) BY DEF CreditsKept
<1>1. Returning(d) = {} BY Roles DEF Init, Returning
<1>2. \A u \in Workers : job[u] # d BY Roles, SchedulerAssumption DEF Init
<1>3. Holding(d, BeforeDelivery) = 0 BY <1>2, HoldingNone
<1>4. render \in Seq(Jobs) /\ Range(render) = {} /\ inference = render /\ assembly = render
  BY DEF Init, Range
<1>5. Queued(render, d) = 0 BY <1>4, QueuedNone
<1>6. InFlight(d, BeforeDelivery) = 0 BY <1>3, <1>4, <1>5 DEF InFlight, InQueues
<1> QED BY <1>1, <1>6, FS_EmptySet, SchedulerAssumption DEF Init, CreditKept

\* Credits are conserved step by step, and a page whose credit an assembler is
\* about to return is still owed (release_slots(), schedule_pages(),
\* assemble_pages()).
THEOREM CreditsAlwaysKept == Spec => []CreditsKept
<1>1. Init => CreditsKept BY CreditsInit
<1>2. TypeOK /\ HoldsJob /\ Lifecycle /\ CreditsKept /\ [Next]_vars => CreditsKept'
  BY CreditKeptStep DEF CreditsKept
<1> QED BY <1>1, <1>2, TypeCorrect, LifecycleKept, PTL DEF Spec

\* Every page credit of a live document is free, on a page or owed, and a
\* consumer never holds more than page_window pages.
THEOREM CreditsAlwaysConserved == Spec => []CreditConservation
<1>1. TypeOK /\ CreditsKept => CreditConservation
  <2> SUFFICES ASSUME TypeOK, CreditsKept, NEW d \in Docs, total_pages[d] > 0
               PROVE  IF cancelled[d] \/ finish_called[d]
                      THEN available_slots[d] + owed[d] <= PageWindow
                      ELSE available_slots[d] + InFlight(d, BeforeDelivery) + owed[d] = PageWindow
    BY DEF CreditConservation
  <2>1. /\ available_slots[d] \in Int /\ owed[d] \in Int /\ InFlight(d, BeforeDelivery) \in Nat
        /\ PageWindow \in Nat /\ CreditKept(d)
    BY CountsAreNat, SchedulerAssumption DEF TypeOK, DocsTypeOK, SeenTypeOK, CreditsKept
  <2> QED BY <2>1 DEF CreditKept
<1> QED BY <1>1, TypeCorrect, CreditsAlwaysKept, PTL

-----------------------------------------------------------------------------
(* The journey of a page: in one place at a time, and never lost. *)

\* The queues hold no page twice.
OneQueue ==
  /\ IsInjective(render) /\ IsInjective(inference) /\ IsInjective(assembly)
  /\ Range(render) \cap Range(inference) = {}
  /\ Range(render) \cap Range(assembly) = {}
  /\ Range(inference) \cap Range(assembly) = {}

\* A worker that takes a page takes it out of the queues.
Takes(t) ==
  \E j \in QueuedPages :
    /\ QueuedPages' = QueuedPages \ {j} /\ OneQueue'
    /\ job'[t] = j[1] /\ page'[t] = j[2] /\ pc'[t] \in BeforeDelivery

\* A worker that passes its page on puts it into the queues.
Passes(t) ==
  /\ QueuedPages' = QueuedPages \cup {Held(t)} /\ OneQueue'
  /\ job'[t] = NoDoc

\* A pop takes the page at the head of one queue, or moves no page.
LEMMA PopTakes ==
  ASSUME TypeOK, PagesOnce, NEW t \in Workers,
         (t \in Renderers /\ RenderPop(t)) \/ RecognizePop(t) \/ AssemblePop(t)
  PROVE  Takes(t) \/ UNCHANGED <<render, inference, assembly, job, page>>
<1> USE Roles
<1>1. CASE t \in Renderers /\ RenderPop(t)
  <2>1. UNCHANGED <<inference, assembly>> /\ render \in Seq(Jobs) BY <1>1 DEF RenderPop, TypeOK, QueuesTypeOK
  <2>2. CASE render # <<>> /\ render' = Tail(render) /\ Take(t, Head(render)) /\ pc'[t] \in {"held", "notify"}
    <3>1. /\ Range(render) = Range(render') \cup {Head(render)} /\ Head(render) \notin Range(render')
          /\ IsInjective(render')
      BY <2>1, <2>2, TailElements DEF PagesOnce
    <3>2. job'[t] = Head(render)[1] /\ page'[t] = Head(render)[2]
      BY <2>2 DEF Take, TypeOK, ThreadsTypeOK
    <3>3. OneQueue' /\ QueuedPages' = QueuedPages \ {Head(render)}
      BY <2>1, <3>1 DEF OneQueue, PagesOnce, QueuedPages
    <3>4. pc'[t] \in BeforeDelivery BY <2>2 DEF BeforeDelivery, AfterDelivery, ThreadPC
    <3> QED BY <3>1, <3>2, <3>3, <3>4 DEF Takes, QueuedPages
  <2>3. CASE UNCHANGED <<render, job, page>> BY <2>1, <2>3
  <2> QED BY <1>1, <2>2, <2>3 DEF RenderPop, Goto, TypeOK, ThreadsTypeOK
<1>2. CASE RecognizePop(t)
  <2>1. UNCHANGED <<render, assembly>> /\ inference \in Seq(Jobs) BY <1>2 DEF RecognizePop, TypeOK, QueuesTypeOK
  <2>2. CASE inference # <<>> /\ inference' = Tail(inference) /\ Take(t, Head(inference)) /\ pc'[t] \in {"held", "notify"}
    <3>1. /\ Range(inference) = Range(inference') \cup {Head(inference)} /\ Head(inference) \notin Range(inference')
          /\ IsInjective(inference')
      BY <2>1, <2>2, TailElements DEF PagesOnce
    <3>2. job'[t] = Head(inference)[1] /\ page'[t] = Head(inference)[2]
      BY <2>2 DEF Take, TypeOK, ThreadsTypeOK
    <3>3. OneQueue' /\ QueuedPages' = QueuedPages \ {Head(inference)}
      BY <2>1, <3>1 DEF OneQueue, PagesOnce, QueuedPages
    <3>4. pc'[t] \in BeforeDelivery BY <2>2 DEF BeforeDelivery, AfterDelivery, ThreadPC
    <3> QED BY <3>1, <3>2, <3>3, <3>4 DEF Takes, QueuedPages
  <2>3. CASE UNCHANGED <<inference, job, page>> BY <2>1, <2>3
  <2> QED BY <1>2, <2>2, <2>3 DEF RecognizePop, Goto, TypeOK, ThreadsTypeOK
<1>3. CASE AssemblePop(t)
  <2>1. UNCHANGED <<render, inference>> /\ assembly \in Seq(Jobs) BY <1>3 DEF AssemblePop, TypeOK, QueuesTypeOK
  <2>2. CASE assembly # <<>> /\ assembly' = Tail(assembly) /\ Take(t, Head(assembly)) /\ pc'[t] \in {"held", "notify"}
    <3>1. /\ Range(assembly) = Range(assembly') \cup {Head(assembly)} /\ Head(assembly) \notin Range(assembly')
          /\ IsInjective(assembly')
      BY <2>1, <2>2, TailElements DEF PagesOnce
    <3>2. job'[t] = Head(assembly)[1] /\ page'[t] = Head(assembly)[2]
      BY <2>2 DEF Take, TypeOK, ThreadsTypeOK
    <3>3. OneQueue' /\ QueuedPages' = QueuedPages \ {Head(assembly)}
      BY <2>1, <3>1 DEF OneQueue, PagesOnce, QueuedPages
    <3>4. pc'[t] \in BeforeDelivery BY <2>2 DEF BeforeDelivery, AfterDelivery, ThreadPC
    <3> QED BY <3>1, <3>2, <3>3, <3>4 DEF Takes, QueuedPages
  <2>3. CASE UNCHANGED <<assembly, job, page>> BY <2>1, <2>3
  <2> QED BY <1>3, <2>2, <2>3 DEF AssemblePop, Goto, TypeOK, ThreadsTypeOK
<1> QED BY <1>1, <1>2, <1>3

\* A push passes the thread's page on to a queue, or moves no page.
LEMMA PushPasses ==
  ASSUME TypeOK, HoldsJob, PagesOnce, NEW t \in Workers, PushInference(t) \/ PushAssembly(t)
  PROVE  Passes(t) \/ UNCHANGED <<render, inference, assembly, job, page>>
<1> USE Roles
<1>1. CASE PushInference(t)
  <2>1. UNCHANGED <<render, assembly>> /\ inference \in Seq(Jobs) /\ Held(t) \in Jobs
    BY <1>1 DEF PushInference, Held, Jobs, HoldsJob, TypeOK, QueuesTypeOK
  <2>2. CASE inference' = Append(inference, Held(t)) /\ job'[t] = NoDoc
    <3>1. Held(t) \notin QueuedPages BY <1>1 DEF PushInference, HoldsJob, PagesOnce
    <3>2. Range(inference') = Range(inference) \cup {Held(t)} /\ IsInjective(inference')
      BY <2>1, <2>2, <3>1, AppendElements DEF PagesOnce, QueuedPages
    <3>3. OneQueue' /\ QueuedPages' = QueuedPages \cup {Held(t)}
      BY <2>1, <3>1, <3>2 DEF OneQueue, PagesOnce, QueuedPages
    <3> QED BY <2>2, <3>3 DEF Passes
  <2>3. CASE UNCHANGED <<inference, job, page>> BY <2>1, <2>3
  <2> QED BY <1>1, <2>2, <2>3 DEF PushInference, Drop, Held, TypeOK, ThreadsTypeOK
<1>2. CASE PushAssembly(t)
  <2>1. UNCHANGED <<render, inference>> /\ assembly \in Seq(Jobs) /\ Held(t) \in Jobs
    BY <1>2 DEF PushAssembly, Held, Jobs, HoldsJob, TypeOK, QueuesTypeOK
  <2>2. CASE assembly' = Append(assembly, Held(t)) /\ job'[t] = NoDoc
    <3>1. Held(t) \notin QueuedPages BY <1>2 DEF PushAssembly, HoldsJob, PagesOnce
    <3>2. Range(assembly') = Range(assembly) \cup {Held(t)} /\ IsInjective(assembly')
      BY <2>1, <2>2, <3>1, AppendElements DEF PagesOnce, QueuedPages
    <3>3. OneQueue' /\ QueuedPages' = QueuedPages \cup {Held(t)}
      BY <2>1, <3>1, <3>2 DEF OneQueue, PagesOnce, QueuedPages
    <3> QED BY <2>2, <3>3 DEF Passes
  <2>3. CASE UNCHANGED <<assembly, job, page>> BY <2>1, <2>3
  <2> QED BY <1>2, <2>2, <2>3 DEF PushAssembly, Drop, Held, TypeOK, ThreadsTypeOK
<1> QED BY <1>1, <1>2

\* A step that neither moves a page nor delivers one; only a cancelled document
\* loses a page on its way.
QuietPages ==
  /\ UNCHANGED <<render, inference, assembly, first_page, next_page, total_pages, delivered>>
  /\ \A d \in Docs : cancelled[d] => cancelled'[d]
  /\ \A u \in Workers :
       /\ job'[u] = job[u] /\ page'[u] = page[u]
       /\ pc'[u] \in BeforeDelivery => pc[u] \in BeforeDelivery
       /\ pc[u] \in BeforeDelivery => pc'[u] \in BeforeDelivery \/ cancelled'[job[u]]

\* A step that moves no page keeps every page's journey.
LEMMA QuietJourneys == ASSUME TypeOK, Journeys, QuietPages PROVE Journeys'
<1> USE DEF QuietPages
<1>1. QueuedPages' = QueuedPages /\ \A j \in Docs \X Pages : Scheduled(j)' <=> Scheduled(j)
  BY DEF QueuedPages, Scheduled
<1>2. \A u \in Workers : Held(u)' = Held(u) BY DEF Held
<1>3. PagesOnce' BY <1>1, <1>2 DEF Journeys, PagesOnce
<1>4. PagesInSpan' BY <1>1, <1>2 DEF Journeys, PagesInSpan, Scheduled
<1>5. PagesKept'
  <2> SUFFICES ASSUME NEW d \in Docs, NEW p \in Pages, Scheduled(<<d, p>>)', ~cancelled'[d]
               PROVE  \/ p \in delivered'[d] \/ <<d, p>> \in QueuedPages'
                      \/ \E t \in Workers : Held(t)' = <<d, p>> /\ pc'[t] \in BeforeDelivery
    BY DEF PagesKept
  <2>1. Scheduled(<<d, p>>) /\ ~cancelled[d] BY DEF Scheduled
  <2>2. CASE \E t \in Workers : Held(t) = <<d, p>> /\ pc[t] \in BeforeDelivery
    BY <1>2, <2>2 DEF Held
  <2> QED BY <1>1, <2>1, <2>2 DEF Journeys, PagesKept
<1> QED BY <1>3, <1>4, <1>5 DEF Journeys

\* A page a worker takes is in its hands only.
LEMMA TakesJourneys ==
  ASSUME TypeOK, Journeys, NEW t \in Workers, job[t] \notin Docs, Takes(t),
         UNCHANGED <<first_page, next_page, total_pages, delivered, cancelled>>,
         \A u \in Workers : u # t => job'[u] = job[u] /\ page'[u] = page[u] /\ pc'[u] = pc[u]
  PROVE  Journeys'
<1>1. PICK j \in QueuedPages :
        /\ QueuedPages' = QueuedPages \ {j} /\ OneQueue'
        /\ job'[t] = j[1] /\ page'[t] = j[2] /\ pc'[t] \in BeforeDelivery
  BY DEF Takes
<1>2. /\ j \in Jobs /\ QueuedPages \subseteq Jobs
      /\ j = <<j[1], j[2]>> /\ j[1] \in Docs /\ j[2] \in Pages
  BY QueuedAre DEF QueuedPages, Jobs
<1>3. Held(t)' = j /\ \A u \in Workers : u # t => Held(u)' = Held(u) BY <1>1, <1>2 DEF Held
<1>4. \A u \in Workers : Held(u)' = <<job'[u], page'[u]>> BY DEF Held
<1>5. PagesOnce'
  <2>1. \A u \in Workers : job'[u] \in Docs => Held(u)' \notin QueuedPages'
    BY <1>1, <1>3 DEF Journeys, PagesOnce
  <2>2. \A u, v \in Workers : job'[u] \in Docs /\ Held(u)' = Held(v)' => u = v
    BY <1>1, <1>3 DEF Journeys, PagesOnce, Held
  <2> QED BY <1>1, <2>1, <2>2 DEF PagesOnce, OneQueue
<1>6. PagesInSpan' BY <1>1, <1>2, <1>3 DEF Journeys, PagesInSpan, Scheduled
<1>7. PagesKept'
  <2> SUFFICES ASSUME NEW d \in Docs, NEW p \in Pages, Scheduled(<<d, p>>)', ~cancelled'[d]
               PROVE  \/ p \in delivered'[d] \/ <<d, p>> \in QueuedPages'
                      \/ \E u \in Workers : Held(u)' = <<d, p>> /\ pc'[u] \in BeforeDelivery
    BY DEF PagesKept
  <2>1. Scheduled(<<d, p>>) /\ ~cancelled[d] BY DEF Scheduled
  <2>2. CASE \E u \in Workers : Held(u) = <<d, p>> /\ pc[u] \in BeforeDelivery
    BY <1>3, <2>2 DEF Held
  <2> QED BY <1>1, <1>3, <2>1, <2>2 DEF Journeys, PagesKept
<1> QED BY <1>5, <1>6, <1>7 DEF Journeys

\* A worker without a page that finds its queue closed moves none.
LEMMA IdleJourneys ==
  ASSUME TypeOK, Journeys, NEW t \in Workers, job[t] \notin Docs,
         UNCHANGED <<render, inference, assembly, job, page>>,
         UNCHANGED <<first_page, next_page, total_pages, delivered, cancelled>>,
         \A u \in Workers : u # t => job'[u] = job[u] /\ page'[u] = page[u] /\ pc'[u] = pc[u]
  PROVE  Journeys'
<1>1. QueuedPages' = QueuedPages /\ \A u \in Workers : Held(u)' = Held(u)
  BY DEF QueuedPages, Held
<1>2. PagesOnce' BY <1>1 DEF Journeys, PagesOnce
<1>3. PagesInSpan' BY <1>1 DEF Journeys, PagesInSpan, Scheduled
<1>4. PagesKept'
  <2> SUFFICES ASSUME NEW d \in Docs, NEW p \in Pages, Scheduled(<<d, p>>)', ~cancelled'[d]
               PROVE  \/ p \in delivered'[d] \/ <<d, p>> \in QueuedPages'
                      \/ \E u \in Workers : Held(u)' = <<d, p>> /\ pc'[u] \in BeforeDelivery
    BY DEF PagesKept
  <2>1. Scheduled(<<d, p>>) /\ ~cancelled[d] BY DEF Scheduled
  <2>2. CASE \E u \in Workers : Held(u) = <<d, p>> /\ pc[u] \in BeforeDelivery
    BY <1>1, <2>2 DEF Held
  <2> QED BY <1>1, <2>1, <2>2 DEF Journeys, PagesKept
<1> QED BY <1>2, <1>3, <1>4 DEF Journeys

\* A page passed on is in the queue only.
LEMMA PassesJourneys ==
  ASSUME TypeOK, HoldsJob, Journeys, NEW t \in Workers, job[t] \in Docs, pc[t] \in BeforeDelivery,
         Passes(t), UNCHANGED <<first_page, next_page, total_pages, delivered, cancelled>>,
         \A u \in Workers : u # t => job'[u] = job[u] /\ page'[u] = page[u] /\ pc'[u] = pc[u]
  PROVE  Journeys'
<1>1. /\ QueuedPages' = QueuedPages \cup {Held(t)} /\ OneQueue'
      /\ job'[t] = NoDoc /\ NoDoc \notin Docs
  BY SchedulerAssumption DEF Passes
<1>2. \A u \in Workers : u # t => Held(u)' = Held(u) BY DEF Held
<1>3. \A u \in Workers : Held(u)' = <<job'[u], page'[u]>> BY DEF Held
<1>4. PagesOnce'
  <2>1. \A u \in Workers : job'[u] \in Docs => Held(u)' \notin QueuedPages'
    BY <1>1, <1>2 DEF Journeys, PagesOnce
  <2>2. \A u, v \in Workers : job'[u] \in Docs /\ Held(u)' = Held(v)' => u = v
    BY <1>1, <1>2, <1>3 DEF Journeys, PagesOnce, Held
  <2> QED BY <1>1, <2>1, <2>2 DEF PagesOnce, OneQueue
<1>5. Held(t)[1] = job[t] /\ Held(t)[2] = page[t] BY DEF Held
<1>6. PagesInSpan' BY <1>1, <1>2, <1>5 DEF Journeys, PagesInSpan, Scheduled
<1>7. PagesKept'
  <2> SUFFICES ASSUME NEW d \in Docs, NEW p \in Pages, Scheduled(<<d, p>>)', ~cancelled'[d]
               PROVE  \/ p \in delivered'[d] \/ <<d, p>> \in QueuedPages'
                      \/ \E u \in Workers : Held(u)' = <<d, p>> /\ pc'[u] \in BeforeDelivery
    BY DEF PagesKept
  <2>1. Scheduled(<<d, p>>) /\ ~cancelled[d] BY DEF Scheduled
  <2>2. CASE \E u \in Workers : Held(u) = <<d, p>> /\ pc[u] \in BeforeDelivery
    BY <1>1, <1>2, <2>2
  <2> QED BY <1>1, <2>1, <2>2 DEF Journeys, PagesKept
<1> QED BY <1>4, <1>6, <1>7 DEF Journeys

\* A page will be scheduled after the step.
ScheduledNext(d, p) == first_page'[d] <= p /\ p < next_page'[d] /\ p <= total_pages'[d]

\* What it takes for a page to be scheduled.
LEMMA ScheduledPage ==
  \A d, p : Scheduled(<<d, p>>) <=> first_page[d] <= p /\ p < next_page[d] /\ p <= total_pages[d]
<1> SUFFICES ASSUME NEW d, NEW p
             PROVE  Scheduled(<<d, p>>) <=>
                      first_page[d] <= p /\ p < next_page[d] /\ p <= total_pages[d]
  OBVIOUS
<1>1. <<d, p>>[1] = d /\ <<d, p>>[2] = p OBVIOUS
<1> QED BY <1>1 DEF Scheduled

\* A worker with a document holds one of its scheduled pages.
LEMMA HeldPage ==
  ASSUME TypeOK, HoldsJob, Lifecycle, Journeys, NEW u \in Workers, job[u] \in Docs
  PROVE  /\ page[u] \in Pages /\ Held(u) = <<job[u], page[u]>> /\ Held(u) \in Jobs
         /\ Scheduled(<<job[u], page[u]>>)
<1>1. pc[u] \notin {"idle", "exited"} /\ u \in Threads
  BY Roles, SchedulerAssumption DEF Lifecycle, ThreadsSettled
<1>2. page[u] \in Pages BY <1>1 DEF HoldsJob
<1>3. Held(u) = <<job[u], page[u]>> BY DEF Held
<1>4. Scheduled(Held(u)) BY DEF Journeys, PagesInSpan
<1> QED BY <1>2, <1>3, <1>4 DEF Jobs

\* A page is pushed once, handed from stage to stage, and leaves a live document's
\* pipeline only through on_page.
LEMMA JourneysStep ==
  ASSUME TypeOK, HoldsJob, Lifecycle, Journeys, [Next]_vars
  PROVE  Journeys'
<1> USE Roles
<1>1. ASSUME NEW x \in Docs, Submit(x) PROVE Journeys'
  <2>1. QuietPages BY <1>1 DEF Submit, QuietPages, BeforeDelivery, AfterDelivery, ThreadPC,
      TypeOK, DocsTypeOK, ThreadsTypeOK
  <2> QED BY <2>1, QuietJourneys
<1>2. ASSUME NEW x \in Docs, TicketCancel(x) PROVE Journeys'
  <2>1. QuietPages BY <1>2 DEF TicketCancel, QuietPages, BeforeDelivery, AfterDelivery,
      ThreadPC, TypeOK, DocsTypeOK, ThreadsTypeOK
  <2> QED BY <2>1, QuietJourneys
<1>3. ASSUME NEW x \in Docs, TicketAbort(x) PROVE Journeys'
  <2>1. QuietPages BY <1>3 DEF TicketAbort, CancelSource, QuietPages, BeforeDelivery,
      AfterDelivery, ThreadPC, TypeOK, DocsTypeOK, ThreadsTypeOK
  <2> QED BY <2>1, QuietJourneys
<1>4. ASSUME NEW x \in Docs, TicketRelease(x) PROVE Journeys'
  <2>1. QuietPages BY <1>4 DEF TicketRelease, release_slots, QuietPages, BeforeDelivery,
      AfterDelivery, ThreadPC, TypeOK, DocsTypeOK, ThreadsTypeOK
  <2> QED BY <2>1, QuietJourneys
<1>5. ASSUME NEW x \in Docs, TicketWake(x) PROVE Journeys'
  <2>1. QuietPages BY <1>5 DEF TicketWake, queue_reschedule, QuietPages, BeforeDelivery,
      AfterDelivery, ThreadPC, TypeOK, DocsTypeOK, ThreadsTypeOK
  <2> QED BY <2>1, QuietJourneys
<1>6. ASSUME NEW x \in Docs, EnqueueReschedule(x) PROVE Journeys'
  <2>1. QuietPages BY <1>6 DEF EnqueueReschedule, QuietPages, BeforeDelivery, AfterDelivery,
      ThreadPC, TypeOK, DocsTypeOK, ThreadsTypeOK
  <2> QED BY <2>1, QuietJourneys
<1>7. ASSUME NEW t \in Openers, OpenerPop(t) PROVE Journeys'
  <2>1. QuietPages BY <1>7 DEF OpenerPop, Goto, QuietPages, BeforeDelivery, AfterDelivery,
      ThreadPC, TypeOK, DocsTypeOK, ThreadsTypeOK
  <2> QED BY <2>1, QuietJourneys
<1>8. ASSUME NEW t \in Openers, OpenerCheck(t) PROVE Journeys'
  <2>1. QuietPages BY <1>8 DEF OpenerCheck, finish_request, Drop, Goto, QuietPages,
      BeforeDelivery, AfterDelivery, ThreadPC, TypeOK, DocsTypeOK, ThreadsTypeOK
  <2> QED BY <2>1, QuietJourneys
<1>9. ASSUME NEW t \in Openers, OpenerPublish(t) PROVE Journeys'
  <2>1. QuietPages BY <1>9 DEF OpenerPublish, Goto, QuietPages, BeforeDelivery, AfterDelivery,
      ThreadPC, TypeOK, DocsTypeOK, ThreadsTypeOK
  <2> QED BY <2>1, QuietJourneys
<1>10. ASSUME NEW t \in Openers, OpenerRecheck(t) PROVE Journeys'
  <2>1. QuietPages BY <1>10 DEF OpenerRecheck, Goto, QuietPages, BeforeDelivery, AfterDelivery,
      ThreadPC, TypeOK, DocsTypeOK, ThreadsTypeOK
  <2> QED BY <2>1, QuietJourneys
<1>11. ASSUME NEW t \in Openers, OpenerSize(t) PROVE Journeys'
  <2>1. /\ UNCHANGED <<render, inference, assembly, job, page, cancelled, delivered>>
        /\ \A u \in Workers : pc'[u] = pc[u]
    BY <1>11 DEF OpenerSize, Goto, TypeOK, ThreadsTypeOK
  <2>2. /\ job[t] \in Docs /\ total_pages[job[t]] = 0
        /\ \A d \in Docs : d # job[t] =>
             /\ first_page'[d] = first_page[d] /\ next_page'[d] = next_page[d]
             /\ total_pages'[d] = total_pages[d]
    BY <1>11 DEF OpenerSize, HoldsJob, Lifecycle, OpenedOnce, TypeOK, DocsTypeOK
  <2>3. \A p \in Pages : ~Scheduled(<<job[t], p>>) BY <2>2 DEF Scheduled, Pages
  <2>4. \A p \in Pages : ~ScheduledNext(job[t], p)
    <3>1. next_page'[job[t]] = first_page'[job[t]]
          \/ UNCHANGED <<first_page, next_page, total_pages>>
      BY <1>11, <2>2 DEF OpenerSize, TypeOK, DocsTypeOK
    <3>2. CASE next_page'[job[t]] = first_page'[job[t]]
      <4>1. next_page'[job[t]] \in Int BY TypeStep, <2>2, SchedulerAssumption DEF TypeOK,
          DocsTypeOK
      <4> QED BY <3>2, <4>1 DEF ScheduledNext, Pages
    <3>3. CASE UNCHANGED <<first_page, next_page, total_pages>>
      BY <2>3, <3>3, ScheduledPage DEF ScheduledNext
    <3> QED BY <3>1, <3>2, <3>3
  <2>5. \A d \in Docs, p \in Pages : ScheduledNext(d, p) <=> Scheduled(<<d, p>>)
    BY <2>2, <2>3, <2>4, ScheduledPage DEF ScheduledNext
  <2>6. QueuedPages' = QueuedPages /\ (\A u \in Workers : Held(u)' = Held(u)) /\ QueuedPages
      \subseteq Jobs
    BY <2>1, QueuedAre DEF QueuedPages, Held
  <2>7. PagesOnce' BY <2>1, <2>6 DEF Journeys, PagesOnce
  <2>8. PagesInSpan'
    <3>1. \A j \in QueuedPages : j = <<j[1], j[2]>> /\ j[1] \in Docs /\ j[2] \in Pages
      BY <2>6 DEF Jobs
    <3>2. \A j \in QueuedPages : Scheduled(j)'
      <4> TAKE j \in QueuedPages
      <4>1. ScheduledNext(j[1], j[2]) BY <2>5, <3>1 DEF Journeys, PagesInSpan
      <4> QED BY <3>1, <4>1 DEF Scheduled, ScheduledNext
    <3>3. \A u \in Workers : job[u] \in Docs => page[u] \in Pages /\ ScheduledNext(job[u],
        page[u])
      BY <2>5, HeldPage
    <3>4. \A d \in Docs : \A p \in delivered[d] : p \in Pages
      BY DEF TypeOK, SeenTypeOK
    <3>5. \A u \in Workers : job[u] \in Docs => Scheduled(Held(u))'
      <4> SUFFICES ASSUME NEW u \in Workers, job[u] \in Docs PROVE Scheduled(Held(u))' OBVIOUS
      <4> QED BY <2>1, <3>3 DEF Held, Scheduled, ScheduledNext
    <3>6. \A d \in Docs : \A p \in delivered[d] : Scheduled(<<d, p>>)'
      <4> SUFFICES ASSUME NEW d \in Docs, NEW p \in delivered[d] PROVE Scheduled(<<d, p>>)'
          OBVIOUS
      <4>1. ScheduledNext(d, p) BY <2>5, <3>4 DEF Journeys, PagesInSpan
      <4> QED BY <4>1 DEF Scheduled, ScheduledNext
    <3> QED BY <2>1, <2>6, <3>2, <3>5, <3>6 DEF Journeys, PagesInSpan
  <2>9. PagesKept'
    <3> SUFFICES ASSUME NEW d \in Docs, NEW p \in Pages, Scheduled(<<d, p>>)', ~cancelled'[d]
                 PROVE  \/ p \in delivered'[d] \/ <<d, p>> \in QueuedPages'
                        \/ \E u \in Workers : Held(u)' = <<d, p>> /\ pc'[u] \in BeforeDelivery
      BY DEF PagesKept
    <3>1. Scheduled(<<d, p>>) BY <2>5 DEF Scheduled, ScheduledNext
    <3> QED BY <2>1, <2>6, <3>1 DEF Journeys, PagesKept
  <2> QED BY <2>7, <2>8, <2>9 DEF Journeys
<1>12. ASSUME NEW t \in Openers, OpenerAnnounce(t) PROVE Journeys'
  <2>1. QuietPages BY <1>12 DEF OpenerAnnounce, Goto, QuietPages, BeforeDelivery, AfterDelivery,
      ThreadPC, TypeOK, DocsTypeOK, ThreadsTypeOK
  <2> QED BY <2>1, QuietJourneys
<1>13. ASSUME NEW t \in Openers, OpenerWake(t) PROVE Journeys'
  <2>1. QuietPages BY <1>13 DEF OpenerWake, queue_reschedule, Drop, Goto, QuietPages,
      BeforeDelivery, AfterDelivery, ThreadPC, TypeOK, DocsTypeOK, ThreadsTypeOK
  <2> QED BY <2>1, QuietJourneys
<1>14. ASSUME NEW t \in Openers, OpenerSettle(t) PROVE Journeys'
  <2>1. QuietPages BY <1>14 DEF OpenerSettle, finish_request, queue_reschedule, Drop, Goto,
      QuietPages, BeforeDelivery, AfterDelivery, ThreadPC, TypeOK, DocsTypeOK, ThreadsTypeOK
  <2> QED BY <2>1, QuietJourneys
<1>15. ASSUME NEW t \in Threads, ThreadFail(t) PROVE Journeys'
  <2>1. QuietPages BY <1>15 DEF ThreadFail, Fail, Goto, QuietPages, BeforeDelivery,
      AfterDelivery, ThreadPC, TypeOK, DocsTypeOK, ThreadsTypeOK
  <2> QED BY <2>1, QuietJourneys
<1>16. ASSUME NEW t \in Threads, ThreadAbort(t) PROVE Journeys'
  <2>1. cancelled[job[t]] BY <1>16 DEF ThreadAbort, Lifecycle, ThreadsSettled
  <2>2. QuietPages BY <1>16, <2>1 DEF ThreadAbort, CancelSource, Goto, QuietPages,
      BeforeDelivery, AfterDelivery, ThreadPC, TypeOK, DocsTypeOK, ThreadsTypeOK
  <2> QED BY <2>2, QuietJourneys
<1>17. CASE RescheduleNext
  <2>1. QuietPages BY <1>17 DEF RescheduleNext, QuietPages, BeforeDelivery, AfterDelivery,
      ThreadPC, TypeOK, DocsTypeOK, ThreadsTypeOK
  <2> QED BY <2>1, QuietJourneys
<1>18. CASE RescheduleClear
  <2>1. QuietPages BY <1>18 DEF RescheduleClear, QuietPages, BeforeDelivery, AfterDelivery,
      ThreadPC, TypeOK, DocsTypeOK, ThreadsTypeOK
  <2> QED BY <2>1, QuietJourneys
<1>19. CASE ScheduleEnter
  <2>1. /\ UNCHANGED <<render, inference, assembly, job, page, pc, cancelled, delivered,
           first_page,
                       total_pages>>
        /\ rs_doc \in Docs
    BY <1>19 DEF ScheduleEnter, HoldsJob
  <2>2. /\ \A d \in Docs : next_page[d] <= next_page'[d]
        /\ \A d \in Docs : next_page'[d] # next_page[d] => cancelled[d]
    BY <1>19, <2>1, SchedulerAssumption DEF ScheduleEnter, TypeOK, DocsTypeOK
  <2>3. QueuedPages' = QueuedPages /\ (\A u \in Workers : Held(u)' = Held(u)) /\ QueuedPages
      \subseteq Jobs
    BY <2>1, QueuedAre DEF QueuedPages, Held
  <2>4. \A j \in Jobs : Scheduled(j) => ScheduledNext(j[1], j[2])
    <3> SUFFICES ASSUME NEW j \in Jobs, Scheduled(j) PROVE ScheduledNext(j[1], j[2]) OBVIOUS
    <3>1. /\ j[1] \in Docs /\ j[2] \in Int /\ next_page[j[1]] \in Int /\ next_page'[j[1]] \in
             Int
      BY TypeStep, SchedulerAssumption DEF Jobs, Pages, TypeOK, DocsTypeOK
    <3> QED BY <2>1, <2>2, <3>1 DEF Scheduled, ScheduledNext
  <2>7. PagesOnce' BY <2>1, <2>3 DEF Journeys, PagesOnce
  <2>8. PagesInSpan'
    <3>1. \A u \in Workers : job[u] \in Docs => Held(u) \in Jobs
      BY SchedulerAssumption DEF Lifecycle, ThreadsSettled, HoldsJob, Held, Jobs, Threads
    <3>2. \A d \in Docs : \A p \in delivered[d] : <<d, p>> \in Jobs
      BY DEF TypeOK, SeenTypeOK, Jobs
    <3>3. \A u \in Workers : job[u] \in Docs => Scheduled(Held(u))'
      <4> SUFFICES ASSUME NEW u \in Workers, job[u] \in Docs PROVE Scheduled(Held(u))' OBVIOUS
      <4>1. /\ Held(u) = <<job[u], page[u]>> /\ Held(u) \in Jobs /\ Scheduled(Held(u))
            /\ Held(u)' = Held(u)
        BY <2>3, HeldPage
      <4>2. ScheduledNext(job[u], page[u]) BY <2>4, <4>1
      <4> QED BY <2>1, <4>2 DEF Held, Scheduled, ScheduledNext
    <3>4. \A j \in QueuedPages : Scheduled(j)'
      <4> SUFFICES ASSUME NEW j \in QueuedPages PROVE Scheduled(j)' OBVIOUS
      <4>1. ScheduledNext(j[1], j[2]) BY <2>3, <2>4 DEF Journeys, PagesInSpan
      <4> QED BY <4>1 DEF Scheduled, ScheduledNext
    <3>5. \A d \in Docs : \A p \in delivered[d] : Scheduled(<<d, p>>)'
      <4> SUFFICES ASSUME NEW d \in Docs, NEW p \in delivered[d] PROVE Scheduled(<<d, p>>)'
          OBVIOUS
      <4>1. ScheduledNext(d, p) BY <2>4, <3>2 DEF Journeys, PagesInSpan
      <4> QED BY <4>1 DEF Scheduled, ScheduledNext
    <3> QED BY <2>1, <2>3, <3>3, <3>4, <3>5 DEF Journeys, PagesInSpan
  <2>9. PagesKept'
    <3> SUFFICES ASSUME NEW d \in Docs, NEW p \in Pages, Scheduled(<<d, p>>)', ~cancelled'[d]
                 PROVE  \/ p \in delivered'[d] \/ <<d, p>> \in QueuedPages'
                        \/ \E u \in Workers : Held(u)' = <<d, p>> /\ pc'[u] \in BeforeDelivery
      BY DEF PagesKept
    <3>1. Scheduled(<<d, p>>) /\ ~cancelled[d] BY <2>1, <2>2 DEF Scheduled
    <3> QED BY <2>1, <2>3, <3>1 DEF Journeys, PagesKept
  <2> QED BY <2>7, <2>8, <2>9 DEF Journeys
<1>20. CASE SchedulePush
  <2>1. /\ UNCHANGED <<inference, assembly, job, page, pc, cancelled, delivered, first_page,
           total_pages>>
        /\ rs_doc \in Docs
    BY <1>20 DEF SchedulePush, HoldsJob
  <2> DEFINE new == <<rs_doc, next_page[rs_doc]>>
  <2>2. CASE UNCHANGED <<render, next_page>>
    <3>1. QuietPages BY <2>1, <2>2 DEF QuietPages
    <3> QED BY <3>1, QuietJourneys
  <2>3. CASE PushPage(rs_doc) /\ next_page[rs_doc] <= total_pages[rs_doc]
    <3>1. /\ total_pages[rs_doc] > 0 /\ next_page[rs_doc] \in Pages /\ new \in Jobs /\ render
             \in Seq(Jobs)
          /\ first_page[rs_doc] <= next_page[rs_doc]
      BY <1>20, <2>1, <2>3, SchedulerAssumption
      DEF SchedulePush, Lifecycle, PagesOpened, Registered, Jobs, Pages, TypeOK, DocsTypeOK,
          QueuesTypeOK
    <3>2. ~Scheduled(new) BY <3>1 DEF Scheduled, Pages
    <3>3. /\ new \notin QueuedPages /\ next_page[rs_doc] \notin delivered[rs_doc]
          /\ \A u \in Workers : Held(u) # new
      <4>1. new \notin QueuedPages /\ next_page[rs_doc] \notin delivered[rs_doc]
        BY <2>1, <3>2 DEF Journeys, PagesInSpan
      <4>2. \A u \in Workers : Held(u) = new => job[u] = rs_doc BY DEF Held
      <4> QED BY <2>1, <3>2, <4>1, <4>2 DEF Journeys, PagesInSpan
    <3>4. Range(render') = Range(render) \cup {new} /\ IsInjective(render')
      BY <2>3, <3>1, <3>3, AppendElements DEF PushPage, Journeys, PagesOnce, QueuedPages
    <3>5. QueuedPages' = QueuedPages \cup {new} /\ OneQueue'
      BY <2>1, <3>3, <3>4 DEF QueuedPages, OneQueue, Journeys, PagesOnce
    <3>6. \A u \in Workers : Held(u)' = Held(u) BY <2>1 DEF Held
    <3>7. \A d \in Docs : next_page'[d] = IF d = rs_doc THEN next_page[d] + 1 ELSE next_page[d]
      BY <2>3 DEF PushPage, TypeOK, DocsTypeOK
    <3>8. \A d \in Docs, p \in Pages : ScheduledNext(d, p) <=> Scheduled(<<d, p>>) \/ <<d, p>> =
        new
      <4> SUFFICES ASSUME NEW d \in Docs, NEW p \in Pages
                   PROVE  ScheduledNext(d, p) <=> Scheduled(<<d, p>>) \/ <<d, p>> = new
        OBVIOUS
      <4>1. /\ next_page[d] \in Int /\ first_page[d] \in Int /\ total_pages[d] \in Int /\ p \in
               Int
        BY SchedulerAssumption DEF TypeOK, DocsTypeOK, Pages
      <4> QED BY <2>1, <2>3, <3>1, <3>7, <4>1, ScheduledPage DEF ScheduledNext
    <3>9. PagesOnce' BY <2>1, <3>3, <3>5, <3>6 DEF Journeys, PagesOnce, OneQueue
    <3>10. PagesInSpan'
      <4>1. \A j \in QueuedPages \cup {new} : j = <<j[1], j[2]>> /\ j[1] \in Docs /\ j[2] \in
          Pages
        BY <3>1, QueuedAre DEF QueuedPages, Jobs
      <4>2. \A j \in QueuedPages \cup {new} : Scheduled(j)' /\ j[2] \notin delivered[j[1]]
        <5> TAKE j \in QueuedPages \cup {new}
        <5>1. ScheduledNext(j[1], j[2]) BY <3>8, <4>1 DEF Journeys, PagesInSpan
        <5>2. j[2] \notin delivered[j[1]] BY <3>3 DEF Journeys, PagesInSpan
        <5> QED BY <5>1, <5>2 DEF Scheduled, ScheduledNext
      <4>3. \A u \in Workers : job[u] \in Docs => page[u] \in Pages /\ ScheduledNext(job[u],
          page[u])
        BY <3>8, HeldPage
      <4>4. \A d \in Docs : \A p \in delivered[d] : p \in Pages BY DEF TypeOK, SeenTypeOK
      <4>5. \A u \in Workers : job[u] \in Docs => Scheduled(Held(u))'
        <5> SUFFICES ASSUME NEW u \in Workers, job[u] \in Docs PROVE Scheduled(Held(u))' OBVIOUS
        <5> QED BY <2>1, <4>3 DEF Held, Scheduled, ScheduledNext
      <4>6. \A d \in Docs : \A p \in delivered[d] : Scheduled(<<d, p>>)'
        <5> SUFFICES ASSUME NEW d \in Docs, NEW p \in delivered[d] PROVE Scheduled(<<d, p>>)'
            OBVIOUS
        <5>1. ScheduledNext(d, p) BY <3>8, <4>4 DEF Journeys, PagesInSpan
        <5> QED BY <5>1 DEF Scheduled, ScheduledNext
      <4> QED BY <2>1, <3>5, <3>6, <4>2, <4>5, <4>6 DEF Journeys, PagesInSpan
    <3>11. PagesKept'
      <4> SUFFICES ASSUME NEW d \in Docs, NEW p \in Pages, Scheduled(<<d, p>>)', ~cancelled'[d]
                   PROVE  \/ p \in delivered'[d] \/ <<d, p>> \in QueuedPages'
                          \/ \E u \in Workers : Held(u)' = <<d, p>> /\ pc'[u] \in BeforeDelivery
        BY DEF PagesKept
      <4>1. Scheduled(<<d, p>>) \/ <<d, p>> = new BY <3>8 DEF Scheduled, ScheduledNext
      <4> QED BY <2>1, <3>5, <3>6, <4>1 DEF Journeys, PagesKept
    <3> QED BY <3>9, <3>10, <3>11 DEF Journeys
  <2> QED BY <1>20, <2>2, <2>3 DEF SchedulePush
<1>21. CASE ScheduleCut
  <2>1. QuietPages BY <1>21 DEF ScheduleCut, CountDown, finish_request, RescheduleDone,
      QuietPages, BeforeDelivery, AfterDelivery, ThreadPC, TypeOK, DocsTypeOK, ThreadsTypeOK
  <2> QED BY <2>1, QuietJourneys
<1>22. ASSUME NEW t \in Renderers, RenderPop(t) PROVE Journeys'
  <2>1. UNCHANGED <<first_page, next_page, total_pages, delivered, cancelled>> /\ pc[t] = "idle"
        /\ \A u \in Workers : u # t => job'[u] = job[u] /\ page'[u] = page[u] /\ pc'[u] = pc[u]
    BY <1>22 DEF RenderPop, Take, Goto, TypeOK, ThreadsTypeOK
  <2>2. job[t] = NoDoc /\ NoDoc \notin Docs BY <2>1, SchedulerAssumption DEF Lifecycle,
      ThreadsSettled
  <2>3. CASE Takes(t) BY <2>1, <2>2, <2>3, TakesJourneys
  <2>4. CASE UNCHANGED <<render, inference, assembly, job, page>>
    BY <2>1, <2>2, <2>4, IdleJourneys
  <2> QED BY <1>22, <2>3, <2>4, PopTakes DEF Journeys
<1>23. ASSUME NEW t \in Renderers, RenderNotify(t) PROVE Journeys'
  <2>1. QuietPages BY <1>23 DEF RenderNotify, queue_reschedule, Goto, QuietPages,
      BeforeDelivery, AfterDelivery, ThreadPC, TypeOK, DocsTypeOK, ThreadsTypeOK
  <2> QED BY <2>1, QuietJourneys
<1>24. ASSUME NEW t \in Renderers, RenderWork(t) PROVE Journeys'
  <2>1. QuietPages BY <1>24 DEF RenderWork, Step, Goto, QuietPages, BeforeDelivery,
      AfterDelivery, ThreadPC, TypeOK, DocsTypeOK, ThreadsTypeOK
  <2> QED BY <2>1, QuietJourneys
<1>25. ASSUME NEW t \in Recognizers, RecognizePop(t) PROVE Journeys'
  <2>1. UNCHANGED <<first_page, next_page, total_pages, delivered, cancelled>> /\ pc[t] = "idle"
        /\ \A u \in Workers : u # t => job'[u] = job[u] /\ page'[u] = page[u] /\ pc'[u] = pc[u]
    BY <1>25 DEF RecognizePop, Take, Goto, TypeOK, ThreadsTypeOK
  <2>2. job[t] = NoDoc /\ NoDoc \notin Docs BY <2>1, SchedulerAssumption DEF Lifecycle,
      ThreadsSettled
  <2>3. CASE Takes(t) BY <2>1, <2>2, <2>3, TakesJourneys
  <2>4. CASE UNCHANGED <<render, inference, assembly, job, page>>
    BY <2>1, <2>2, <2>4, IdleJourneys
  <2> QED BY <1>25, <2>3, <2>4, PopTakes DEF Journeys
<1>26. ASSUME NEW t \in Recognizers, RecognizeWork(t) PROVE Journeys'
  <2>1. QuietPages BY <1>26 DEF RecognizeWork, Step, Goto, QuietPages, BeforeDelivery,
      AfterDelivery, ThreadPC, TypeOK, DocsTypeOK, ThreadsTypeOK
  <2> QED BY <2>1, QuietJourneys
<1>27. ASSUME NEW t \in Assemblers, AssemblePop(t) PROVE Journeys'
  <2>1. UNCHANGED <<first_page, next_page, total_pages, delivered, cancelled>> /\ pc[t] = "idle"
        /\ \A u \in Workers : u # t => job'[u] = job[u] /\ page'[u] = page[u] /\ pc'[u] = pc[u]
    BY <1>27 DEF AssemblePop, Take, Goto, TypeOK, ThreadsTypeOK
  <2>2. job[t] = NoDoc /\ NoDoc \notin Docs BY <2>1, SchedulerAssumption DEF Lifecycle,
      ThreadsSettled
  <2>3. CASE Takes(t) BY <2>1, <2>2, <2>3, TakesJourneys
  <2>4. CASE UNCHANGED <<render, inference, assembly, job, page>>
    BY <2>1, <2>2, <2>4, IdleJourneys
  <2> QED BY <1>27, <2>3, <2>4, PopTakes DEF Journeys
<1>28. ASSUME NEW t \in Assemblers, Deliver(t) PROVE Journeys'
  <2>1. /\ UNCHANGED <<render, inference, assembly, job, page, first_page, next_page,
           total_pages>>
        /\ job[t] \in Docs /\ page[t] \in Pages /\ pc[t] = "work"
        /\ \A u \in Workers : u # t => pc'[u] = pc[u]
        /\ \A d \in Docs : cancelled[d] => cancelled'[d]
    BY <1>28 DEF Deliver, Goto, HoldsJob, TypeOK, DocsTypeOK, ThreadsTypeOK
  <2>2. CASE UNCHANGED delivered /\ pc'[t] \in {"abort", "fail"}
    <3>1. QuietPages BY <2>1, <2>2 DEF QuietPages, BeforeDelivery, AfterDelivery, ThreadPC
    <3> QED BY <3>1, QuietJourneys
  <2>3. CASE /\ delivered' = [delivered EXCEPT ![job[t]] = delivered[job[t]] \cup {page[t]}]
             /\ pc'[t] \in {"complete", "credit"} /\ UNCHANGED cancelled
    <3>1. \A d \in Docs : delivered'[d] =
            IF d = job[t] THEN delivered[d] \cup {page[t]} ELSE delivered[d]
      BY <2>3 DEF TypeOK, SeenTypeOK
    <3>2. QueuedPages' = QueuedPages /\ (\A u \in Workers : Held(u)' = Held(u)) /\ QueuedPages
        \subseteq Jobs
      BY <2>1, QueuedAre DEF QueuedPages, Held
    <3>3. \A j \in Jobs : (Scheduled(j)' <=> Scheduled(j)) /\ j = <<j[1], j[2]>> /\ j[1] \in
        Docs
      BY <2>1 DEF Scheduled, Jobs
    <3>4. pc'[t] \notin BeforeDelivery /\ \A u \in Workers : pc'[u] \in BeforeDelivery => pc[u]
        \in BeforeDelivery
      BY <2>1, <2>3 DEF BeforeDelivery, AfterDelivery
    <3>5. PagesOnce' BY <2>1, <3>2 DEF Journeys, PagesOnce
    <3>6. PagesInSpan'
      <4>1. \A j \in QueuedPages : Scheduled(j)' /\ j[2] \notin delivered'[j[1]]
        <5> SUFFICES ASSUME NEW j \in QueuedPages PROVE Scheduled(j)' /\ j[2] \notin
            delivered'[j[1]]
          OBVIOUS
        <5>1. j # Held(t) /\ j \in Jobs BY <2>1, <3>2 DEF Journeys, PagesOnce
        <5>2. j[1] = job[t] => j[2] # page[t] BY <3>3, <5>1 DEF Held
        <5> QED BY <3>1, <3>3, <5>1, <5>2 DEF Journeys, PagesInSpan
      <4>2. \A u \in Workers : job[u] \in Docs =>
              /\ Scheduled(Held(u))'
              /\ pc'[u] \in BeforeDelivery => page[u] \notin delivered'[job[u]]
        <5> SUFFICES ASSUME NEW u \in Workers, job[u] \in Docs
                     PROVE  /\ Scheduled(Held(u))'
                            /\ pc'[u] \in BeforeDelivery => page[u] \notin delivered'[job[u]]
          OBVIOUS
        <5>1. Scheduled(Held(u))' BY <2>1 DEF Journeys, PagesInSpan, Scheduled, Held
        <5>2. u # t => <<job[u], page[u]>> # <<job[t], page[t]>> BY <2>1 DEF Journeys,
            PagesOnce, Held
        <5> QED BY <3>1, <3>4, <5>1, <5>2 DEF Journeys, PagesInSpan
      <4>3. \A d \in Docs : \A p \in delivered'[d] : Scheduled(<<d, p>>)'
        <5> SUFFICES ASSUME NEW d \in Docs, NEW p \in delivered'[d] PROVE Scheduled(<<d, p>>)'
            OBVIOUS
        <5>1. Scheduled(<<d, p>>)
          <6>1. CASE d = job[t] /\ p = page[t] BY <2>1, <6>1, HeldPage
          <6>2. CASE p \in delivered[d] BY <6>2 DEF Journeys, PagesInSpan
          <6> QED BY <3>1, <6>1, <6>2
        <5> QED BY <2>1, <5>1 DEF Scheduled
      <4> QED BY <2>1, <3>2, <4>1, <4>2, <4>3 DEF PagesInSpan
    <3>7. PagesKept'
      <4> SUFFICES ASSUME NEW d \in Docs, NEW p \in Pages, Scheduled(<<d, p>>)', ~cancelled'[d]
                   PROVE  \/ p \in delivered'[d] \/ <<d, p>> \in QueuedPages'
                          \/ \E u \in Workers : Held(u)' = <<d, p>> /\ pc'[u] \in BeforeDelivery
        BY DEF PagesKept
      <4>1. Scheduled(<<d, p>>) /\ ~cancelled[d] BY <2>1, <2>3 DEF Scheduled
      <4>2. CASE \E u \in Workers : Held(u) = <<d, p>> /\ pc[u] \in BeforeDelivery
        <5>1. PICK u \in Workers : Held(u) = <<d, p>> /\ pc[u] \in BeforeDelivery BY <4>2
        <5>2. CASE u = t BY <3>1, <5>1, <5>2 DEF Held
        <5>3. CASE u # t BY <2>1, <3>2, <5>1, <5>3
        <5> QED BY <5>2, <5>3
      <4> QED BY <3>1, <3>2, <4>1, <4>2 DEF Journeys, PagesKept
    <3> QED BY <3>5, <3>6, <3>7 DEF Journeys
  <2> QED BY <1>28, <2>1, <2>2, <2>3 DEF Deliver, Goto, TypeOK, DocsTypeOK, ThreadsTypeOK
<1>29. ASSUME NEW t \in Assemblers, ReturnCredit(t) PROVE Journeys'
  <2>1. QuietPages BY <1>29 DEF ReturnCredit, release_slots, Goto, QuietPages, BeforeDelivery,
      AfterDelivery, ThreadPC, TypeOK, DocsTypeOK, ThreadsTypeOK
  <2> QED BY <2>1, QuietJourneys
<1>30. ASSUME NEW t \in Assemblers, WakeAfterCredit(t) PROVE Journeys'
  <2>1. QuietPages BY <1>30 DEF WakeAfterCredit, queue_reschedule, Goto, QuietPages,
      BeforeDelivery, AfterDelivery, ThreadPC, TypeOK, DocsTypeOK, ThreadsTypeOK
  <2> QED BY <2>1, QuietJourneys
<1>31. ASSUME NEW t \in Renderers, PushInference(t) PROVE Journeys'
  <2>1. UNCHANGED <<first_page, next_page, total_pages, delivered, cancelled>>
        /\ pc[t] \in BeforeDelivery /\ job[t] \in Docs
        /\ \A u \in Workers : u # t => job'[u] = job[u] /\ page'[u] = page[u] /\ pc'[u] = pc[u]
    BY <1>31 DEF PushInference, Drop, Goto, HoldsJob, BeforeDelivery, AfterDelivery, ThreadPC,
        TypeOK, ThreadsTypeOK
  <2>2. CASE Passes(t) BY <2>1, <2>2, PassesJourneys
  <2>3. CASE UNCHANGED <<render, inference, assembly, job, page>>
    <3>1. pc'[t] = "fail_closed"
      <4>1. NoDoc \notin Docs /\ t \in Threads BY SchedulerAssumption
      <4> QED BY <1>31, <2>1, <2>3, <4>1 DEF PushInference, Drop, Goto, TypeOK, ThreadsTypeOK
    <3>2. QuietPages BY <2>1, <2>3, <3>1 DEF QuietPages, BeforeDelivery, AfterDelivery, ThreadPC
    <3> QED BY <3>2, QuietJourneys
  <2> QED BY <1>31, <2>2, <2>3, PushPasses DEF Journeys
<1>32. ASSUME NEW t \in Workers, PushAssembly(t) PROVE Journeys'
  <2>1. UNCHANGED <<first_page, next_page, total_pages, delivered, cancelled>>
        /\ pc[t] \in BeforeDelivery /\ job[t] \in Docs
        /\ \A u \in Workers : u # t => job'[u] = job[u] /\ page'[u] = page[u] /\ pc'[u] = pc[u]
    BY <1>32 DEF PushAssembly, Drop, Goto, HoldsJob, BeforeDelivery, AfterDelivery, ThreadPC,
        TypeOK, ThreadsTypeOK
  <2>2. CASE Passes(t) BY <2>1, <2>2, PassesJourneys
  <2>3. CASE UNCHANGED <<render, inference, assembly, job, page>>
    <3>1. pc'[t] = "fail_closed"
      <4>1. NoDoc \notin Docs /\ t \in Threads BY SchedulerAssumption
      <4> QED BY <1>32, <2>1, <2>3, <4>1 DEF PushAssembly, Drop, Goto, TypeOK, ThreadsTypeOK
    <3>2. QuietPages BY <2>1, <2>3, <3>1 DEF QuietPages, BeforeDelivery, AfterDelivery, ThreadPC
    <3> QED BY <3>2, QuietJourneys
  <2> QED BY <1>32, <2>2, <2>3, PushPasses DEF Journeys
<1>33. ASSUME NEW t \in Workers, CheckCancelled(t) PROVE Journeys'
  <2>1. QuietPages BY <1>33 DEF CheckCancelled, Step, Goto, QuietPages, BeforeDelivery,
      AfterDelivery, ThreadPC, TypeOK, DocsTypeOK, ThreadsTypeOK
  <2> QED BY <2>1, QuietJourneys
<1>34. ASSUME NEW t \in Workers, CompletePage(t) PROVE Journeys'
  <2>1. QuietPages BY <1>34 DEF CompletePage, queue_reschedule, Goto, QuietPages,
      BeforeDelivery, AfterDelivery, ThreadPC, TypeOK, DocsTypeOK, ThreadsTypeOK
  <2> QED BY <2>1, QuietJourneys
<1>35. ASSUME NEW t \in Workers, CountPage(t) PROVE Journeys'
  <2>1. /\ UNCHANGED <<render, inference, assembly, first_page, next_page, total_pages,
           delivered, cancelled>>
        /\ pc[t] = "count" /\ job'[t] = NoDoc /\ NoDoc \notin Docs
        /\ \A u \in Workers : u # t => job'[u] = job[u] /\ page'[u] = page[u] /\ pc'[u] = pc[u]
    BY <1>35, SchedulerAssumption DEF CountPage, Drop, Goto, TypeOK, ThreadsTypeOK
  <2>2. QueuedPages' = QueuedPages /\ \A u \in Workers : u # t => Held(u)' = Held(u)
    BY <2>1 DEF QueuedPages, Held
  <2>3. \A u \in Workers : job'[u] \in Docs => u # t BY <2>1
  <2>4. pc[t] \notin BeforeDelivery BY <2>1 DEF BeforeDelivery, AfterDelivery
  <2>5. \A u, v \in Workers : job'[u] \in Docs /\ Held(u)' = Held(v)' => job'[v] = job'[u] BY
      DEF Held
  <2>7. PagesOnce' BY <2>1, <2>2, <2>3, <2>5 DEF Journeys, PagesOnce
  <2>8. PagesInSpan' BY <2>1, <2>2, <2>3 DEF Journeys, PagesInSpan, Scheduled
  <2>9. PagesKept'
    <3> SUFFICES ASSUME NEW d \in Docs, NEW p \in Pages, Scheduled(<<d, p>>)', ~cancelled'[d]
                 PROVE  \/ p \in delivered'[d] \/ <<d, p>> \in QueuedPages'
                        \/ \E u \in Workers : Held(u)' = <<d, p>> /\ pc'[u] \in BeforeDelivery
      BY DEF PagesKept
    <3>1. Scheduled(<<d, p>>) /\ ~cancelled[d] BY <2>1 DEF Scheduled
    <3>2. CASE \E u \in Workers : Held(u) = <<d, p>> /\ pc[u] \in BeforeDelivery
      <4>1. PICK u \in Workers : Held(u) = <<d, p>> /\ pc[u] \in BeforeDelivery BY <3>2
      <4>2. u # t BY <2>4, <4>1
      <4> QED BY <2>1, <2>2, <4>1, <4>2
    <3> QED BY <2>1, <2>2, <3>1, <3>2 DEF Journeys, PagesKept
  <2> QED BY <2>7, <2>8, <2>9 DEF Journeys
<1>36. CASE StopDocuments
  <2>1. QuietPages BY <1>36 DEF StopDocuments, StopClose, QuietPages, BeforeDelivery,
      AfterDelivery, ThreadPC, TypeOK, DocsTypeOK, ThreadsTypeOK
  <2> QED BY <2>1, QuietJourneys
<1>37. CASE StopReschedule
  <2>1. QuietPages BY <1>37 DEF StopReschedule, QuietPages, BeforeDelivery, AfterDelivery,
      ThreadPC, TypeOK, DocsTypeOK, ThreadsTypeOK
  <2> QED BY <2>1, QuietJourneys
<1>38. CASE StopRender
  <2>1. QuietPages BY <1>38 DEF StopRender, StopClose, QuietPages, BeforeDelivery,
      AfterDelivery, ThreadPC, TypeOK, DocsTypeOK, ThreadsTypeOK
  <2> QED BY <2>1, QuietJourneys
<1>39. CASE StopInference
  <2>1. QuietPages BY <1>39 DEF StopInference, StopClose, QuietPages, BeforeDelivery,
      AfterDelivery, ThreadPC, TypeOK, DocsTypeOK, ThreadsTypeOK
  <2> QED BY <2>1, QuietJourneys
<1>40. CASE StopAssembly
  <2>1. QuietPages BY <1>40 DEF StopAssembly, StopClose, QuietPages, BeforeDelivery,
      AfterDelivery, ThreadPC, TypeOK, DocsTypeOK, ThreadsTypeOK
  <2> QED BY <2>1, QuietJourneys
<1>41. CASE StopFail
  <2>1. QuietPages BY <1>41 DEF StopFail, Fail, QuietPages, BeforeDelivery, AfterDelivery,
      ThreadPC, TypeOK, DocsTypeOK, ThreadsTypeOK
  <2> QED BY <2>1, QuietJourneys
<1>42. CASE StopAbort
  <2>1. QuietPages BY <1>42 DEF StopAbort, CancelSource, QuietPages, BeforeDelivery,
      AfterDelivery, ThreadPC, TypeOK, DocsTypeOK, ThreadsTypeOK
  <2> QED BY <2>1, QuietJourneys
<1>43. CASE StopJoin
  <2>1. QuietPages BY <1>43 DEF StopJoin, QuietPages, BeforeDelivery, AfterDelivery, ThreadPC,
      TypeOK, DocsTypeOK, ThreadsTypeOK
  <2> QED BY <2>1, QuietJourneys
<1>44. CASE StopDone
  <2>1. QuietPages BY <1>44 DEF StopDone, QuietPages, BeforeDelivery, AfterDelivery, ThreadPC,
      TypeOK, DocsTypeOK, ThreadsTypeOK
  <2> QED BY <2>1, QuietJourneys
<1>45. ASSUME NEW x \in Docs, StopWaiter(x) PROVE Journeys'
  <2>1. QuietPages BY <1>45 DEF StopWaiter, queue_reschedule, QuietPages, BeforeDelivery,
      AfterDelivery, ThreadPC, TypeOK, DocsTypeOK, ThreadsTypeOK
  <2> QED BY <2>1, QuietJourneys
<1>46. ASSUME NEW x \in Docs, StopExamine(x) PROVE Journeys'
  <2>1. QuietPages BY <1>46 DEF StopExamine, QuietPages, BeforeDelivery, AfterDelivery,
      ThreadPC, TypeOK, DocsTypeOK, ThreadsTypeOK
  <2> QED BY <2>1, QuietJourneys
<1>47. ASSUME NEW x \in Docs, StopAbandon(x) PROVE Journeys'
  <2>1. QuietPages BY <1>47 DEF StopAbandon, Fail, CancelSource, finish_request, QuietPages,
      BeforeDelivery, AfterDelivery, ThreadPC, TypeOK, DocsTypeOK, ThreadsTypeOK
  <2> QED BY <2>1, QuietJourneys
<1>48. CASE UNCHANGED vars
  <2>1. QuietPages BY <1>48 DEF vars, QuietPages
  <2> QED BY <2>1, QuietJourneys
<1> QED BY StepCases, <1>1, <1>2, <1>3, <1>4, <1>5, <1>6, <1>7, <1>8, <1>9, <1>10, <1>11, <1>12,
    <1>13, <1>14, <1>15, <1>16, <1>17, <1>18, <1>19, <1>20, <1>21, <1>22, <1>23, <1>24, <1>25,
    <1>26, <1>27, <1>28, <1>29, <1>30, <1>31, <1>32, <1>33, <1>34, <1>35, <1>36, <1>37, <1>38,
    <1>39, <1>40, <1>41, <1>42, <1>43, <1>44, <1>45, <1>46, <1>47, <1>48

\* A scheduler that was just started has no page on its way.
LEMMA JourneysInit == Init => Journeys
<1> SUFFICES ASSUME Init PROVE Journeys OBVIOUS
<1>1. Range(<<>>) = {} /\ IsInjective(<<>>) BY DEF Range, IsInjective
<1>2. QueuedPages = {} BY <1>1 DEF Init, QueuedPages
<1>3. \A t \in Workers : job[t] \notin Docs BY Roles, SchedulerAssumption DEF Init
<1>4. \A d \in Docs, p \in Pages : ~Scheduled(<<d, p>>) BY DEF Init, Scheduled, Pages
<1>5. PagesOnce BY <1>1, <1>2, <1>3 DEF Init, PagesOnce
<1>6. PagesInSpan BY <1>2, <1>3 DEF Init, PagesInSpan
<1>7. PagesKept BY <1>4 DEF PagesKept
<1> QED BY <1>5, <1>6, <1>7 DEF Journeys

\* Every page is in one place at a time and inside the span, it is not
\* delivered twice, and a scheduled page of a document that is not cancelled
\* is delivered or still on its way (render_pages() to assemble_pages()).
THEOREM JourneysAlwaysKept == Spec => []Journeys
<1>1. Init => Journeys BY JourneysInit
<1>2. TypeOK /\ HoldsJob /\ Lifecycle /\ Journeys /\ [Next]_vars => Journeys' BY JourneysStep
<1> QED BY <1>1, <1>2, TypeCorrect, LifecycleKept, PTL DEF Spec

-----------------------------------------------------------------------------
(* The order of the callbacks: on_document, on_page, on_finish. *)

\* The opener alone calls on_document, and a document finishes only after it or
\* when it is given up.
LEMMA AnnouncedOnceStep ==
  ASSUME TypeOK, HoldsJob, Lifecycle, Announcing, [Next]_vars
  PROVE  AnnouncedOnce'
<1> USE Roles
<1>1. ASSUME NEW x \in Docs, Submit(x) PROVE AnnouncedOnce'
  <2>1. UNCHANGED <<announced, total_pages, owed, finish_called>> BY <1>1 DEF Submit
  <2>2. /\ \A d \in Docs : cancelled[d] => cancelled'[d]
        /\ \A o \in Openers : pc'[o] \in {"sized", "announced"} => pc'[o] = pc[o] /\ job'[o] =
            job[o]
    BY <1>1 DEF Submit, TypeOK, DocsTypeOK, ThreadsTypeOK
  <2> QED BY <2>1, <2>2 DEF Announcing, AnnouncedOnce
<1>2. ASSUME NEW x \in Docs, TicketCancel(x) PROVE AnnouncedOnce'
  <2>1. UNCHANGED <<announced, total_pages, owed, finish_called>> BY <1>2 DEF TicketCancel
  <2>2. /\ \A d \in Docs : cancelled[d] => cancelled'[d]
        /\ \A o \in Openers : pc'[o] \in {"sized", "announced"} => pc'[o] = pc[o] /\ job'[o] =
            job[o]
    BY <1>2 DEF TicketCancel, TypeOK, DocsTypeOK, ThreadsTypeOK
  <2> QED BY <2>1, <2>2 DEF Announcing, AnnouncedOnce
<1>3. ASSUME NEW x \in Docs, TicketAbort(x) PROVE AnnouncedOnce'
  <2>1. UNCHANGED <<announced, total_pages, owed, finish_called>> BY <1>3 DEF TicketAbort,
      CancelSource
  <2>2. /\ \A d \in Docs : cancelled[d] => cancelled'[d]
        /\ \A o \in Openers : pc'[o] \in {"sized", "announced"} => pc'[o] = pc[o] /\ job'[o] =
            job[o]
    BY <1>3 DEF TicketAbort, CancelSource, TypeOK, DocsTypeOK, ThreadsTypeOK
  <2> QED BY <2>1, <2>2 DEF Announcing, AnnouncedOnce
<1>4. ASSUME NEW x \in Docs, TicketRelease(x) PROVE AnnouncedOnce'
  <2>1. UNCHANGED <<pc, job, announced, total_pages, finish_called, cancelled>> BY <1>4 DEF
      TicketRelease
  <2>2. \A d \in Docs : owed'[d] <= owed[d]
    BY <1>4 DEF TicketRelease, TypeOK, SeenTypeOK
  <2>3. \A d \in Docs : owed[d] \in Int /\ owed'[d] \in Int BY TypeStep DEF TypeOK, SeenTypeOK
  <2>4. \A d \in Docs : owed'[d] > 0 => owed[d] > 0 BY <2>2, <2>3
  <2> QED BY <2>1, <2>4 DEF Announcing, AnnouncedOnce
<1>5. ASSUME NEW x \in Docs, TicketWake(x) PROVE AnnouncedOnce'
  <2>1. UNCHANGED <<announced, total_pages, owed, finish_called>> BY <1>5 DEF TicketWake,
      queue_reschedule
  <2>2. /\ \A d \in Docs : cancelled[d] => cancelled'[d]
        /\ \A o \in Openers : pc'[o] \in {"sized", "announced"} => pc'[o] = pc[o] /\ job'[o] =
            job[o]
    BY <1>5 DEF TicketWake, queue_reschedule, TypeOK, DocsTypeOK, ThreadsTypeOK
  <2> QED BY <2>1, <2>2 DEF Announcing, AnnouncedOnce
<1>6. ASSUME NEW x \in Docs, EnqueueReschedule(x) PROVE AnnouncedOnce'
  <2>1. UNCHANGED <<announced, total_pages, owed, finish_called>> BY <1>6 DEF EnqueueReschedule
  <2>2. /\ \A d \in Docs : cancelled[d] => cancelled'[d]
        /\ \A o \in Openers : pc'[o] \in {"sized", "announced"} => pc'[o] = pc[o] /\ job'[o] =
            job[o]
    BY <1>6 DEF EnqueueReschedule, TypeOK, DocsTypeOK, ThreadsTypeOK
  <2> QED BY <2>1, <2>2 DEF Announcing, AnnouncedOnce
<1>7. ASSUME NEW t \in Openers, OpenerPop(t) PROVE AnnouncedOnce'
  <2>1. UNCHANGED <<announced, total_pages, owed, cancelled, finish_called>> BY <1>7 DEF
      OpenerPop
  <2>2. \A o \in Openers : pc'[o] \in {"sized", "announced"} => pc'[o] = pc[o] /\ job'[o] =
      job[o]
    BY <1>7 DEF OpenerPop, Goto, TypeOK, ThreadsTypeOK
  <2> QED BY <2>1, <2>2 DEF Announcing, AnnouncedOnce
<1>8. ASSUME NEW t \in Openers, OpenerCheck(t) PROVE AnnouncedOnce'
  <2>1. UNCHANGED <<announced, total_pages, owed>> /\ \A d \in Docs : cancelled[d] =>
      cancelled'[d]
    BY <1>8 DEF OpenerCheck, finish_request, Drop, Goto, TypeOK, DocsTypeOK
  <2>2. \A o \in Openers : pc'[o] \in {"sized", "announced"} => pc'[o] = pc[o] /\ job'[o] =
      job[o]
    BY <1>8 DEF OpenerCheck, finish_request, Drop, Goto, TypeOK, ThreadsTypeOK
  <2>3. \A d \in Docs : finish_called'[d] => finish_called[d] \/ announced[d] \/ cancelled'[d]
    BY <1>8 DEF OpenerCheck, finish_request, Drop, Goto, HoldsJob, TypeOK, DocsTypeOK
  <2> QED BY <2>1, <2>2, <2>3 DEF Announcing, AnnouncedOnce
<1>9. ASSUME NEW t \in Openers, OpenerPublish(t) PROVE AnnouncedOnce'
  <2>1. UNCHANGED <<announced, total_pages, owed, finish_called>> BY <1>9 DEF OpenerPublish,
      Goto
  <2>2. /\ \A d \in Docs : cancelled[d] => cancelled'[d]
        /\ \A o \in Openers : pc'[o] \in {"sized", "announced"} => pc'[o] = pc[o] /\ job'[o] =
            job[o]
    BY <1>9 DEF OpenerPublish, Goto, TypeOK, DocsTypeOK, ThreadsTypeOK
  <2> QED BY <2>1, <2>2 DEF Announcing, AnnouncedOnce
<1>10. ASSUME NEW t \in Openers, OpenerRecheck(t) PROVE AnnouncedOnce'
  <2>1. UNCHANGED <<announced, total_pages, owed, finish_called>> BY <1>10 DEF OpenerRecheck,
      Goto
  <2>2. /\ \A d \in Docs : cancelled[d] => cancelled'[d]
        /\ \A o \in Openers : pc'[o] \in {"sized", "announced"} => pc'[o] = pc[o] /\ job'[o] =
            job[o]
    BY <1>10 DEF OpenerRecheck, Goto, TypeOK, DocsTypeOK, ThreadsTypeOK
  <2> QED BY <2>1, <2>2 DEF Announcing, AnnouncedOnce
<1>11. ASSUME NEW t \in Openers, OpenerSize(t) PROVE AnnouncedOnce'
  <2>1. UNCHANGED <<announced, owed, cancelled, finish_called, job>> BY <1>11 DEF OpenerSize
  <2>2. job[t] \in Docs /\ total_pages[job[t]] = 0 /\ ~announced[job[t]]
    BY <1>11 DEF OpenerSize, HoldsJob, Lifecycle, OpenedOnce, Announcing, AnnouncedOnce
  <2>3. \A d \in Docs : d # job[t] => total_pages'[d] = total_pages[d]
    BY <1>11 DEF OpenerSize, TypeOK, DocsTypeOK
  <2>4. pc'[t] \in {"sized", "fail"} /\ \A o \in Openers : o # t => pc'[o] = pc[o]
    BY <1>11 DEF OpenerSize, Goto, TypeOK, ThreadsTypeOK
  <2> QED BY <2>1, <2>2, <2>3, <2>4 DEF Announcing, AnnouncedOnce
<1>12. ASSUME NEW t \in Openers, OpenerAnnounce(t) PROVE AnnouncedOnce'
  <2>1. UNCHANGED <<total_pages, owed, cancelled, finish_called, job>> BY <1>12 DEF
      OpenerAnnounce
  <2>2. /\ job[t] \in Docs /\ total_pages[job[t]] > 0
        /\ \A o \in Openers : o # t /\ pc[o] \in {"sized", "announced"} => job[o] \in Docs /\
            job[o] # job[t]
    BY <1>12 DEF OpenerAnnounce, HoldsJob, Lifecycle, OpenedOnce, Threads
  <2>3. /\ \A d \in Docs : announced[d] => announced'[d]
        /\ \A d \in Docs : d # job[t] => announced'[d] = announced[d]
    BY <1>12 DEF OpenerAnnounce, TypeOK, SeenTypeOK
  <2>4. /\ (pc'[t] = "announced" /\ announced'[job[t]]) \/ pc'[t] = "fail"
        /\ \A o \in Openers : o # t => pc'[o] = pc[o]
    BY <1>12, <2>2 DEF OpenerAnnounce, Goto, TypeOK, SeenTypeOK, ThreadsTypeOK
  <2> QED BY <2>1, <2>2, <2>3, <2>4 DEF Announcing, AnnouncedOnce
<1>13. ASSUME NEW t \in Openers, OpenerWake(t) PROVE AnnouncedOnce'
  <2>1. UNCHANGED <<announced, total_pages, owed, finish_called>> BY <1>13 DEF OpenerWake,
      queue_reschedule, Drop, Goto
  <2>2. /\ \A d \in Docs : cancelled[d] => cancelled'[d]
        /\ \A o \in Openers : pc'[o] \in {"sized", "announced"} => pc'[o] = pc[o] /\ job'[o] =
            job[o]
    BY <1>13 DEF OpenerWake, queue_reschedule, Drop, Goto, TypeOK, DocsTypeOK, ThreadsTypeOK
  <2> QED BY <2>1, <2>2 DEF Announcing, AnnouncedOnce
<1>14. ASSUME NEW t \in Openers, OpenerSettle(t) PROVE AnnouncedOnce'
  <2>1. UNCHANGED <<announced, total_pages, owed>> /\ \A d \in Docs : cancelled[d] =>
      cancelled'[d]
    BY <1>14 DEF OpenerSettle, finish_request, Drop, Goto, TypeOK, DocsTypeOK
  <2>2. \A o \in Openers : pc'[o] \in {"sized", "announced"} => pc'[o] = pc[o] /\ job'[o] =
      job[o]
    BY <1>14 DEF OpenerSettle, finish_request, Drop, Goto, TypeOK, ThreadsTypeOK
  <2>3. \A d \in Docs : finish_called'[d] => finish_called[d] \/ announced[d] \/ cancelled'[d]
    BY <1>14 DEF OpenerSettle, finish_request, Drop, Goto, HoldsJob, Lifecycle, ThreadsSettled,
        TypeOK, DocsTypeOK
  <2> QED BY <2>1, <2>2, <2>3 DEF Announcing, AnnouncedOnce
<1>15. ASSUME NEW t \in Threads, ThreadFail(t) PROVE AnnouncedOnce'
  <2>1. UNCHANGED <<announced, total_pages, owed, finish_called>> BY <1>15 DEF ThreadFail, Fail,
      Goto
  <2>2. /\ \A d \in Docs : cancelled[d] => cancelled'[d]
        /\ \A o \in Openers : pc'[o] \in {"sized", "announced"} => pc'[o] = pc[o] /\ job'[o] =
            job[o]
    BY <1>15 DEF ThreadFail, Fail, Goto, TypeOK, DocsTypeOK, ThreadsTypeOK
  <2> QED BY <2>1, <2>2 DEF Announcing, AnnouncedOnce
<1>16. ASSUME NEW t \in Threads, ThreadAbort(t) PROVE AnnouncedOnce'
  <2>1. UNCHANGED <<announced, total_pages, owed, finish_called>> BY <1>16 DEF ThreadAbort,
      CancelSource, Goto
  <2>2. /\ \A d \in Docs : cancelled[d] => cancelled'[d]
        /\ \A o \in Openers : pc'[o] \in {"sized", "announced"} => pc'[o] = pc[o] /\ job'[o] =
            job[o]
    BY <1>16 DEF ThreadAbort, CancelSource, Goto, TypeOK, DocsTypeOK, ThreadsTypeOK
  <2> QED BY <2>1, <2>2 DEF Announcing, AnnouncedOnce
<1>17. CASE RescheduleNext
  <2>1. UNCHANGED <<announced, total_pages, owed, finish_called>> BY <1>17 DEF RescheduleNext
  <2>2. /\ \A d \in Docs : cancelled[d] => cancelled'[d]
        /\ \A o \in Openers : pc'[o] \in {"sized", "announced"} => pc'[o] = pc[o] /\ job'[o] =
            job[o]
    BY <1>17 DEF RescheduleNext, TypeOK, DocsTypeOK, ThreadsTypeOK
  <2> QED BY <2>1, <2>2 DEF Announcing, AnnouncedOnce
<1>18. CASE RescheduleClear
  <2>1. UNCHANGED <<announced, total_pages, owed, finish_called>> BY <1>18 DEF RescheduleClear
  <2>2. /\ \A d \in Docs : cancelled[d] => cancelled'[d]
        /\ \A o \in Openers : pc'[o] \in {"sized", "announced"} => pc'[o] = pc[o] /\ job'[o] =
            job[o]
    BY <1>18 DEF RescheduleClear, TypeOK, DocsTypeOK, ThreadsTypeOK
  <2> QED BY <2>1, <2>2 DEF Announcing, AnnouncedOnce
<1>19. CASE ScheduleEnter
  <2>1. UNCHANGED <<announced, total_pages, owed, finish_called>> BY <1>19 DEF ScheduleEnter,
      RescheduleDone
  <2>2. /\ \A d \in Docs : cancelled[d] => cancelled'[d]
        /\ \A o \in Openers : pc'[o] \in {"sized", "announced"} => pc'[o] = pc[o] /\ job'[o] =
            job[o]
    BY <1>19 DEF ScheduleEnter, RescheduleDone, TypeOK, DocsTypeOK, ThreadsTypeOK
  <2> QED BY <2>1, <2>2 DEF Announcing, AnnouncedOnce
<1>20. CASE SchedulePush
  <2>1. UNCHANGED <<announced, total_pages, owed, finish_called>> BY <1>20 DEF SchedulePush,
      PushPage, Park, RescheduleDone
  <2>2. /\ \A d \in Docs : cancelled[d] => cancelled'[d]
        /\ \A o \in Openers : pc'[o] \in {"sized", "announced"} => pc'[o] = pc[o] /\ job'[o] =
            job[o]
    BY <1>20 DEF SchedulePush, PushPage, Park, RescheduleDone, TypeOK, DocsTypeOK, ThreadsTypeOK
  <2> QED BY <2>1, <2>2 DEF Announcing, AnnouncedOnce
<1>21. CASE ScheduleCut
  <2>1. UNCHANGED <<announced, total_pages, owed>> /\ \A d \in Docs : cancelled[d] =>
      cancelled'[d]
    BY <1>21 DEF ScheduleCut, CountDown, finish_request, TypeOK, DocsTypeOK
  <2>2. \A o \in Openers : pc'[o] \in {"sized", "announced"} => pc'[o] = pc[o] /\ job'[o] =
      job[o]
    BY <1>21 DEF ScheduleCut, CountDown, finish_request, TypeOK, ThreadsTypeOK
  <2>3. \A d \in Docs : finish_called'[d] => finish_called[d] \/ announced[d] \/ cancelled'[d]
    BY <1>21 DEF ScheduleCut, CountDown, finish_request, HoldsJob, Lifecycle, ThreadsSettled,
        TypeOK, DocsTypeOK
  <2> QED BY <2>1, <2>2, <2>3 DEF Announcing, AnnouncedOnce
<1>22. ASSUME NEW t \in Renderers, RenderPop(t) PROVE AnnouncedOnce'
  <2>1. UNCHANGED <<announced, total_pages, owed, finish_called>> BY <1>22 DEF RenderPop, Take,
      Goto
  <2>2. /\ \A d \in Docs : cancelled[d] => cancelled'[d]
        /\ \A o \in Openers : pc'[o] \in {"sized", "announced"} => pc'[o] = pc[o] /\ job'[o] =
            job[o]
    BY <1>22 DEF RenderPop, Take, Goto, TypeOK, DocsTypeOK, ThreadsTypeOK
  <2> QED BY <2>1, <2>2 DEF Announcing, AnnouncedOnce
<1>23. ASSUME NEW t \in Renderers, RenderNotify(t) PROVE AnnouncedOnce'
  <2>1. UNCHANGED <<announced, total_pages, owed, finish_called>> BY <1>23 DEF RenderNotify,
      queue_reschedule, Goto
  <2>2. /\ \A d \in Docs : cancelled[d] => cancelled'[d]
        /\ \A o \in Openers : pc'[o] \in {"sized", "announced"} => pc'[o] = pc[o] /\ job'[o] =
            job[o]
    BY <1>23 DEF RenderNotify, queue_reschedule, Goto, TypeOK, DocsTypeOK, ThreadsTypeOK
  <2> QED BY <2>1, <2>2 DEF Announcing, AnnouncedOnce
<1>24. ASSUME NEW t \in Renderers, RenderWork(t) PROVE AnnouncedOnce'
  <2>1. UNCHANGED <<announced, total_pages, owed, finish_called>> BY <1>24 DEF RenderWork, Step,
      Goto
  <2>2. /\ \A d \in Docs : cancelled[d] => cancelled'[d]
        /\ \A o \in Openers : pc'[o] \in {"sized", "announced"} => pc'[o] = pc[o] /\ job'[o] =
            job[o]
    BY <1>24 DEF RenderWork, Step, Goto, TypeOK, DocsTypeOK, ThreadsTypeOK
  <2> QED BY <2>1, <2>2 DEF Announcing, AnnouncedOnce
<1>25. ASSUME NEW t \in Recognizers, RecognizePop(t) PROVE AnnouncedOnce'
  <2>1. UNCHANGED <<announced, total_pages, owed, finish_called>> BY <1>25 DEF RecognizePop,
      Take, Goto
  <2>2. /\ \A d \in Docs : cancelled[d] => cancelled'[d]
        /\ \A o \in Openers : pc'[o] \in {"sized", "announced"} => pc'[o] = pc[o] /\ job'[o] =
            job[o]
    BY <1>25 DEF RecognizePop, Take, Goto, TypeOK, DocsTypeOK, ThreadsTypeOK
  <2> QED BY <2>1, <2>2 DEF Announcing, AnnouncedOnce
<1>26. ASSUME NEW t \in Recognizers, RecognizeWork(t) PROVE AnnouncedOnce'
  <2>1. UNCHANGED <<announced, total_pages, owed, finish_called>> BY <1>26 DEF RecognizeWork,
      Step, Goto
  <2>2. /\ \A d \in Docs : cancelled[d] => cancelled'[d]
        /\ \A o \in Openers : pc'[o] \in {"sized", "announced"} => pc'[o] = pc[o] /\ job'[o] =
            job[o]
    BY <1>26 DEF RecognizeWork, Step, Goto, TypeOK, DocsTypeOK, ThreadsTypeOK
  <2> QED BY <2>1, <2>2 DEF Announcing, AnnouncedOnce
<1>27. ASSUME NEW t \in Assemblers, AssemblePop(t) PROVE AnnouncedOnce'
  <2>1. UNCHANGED <<announced, total_pages, owed, finish_called>> BY <1>27 DEF AssemblePop,
      Take, Goto
  <2>2. /\ \A d \in Docs : cancelled[d] => cancelled'[d]
        /\ \A o \in Openers : pc'[o] \in {"sized", "announced"} => pc'[o] = pc[o] /\ job'[o] =
            job[o]
    BY <1>27 DEF AssemblePop, Take, Goto, TypeOK, DocsTypeOK, ThreadsTypeOK
  <2> QED BY <2>1, <2>2 DEF Announcing, AnnouncedOnce
<1>28. ASSUME NEW t \in Assemblers, Deliver(t) PROVE AnnouncedOnce'
  <2>1. UNCHANGED <<job, announced, total_pages, finish_called>> BY <1>28 DEF Deliver
  <2>2. \A d \in Docs : cancelled[d] => cancelled'[d] BY <1>28 DEF Deliver, TypeOK, DocsTypeOK
  <2>3. job[t] \in Docs /\ announced[job[t]] BY <1>28 DEF Deliver, HoldsJob, Announcing,
      AnnouncedPages
  <2>4. \A d \in Docs : owed'[d] > 0 => owed[d] > 0 \/ d = job[t]
    BY <1>28 DEF Deliver, TypeOK, SeenTypeOK
  <2>5. \A o \in Openers : pc'[o] = pc[o] BY <1>28 DEF Deliver, Goto, TypeOK, ThreadsTypeOK
  <2> QED BY <2>1, <2>2, <2>3, <2>4, <2>5 DEF Announcing, AnnouncedOnce
<1>29. ASSUME NEW t \in Assemblers, ReturnCredit(t) PROVE AnnouncedOnce'
  <2>1. UNCHANGED <<job, announced, total_pages, finish_called, cancelled>> BY <1>29 DEF
      ReturnCredit
  <2>2. \A d \in Docs : owed'[d] <= owed[d]
    BY <1>29 DEF ReturnCredit, TypeOK, SeenTypeOK
  <2>3. \A d \in Docs : owed[d] \in Int /\ owed'[d] \in Int BY TypeStep DEF TypeOK, SeenTypeOK
  <2>4. \A d \in Docs : owed'[d] > 0 => owed[d] > 0 BY <2>2, <2>3
  <2>5. \A o \in Openers : pc'[o] = pc[o] BY <1>29 DEF ReturnCredit, Goto, TypeOK, ThreadsTypeOK
  <2> QED BY <2>1, <2>4, <2>5 DEF Announcing, AnnouncedOnce
<1>30. ASSUME NEW t \in Assemblers, WakeAfterCredit(t) PROVE AnnouncedOnce'
  <2>1. UNCHANGED <<announced, total_pages, owed, finish_called>> BY <1>30 DEF WakeAfterCredit,
      queue_reschedule, Goto
  <2>2. /\ \A d \in Docs : cancelled[d] => cancelled'[d]
        /\ \A o \in Openers : pc'[o] \in {"sized", "announced"} => pc'[o] = pc[o] /\ job'[o] =
            job[o]
    BY <1>30 DEF WakeAfterCredit, queue_reschedule, Goto, TypeOK, DocsTypeOK, ThreadsTypeOK
  <2> QED BY <2>1, <2>2 DEF Announcing, AnnouncedOnce
<1>31. ASSUME NEW t \in Renderers, PushInference(t) PROVE AnnouncedOnce'
  <2>1. UNCHANGED <<announced, total_pages, owed, finish_called>> BY <1>31 DEF PushInference,
      Drop, Goto
  <2>2. /\ \A d \in Docs : cancelled[d] => cancelled'[d]
        /\ \A o \in Openers : pc'[o] \in {"sized", "announced"} => pc'[o] = pc[o] /\ job'[o] =
            job[o]
    BY <1>31 DEF PushInference, Drop, Goto, TypeOK, DocsTypeOK, ThreadsTypeOK
  <2> QED BY <2>1, <2>2 DEF Announcing, AnnouncedOnce
<1>32. ASSUME NEW t \in Workers, PushAssembly(t) PROVE AnnouncedOnce'
  <2>1. UNCHANGED <<announced, total_pages, owed, finish_called>> BY <1>32 DEF PushAssembly,
      Drop, Goto
  <2>2. /\ \A d \in Docs : cancelled[d] => cancelled'[d]
        /\ \A o \in Openers : pc'[o] \in {"sized", "announced"} => pc'[o] = pc[o] /\ job'[o] =
            job[o]
    BY <1>32 DEF PushAssembly, Drop, Goto, TypeOK, DocsTypeOK, ThreadsTypeOK
  <2> QED BY <2>1, <2>2 DEF Announcing, AnnouncedOnce
<1>33. ASSUME NEW t \in Workers, CheckCancelled(t) PROVE AnnouncedOnce'
  <2>1. UNCHANGED <<announced, total_pages, owed, finish_called>> BY <1>33 DEF CheckCancelled,
      Step, Goto
  <2>2. /\ \A d \in Docs : cancelled[d] => cancelled'[d]
        /\ \A o \in Openers : pc'[o] \in {"sized", "announced"} => pc'[o] = pc[o] /\ job'[o] =
            job[o]
    BY <1>33 DEF CheckCancelled, Step, Goto, TypeOK, DocsTypeOK, ThreadsTypeOK
  <2> QED BY <2>1, <2>2 DEF Announcing, AnnouncedOnce
<1>34. ASSUME NEW t \in Workers, CompletePage(t) PROVE AnnouncedOnce'
  <2>1. UNCHANGED <<announced, total_pages, owed, finish_called>> BY <1>34 DEF CompletePage,
      queue_reschedule, Goto
  <2>2. /\ \A d \in Docs : cancelled[d] => cancelled'[d]
        /\ \A o \in Openers : pc'[o] \in {"sized", "announced"} => pc'[o] = pc[o] /\ job'[o] =
            job[o]
    BY <1>34 DEF CompletePage, queue_reschedule, Goto, TypeOK, DocsTypeOK, ThreadsTypeOK
  <2> QED BY <2>1, <2>2 DEF Announcing, AnnouncedOnce
<1>35. ASSUME NEW t \in Workers, CountPage(t) PROVE AnnouncedOnce'
  <2>1. UNCHANGED <<announced, total_pages, owed>> /\ \A d \in Docs : cancelled[d] =>
      cancelled'[d]
    BY <1>35 DEF CountPage, CountDown, finish_request, Drop, Goto, TypeOK, DocsTypeOK
  <2>2. \A o \in Openers : pc'[o] \in {"sized", "announced"} => pc'[o] = pc[o] /\ job'[o] =
      job[o]
    BY <1>35 DEF CountPage, CountDown, finish_request, Drop, Goto, TypeOK, ThreadsTypeOK
  <2>3. \A d \in Docs : finish_called'[d] => finish_called[d] \/ announced[d] \/ cancelled'[d]
    BY <1>35 DEF CountPage, CountDown, finish_request, Drop, Goto, HoldsJob, Announcing,
        AnnouncedPages, TypeOK, DocsTypeOK
  <2> QED BY <2>1, <2>2, <2>3 DEF Announcing, AnnouncedOnce
<1>36. CASE StopDocuments
  <2>1. UNCHANGED <<announced, total_pages, owed, finish_called>> BY <1>36 DEF StopDocuments,
      StopClose
  <2>2. /\ \A d \in Docs : cancelled[d] => cancelled'[d]
        /\ \A o \in Openers : pc'[o] \in {"sized", "announced"} => pc'[o] = pc[o] /\ job'[o] =
            job[o]
    BY <1>36 DEF StopDocuments, StopClose, TypeOK, DocsTypeOK, ThreadsTypeOK
  <2> QED BY <2>1, <2>2 DEF Announcing, AnnouncedOnce
<1>37. CASE StopReschedule
  <2>1. UNCHANGED <<announced, total_pages, owed, finish_called>> BY <1>37 DEF StopReschedule
  <2>2. /\ \A d \in Docs : cancelled[d] => cancelled'[d]
        /\ \A o \in Openers : pc'[o] \in {"sized", "announced"} => pc'[o] = pc[o] /\ job'[o] =
            job[o]
    BY <1>37 DEF StopReschedule, TypeOK, DocsTypeOK, ThreadsTypeOK
  <2> QED BY <2>1, <2>2 DEF Announcing, AnnouncedOnce
<1>38. CASE StopRender
  <2>1. UNCHANGED <<announced, total_pages, owed, finish_called>> BY <1>38 DEF StopRender,
      StopClose
  <2>2. /\ \A d \in Docs : cancelled[d] => cancelled'[d]
        /\ \A o \in Openers : pc'[o] \in {"sized", "announced"} => pc'[o] = pc[o] /\ job'[o] =
            job[o]
    BY <1>38 DEF StopRender, StopClose, TypeOK, DocsTypeOK, ThreadsTypeOK
  <2> QED BY <2>1, <2>2 DEF Announcing, AnnouncedOnce
<1>39. CASE StopInference
  <2>1. UNCHANGED <<announced, total_pages, owed, finish_called>> BY <1>39 DEF StopInference,
      StopClose
  <2>2. /\ \A d \in Docs : cancelled[d] => cancelled'[d]
        /\ \A o \in Openers : pc'[o] \in {"sized", "announced"} => pc'[o] = pc[o] /\ job'[o] =
            job[o]
    BY <1>39 DEF StopInference, StopClose, TypeOK, DocsTypeOK, ThreadsTypeOK
  <2> QED BY <2>1, <2>2 DEF Announcing, AnnouncedOnce
<1>40. CASE StopAssembly
  <2>1. UNCHANGED <<announced, total_pages, owed, finish_called>> BY <1>40 DEF StopAssembly,
      StopClose
  <2>2. /\ \A d \in Docs : cancelled[d] => cancelled'[d]
        /\ \A o \in Openers : pc'[o] \in {"sized", "announced"} => pc'[o] = pc[o] /\ job'[o] =
            job[o]
    BY <1>40 DEF StopAssembly, StopClose, TypeOK, DocsTypeOK, ThreadsTypeOK
  <2> QED BY <2>1, <2>2 DEF Announcing, AnnouncedOnce
<1>41. CASE StopFail
  <2>1. UNCHANGED <<announced, total_pages, owed, finish_called>> BY <1>41 DEF StopFail, Fail
  <2>2. /\ \A d \in Docs : cancelled[d] => cancelled'[d]
        /\ \A o \in Openers : pc'[o] \in {"sized", "announced"} => pc'[o] = pc[o] /\ job'[o] =
            job[o]
    BY <1>41 DEF StopFail, Fail, TypeOK, DocsTypeOK, ThreadsTypeOK
  <2> QED BY <2>1, <2>2 DEF Announcing, AnnouncedOnce
<1>42. CASE StopAbort
  <2>1. UNCHANGED <<announced, total_pages, owed, finish_called>> BY <1>42 DEF StopAbort,
      CancelSource
  <2>2. /\ \A d \in Docs : cancelled[d] => cancelled'[d]
        /\ \A o \in Openers : pc'[o] \in {"sized", "announced"} => pc'[o] = pc[o] /\ job'[o] =
            job[o]
    BY <1>42 DEF StopAbort, CancelSource, TypeOK, DocsTypeOK, ThreadsTypeOK
  <2> QED BY <2>1, <2>2 DEF Announcing, AnnouncedOnce
<1>43. CASE StopJoin
  <2>1. UNCHANGED <<announced, total_pages, owed, finish_called>> BY <1>43 DEF StopJoin
  <2>2. /\ \A d \in Docs : cancelled[d] => cancelled'[d]
        /\ \A o \in Openers : pc'[o] \in {"sized", "announced"} => pc'[o] = pc[o] /\ job'[o] =
            job[o]
    BY <1>43 DEF StopJoin, TypeOK, DocsTypeOK, ThreadsTypeOK
  <2> QED BY <2>1, <2>2 DEF Announcing, AnnouncedOnce
<1>44. CASE StopDone
  <2>1. UNCHANGED <<announced, total_pages, owed, finish_called>> BY <1>44 DEF StopDone
  <2>2. /\ \A d \in Docs : cancelled[d] => cancelled'[d]
        /\ \A o \in Openers : pc'[o] \in {"sized", "announced"} => pc'[o] = pc[o] /\ job'[o] =
            job[o]
    BY <1>44 DEF StopDone, TypeOK, DocsTypeOK, ThreadsTypeOK
  <2> QED BY <2>1, <2>2 DEF Announcing, AnnouncedOnce
<1>45. ASSUME NEW x \in Docs, StopWaiter(x) PROVE AnnouncedOnce'
  <2>1. UNCHANGED <<announced, total_pages, owed, finish_called>> BY <1>45 DEF StopWaiter,
      queue_reschedule
  <2>2. /\ \A d \in Docs : cancelled[d] => cancelled'[d]
        /\ \A o \in Openers : pc'[o] \in {"sized", "announced"} => pc'[o] = pc[o] /\ job'[o] =
            job[o]
    BY <1>45 DEF StopWaiter, queue_reschedule, TypeOK, DocsTypeOK, ThreadsTypeOK
  <2> QED BY <2>1, <2>2 DEF Announcing, AnnouncedOnce
<1>46. ASSUME NEW x \in Docs, StopExamine(x) PROVE AnnouncedOnce'
  <2>1. UNCHANGED <<announced, total_pages, owed, finish_called>> BY <1>46 DEF StopExamine
  <2>2. /\ \A d \in Docs : cancelled[d] => cancelled'[d]
        /\ \A o \in Openers : pc'[o] \in {"sized", "announced"} => pc'[o] = pc[o] /\ job'[o] =
            job[o]
    BY <1>46 DEF StopExamine, TypeOK, DocsTypeOK, ThreadsTypeOK
  <2> QED BY <2>1, <2>2 DEF Announcing, AnnouncedOnce
<1>47. ASSUME NEW x \in Docs, StopAbandon(x) PROVE AnnouncedOnce'
  <2>1. UNCHANGED <<announced, total_pages, owed>> /\ \A d \in Docs : cancelled[d] =>
      cancelled'[d]
    BY <1>47 DEF StopAbandon, finish_request, Fail, TypeOK, DocsTypeOK
  <2>2. \A o \in Openers : pc'[o] \in {"sized", "announced"} => pc'[o] = pc[o] /\ job'[o] =
      job[o]
    BY <1>47 DEF StopAbandon, finish_request, Fail, TypeOK, ThreadsTypeOK
  <2>3. \A d \in Docs : finish_called'[d] => finish_called[d] \/ announced[d] \/ cancelled'[d]
    BY <1>47 DEF StopAbandon, finish_request, Fail, HoldsJob, TypeOK, DocsTypeOK
  <2> QED BY <2>1, <2>2, <2>3 DEF Announcing, AnnouncedOnce
<1>48. CASE UNCHANGED vars
  BY <1>48 DEF vars, Announcing, AnnouncedOnce, TypeOK, DocsTypeOK, ThreadsTypeOK, HoldsJob
<1> QED BY StepCases, <1>1, <1>2, <1>3, <1>4, <1>5, <1>6, <1>7, <1>8, <1>9, <1>10, <1>11, <1>12,
    <1>13, <1>14, <1>15, <1>16, <1>17, <1>18, <1>19, <1>20, <1>21, <1>22, <1>23, <1>24, <1>25,
    <1>26, <1>27, <1>28, <1>29, <1>30, <1>31, <1>32, <1>33, <1>34, <1>35, <1>36, <1>37, <1>38,
    <1>39, <1>40, <1>41, <1>42, <1>43, <1>44, <1>45, <1>46, <1>47, <1>48
\* Whoever wakes the scheduler for a document has seen it announced, or gives it up.
LEMMA AnnouncedFirstStep ==
  ASSUME TypeOK, HoldsJob, Lifecycle, Announcing, [Next]_vars
  PROVE  AnnouncedFirst'
<1> USE Roles
<1>1. ASSUME NEW x \in Docs, Submit(x) PROVE AnnouncedFirst'
  <2>1. UNCHANGED <<waking, pending_reschedules, ticket, rs, rs_doc, space_waiters, waiters,
      stop_pc,
                    stop_todo, announced>>
    BY <1>1 DEF Submit
  <2>2. \A d \in Docs : cancelled[d] => cancelled'[d] BY <1>1 DEF Submit, TypeOK, DocsTypeOK
  <2> QED BY <2>1, <2>2 DEF Announcing, AnnouncedFirst, Woken
<1>2. ASSUME NEW x \in Docs, TicketCancel(x) PROVE AnnouncedFirst'
  <2>1. UNCHANGED <<waking, pending_reschedules, rs, rs_doc, space_waiters, waiters, stop_pc,
      stop_todo, announced>>
    BY <1>2 DEF TicketCancel
  <2>2. /\ \A d \in Docs : cancelled[d] => cancelled'[d]
        /\ \A d \in Docs : ticket'[d] = ticket[d] \/ cancelled'[d]
    BY <1>2 DEF TicketCancel, TypeOK, DocsTypeOK
  <2> QED BY <2>1, <2>2 DEF Announcing, AnnouncedFirst, Woken
<1>3. ASSUME NEW x \in Docs, TicketAbort(x) PROVE AnnouncedFirst'
  <2>1. UNCHANGED <<waking, pending_reschedules, rs, rs_doc, space_waiters, waiters, stop_pc,
      stop_todo, announced,
                    cancelled>>
    BY <1>3 DEF TicketAbort
  <2>2. \A d \in Docs : ticket'[d] = ticket[d] \/ ticket[d] = "abort" BY <1>3 DEF TicketAbort,
      TypeOK, DocsTypeOK
  <2> QED BY <2>1, <2>2 DEF Announcing, AnnouncedFirst, Woken
<1>4. ASSUME NEW x \in Docs, TicketRelease(x) PROVE AnnouncedFirst'
  <2>1. UNCHANGED <<waking, pending_reschedules, rs, rs_doc, space_waiters, waiters, stop_pc,
      stop_todo, announced,
                    cancelled>>
    BY <1>4 DEF TicketRelease
  <2>2. Cardinality(Returning(x)) \in Nat
    BY FS_Subset, FS_CardinalityType, ThreadAssumption, Roles DEF Returning
  <2>3. owed[x] > 0 BY <1>4, <2>2 DEF TicketRelease, Returning, TypeOK, SeenTypeOK
  <2>4. announced[x] BY <2>3 DEF Announcing, AnnouncedOnce
  <2>5. \A d \in Docs : d # x => ticket'[d] = ticket[d] BY <1>4 DEF TicketRelease, TypeOK,
      DocsTypeOK
  <2> QED BY <2>1, <2>4, <2>5 DEF Announcing, AnnouncedFirst, Woken
<1>5. ASSUME NEW x \in Docs, TicketWake(x) PROVE AnnouncedFirst'
  <2>1. /\ UNCHANGED <<pending_reschedules, rs, rs_doc, space_waiters, waiters, stop_pc,
           stop_todo, announced,
                       cancelled>>
        /\ waking' \subseteq waking \cup {x} /\ ticket[x] \in {"wake", "wake_cancel"}
    BY <1>5 DEF TicketWake, queue_reschedule
  <2>2. \A d \in Docs : ticket'[d] = ticket[d] \/ d = x BY <1>5 DEF TicketWake, TypeOK,
      DocsTypeOK
  <2>3. announced[x] \/ cancelled[x] BY <2>1 DEF Announcing, AnnouncedFirst, Woken
  <2> QED BY <2>1, <2>2, <2>3 DEF Announcing, AnnouncedFirst, Woken
<1>6. ASSUME NEW x \in Docs, EnqueueReschedule(x) PROVE AnnouncedFirst'
  <2>1. UNCHANGED <<ticket, rs, rs_doc, space_waiters, waiters, stop_pc, stop_todo, announced,
      cancelled>>
    BY <1>6 DEF EnqueueReschedule
  <2>2. x \in waking /\ waking' \subseteq waking BY <1>6 DEF EnqueueReschedule
  <2>3. Range(pending_reschedules') \subseteq Range(pending_reschedules) \cup {x}
    <3>1. pending_reschedules \in Seq(Docs) BY DEF TypeOK, QueuesTypeOK
    <3> QED BY <1>6, <3>1, AppendElements DEF EnqueueReschedule
  <2>4. announced[x] \/ cancelled[x] BY <2>2 DEF Announcing, AnnouncedFirst, Woken
  <2> QED BY <2>1, <2>2, <2>3, <2>4 DEF Announcing, AnnouncedFirst, Woken
<1>7. ASSUME NEW t \in Openers, OpenerPop(t) PROVE AnnouncedFirst'
  <2>1. UNCHANGED <<waking, pending_reschedules, ticket, rs, rs_doc, space_waiters, waiters,
      stop_pc,
                    stop_todo, announced>>
    BY <1>7 DEF OpenerPop, Goto
  <2>2. \A d \in Docs : cancelled[d] => cancelled'[d] BY <1>7 DEF OpenerPop, Goto, TypeOK,
      DocsTypeOK
  <2> QED BY <2>1, <2>2 DEF Announcing, AnnouncedFirst, Woken
<1>8. ASSUME NEW t \in Openers, OpenerCheck(t) PROVE AnnouncedFirst'
  <2>1. UNCHANGED <<waking, pending_reschedules, ticket, rs, rs_doc, space_waiters, waiters,
      stop_pc,
                    stop_todo, announced>>
    BY <1>8 DEF OpenerCheck, finish_request, Drop, Goto
  <2>2. \A d \in Docs : cancelled[d] => cancelled'[d] BY <1>8 DEF OpenerCheck, finish_request,
      Drop, Goto, TypeOK, DocsTypeOK
  <2> QED BY <2>1, <2>2 DEF Announcing, AnnouncedFirst, Woken
<1>9. ASSUME NEW t \in Openers, OpenerPublish(t) PROVE AnnouncedFirst'
  <2>1. UNCHANGED <<waking, pending_reschedules, ticket, rs, rs_doc, space_waiters, waiters,
      stop_pc,
                    stop_todo, announced>>
    BY <1>9 DEF OpenerPublish, Goto
  <2>2. \A d \in Docs : cancelled[d] => cancelled'[d] BY <1>9 DEF OpenerPublish, Goto, TypeOK,
      DocsTypeOK
  <2> QED BY <2>1, <2>2 DEF Announcing, AnnouncedFirst, Woken
<1>10. ASSUME NEW t \in Openers, OpenerRecheck(t) PROVE AnnouncedFirst'
  <2>1. UNCHANGED <<waking, pending_reschedules, ticket, rs, rs_doc, space_waiters, waiters,
      stop_pc,
                    stop_todo, announced>>
    BY <1>10 DEF OpenerRecheck, Goto
  <2>2. \A d \in Docs : cancelled[d] => cancelled'[d] BY <1>10 DEF OpenerRecheck, Goto, TypeOK,
      DocsTypeOK
  <2> QED BY <2>1, <2>2 DEF Announcing, AnnouncedFirst, Woken
<1>11. ASSUME NEW t \in Openers, OpenerSize(t) PROVE AnnouncedFirst'
  <2>1. UNCHANGED <<waking, pending_reschedules, ticket, rs, rs_doc, space_waiters, waiters,
      stop_pc,
                    stop_todo, announced>>
    BY <1>11 DEF OpenerSize, Goto
  <2>2. \A d \in Docs : cancelled[d] => cancelled'[d] BY <1>11 DEF OpenerSize, Goto, TypeOK,
      DocsTypeOK
  <2> QED BY <2>1, <2>2 DEF Announcing, AnnouncedFirst, Woken
<1>12. ASSUME NEW t \in Openers, OpenerAnnounce(t) PROVE AnnouncedFirst'
  <2>1. UNCHANGED <<waking, pending_reschedules, ticket, rs, rs_doc, space_waiters, waiters,
      stop_pc,
                    stop_todo, cancelled>>
    BY <1>12 DEF OpenerAnnounce
  <2>2. \A d \in Docs : announced[d] => announced'[d] BY <1>12 DEF OpenerAnnounce, TypeOK,
      SeenTypeOK
  <2>3. /\ space_waiters \subseteq Docs /\ (rs = "push" => rs_doc \in Docs)
        /\ stop_todo \subseteq Docs /\ \A r \in Renderers : waiters[r] \subseteq Docs
    BY DEF TypeOK, QueuesTypeOK, ThreadsTypeOK, HoldsJob
  <2> QED BY <2>1, <2>2, <2>3 DEF Announcing, AnnouncedFirst, Woken
<1>13. ASSUME NEW t \in Openers, OpenerWake(t) PROVE AnnouncedFirst'
  <2>1. /\ UNCHANGED <<pending_reschedules, ticket, rs, rs_doc, space_waiters, waiters, stop_pc,
           stop_todo, announced, cancelled>>
        /\ waking' \subseteq waking \cup {job[t]}
    BY <1>13 DEF OpenerWake, queue_reschedule
  <2>2. waking' = waking \/ announced[job[t]] \/ cancelled[job[t]]
    BY <1>13 DEF OpenerWake, queue_reschedule, Announcing, AnnouncedOnce
  <2> QED BY <2>1, <2>2 DEF Announcing, AnnouncedFirst, Woken
<1>14. ASSUME NEW t \in Openers, OpenerSettle(t) PROVE AnnouncedFirst'
  <2>1. /\ UNCHANGED <<pending_reschedules, ticket, rs, rs_doc, space_waiters, waiters, stop_pc,
           stop_todo, announced, cancelled>>
        /\ waking' \subseteq waking \cup {job[t]}
    BY <1>14 DEF OpenerSettle, queue_reschedule
  <2>2. waking' = waking \/ announced[job[t]] \/ cancelled[job[t]]
    BY <1>14 DEF OpenerSettle, queue_reschedule, Lifecycle, ThreadsSettled
  <2> QED BY <2>1, <2>2 DEF Announcing, AnnouncedFirst, Woken
<1>15. ASSUME NEW t \in Threads, ThreadFail(t) PROVE AnnouncedFirst'
  <2>1. UNCHANGED <<waking, pending_reschedules, ticket, rs, rs_doc, space_waiters, waiters,
      stop_pc,
                    stop_todo, announced>>
    BY <1>15 DEF ThreadFail, Fail, Goto
  <2>2. \A d \in Docs : cancelled[d] => cancelled'[d] BY <1>15 DEF ThreadFail, Fail, Goto,
      TypeOK, DocsTypeOK
  <2> QED BY <2>1, <2>2 DEF Announcing, AnnouncedFirst, Woken
<1>16. ASSUME NEW t \in Threads, ThreadAbort(t) PROVE AnnouncedFirst'
  <2>1. UNCHANGED <<waking, pending_reschedules, ticket, rs, rs_doc, space_waiters, waiters,
      stop_pc,
                    stop_todo, announced>>
    BY <1>16 DEF ThreadAbort, CancelSource, Goto
  <2>2. \A d \in Docs : cancelled[d] => cancelled'[d] BY <1>16 DEF ThreadAbort, CancelSource,
      Goto, TypeOK, DocsTypeOK
  <2> QED BY <2>1, <2>2 DEF Announcing, AnnouncedFirst, Woken
<1>17. CASE RescheduleNext
  <2>1. UNCHANGED <<waking, ticket, space_waiters, waiters, stop_pc, stop_todo, announced,
      cancelled>> /\ rs' # "push"
    BY <1>17 DEF RescheduleNext
  <2>2. CASE UNCHANGED <<rs_doc, pending_reschedules>> BY <2>1, <2>2 DEF Announcing,
      AnnouncedFirst, Woken
  <2>3. CASE /\ pending_reschedules # <<>> /\ rs_doc' = Head(pending_reschedules)
             /\ pending_reschedules' = Tail(pending_reschedules)
    <3>1. pending_reschedules \in Seq(Docs) BY DEF TypeOK, QueuesTypeOK
    <3>2. Range(pending_reschedules) = Range(pending_reschedules') \cup {rs_doc'} BY <2>3, <3>1,
        TailElements
    <3> QED BY <2>1, <3>2 DEF Announcing, AnnouncedFirst, Woken
  <2> QED BY <1>17, <2>2, <2>3 DEF RescheduleNext
<1>18. CASE RescheduleClear
  <2>1. UNCHANGED <<waking, pending_reschedules, ticket, rs_doc, space_waiters, waiters,
      stop_pc, stop_todo,
                    announced, cancelled>> /\ rs' # "push"
    BY <1>18 DEF RescheduleClear
  <2> QED BY <2>1 DEF Announcing, AnnouncedFirst, Woken
<1>19. CASE ScheduleEnter
  <2>1. UNCHANGED <<waking, pending_reschedules, ticket, space_waiters, waiters, stop_pc,
      stop_todo, announced,
                    cancelled>>
    BY <1>19 DEF ScheduleEnter
  <2>2. rs_doc \in Docs /\ (announced[rs_doc] \/ cancelled[rs_doc])
    BY <1>19 DEF ScheduleEnter, HoldsJob, Announcing, AnnouncedFirst, Woken
  <2>3. /\ rs_doc' = rs_doc \/ rs_doc' = NoDoc
        /\ rs' = "push" => rs_doc' = rs_doc /\ ~cancelled[rs_doc]
    BY <1>19 DEF ScheduleEnter, RescheduleDone
  <2> QED BY <2>1, <2>2, <2>3, SchedulerAssumption DEF Announcing, AnnouncedFirst, Woken
<1>20. CASE SchedulePush
  <2>1. UNCHANGED <<waking, pending_reschedules, ticket, waiters, stop_pc, stop_todo, announced,
      cancelled>>
    BY <1>20 DEF SchedulePush
  <2>2. /\ rs_doc' = rs_doc \/ (rs_doc' = NoDoc /\ rs' # "push")
        /\ space_waiters' \subseteq space_waiters \cup {rs_doc}
    BY <1>20 DEF SchedulePush, RescheduleDone, PushPage, Park, Announcing, AnnouncedFirst
  <2>3. announced[rs_doc] BY <1>20 DEF SchedulePush, Announcing, AnnouncedFirst
  <2> QED BY <2>1, <2>2, <2>3, SchedulerAssumption DEF Announcing, AnnouncedFirst, Woken
<1>21. CASE ScheduleCut
  <2>1. UNCHANGED <<waking, pending_reschedules, ticket, space_waiters, waiters, stop_pc,
      stop_todo, announced,
                    cancelled>> /\ rs_doc' = NoDoc /\ rs' # "push"
    BY <1>21 DEF ScheduleCut, RescheduleDone
  <2> QED BY <2>1, SchedulerAssumption DEF Announcing, AnnouncedFirst, Woken
<1>22. ASSUME NEW t \in Renderers, RenderPop(t) PROVE AnnouncedFirst'
  <2>1. UNCHANGED <<waking, pending_reschedules, ticket, rs, rs_doc, stop_pc, stop_todo,
      announced, cancelled>>
    BY <1>22 DEF RenderPop
  <2>2. /\ space_waiters' \subseteq space_waiters
        /\ \A r \in Renderers : waiters'[r] \subseteq waiters[r] \cup space_waiters
    BY <1>22 DEF RenderPop, TypeOK, ThreadsTypeOK
  <2> QED BY <2>1, <2>2 DEF Announcing, AnnouncedFirst, Woken
<1>23. ASSUME NEW t \in Renderers, RenderNotify(t) PROVE AnnouncedFirst'
  <2>1. PICK e \in waiters[t] :
          /\ waking' \subseteq waking \cup {e}
          /\ waiters' = [waiters EXCEPT ![t] = waiters[t] \ {e}]
    BY <1>23 DEF RenderNotify, queue_reschedule
  <2>2. UNCHANGED <<pending_reschedules, ticket, rs, rs_doc, space_waiters, stop_pc, stop_todo,
      announced, cancelled>>
    BY <1>23 DEF RenderNotify
  <2>3. announced[e] BY DEF Announcing, AnnouncedFirst
  <2>4. \A r \in Renderers : waiters'[r] \subseteq waiters[r] BY <2>1 DEF TypeOK, ThreadsTypeOK
  <2> QED BY <2>1, <2>2, <2>3, <2>4 DEF Announcing, AnnouncedFirst, Woken
<1>24. ASSUME NEW t \in Renderers, RenderWork(t) PROVE AnnouncedFirst'
  <2>1. UNCHANGED <<waking, pending_reschedules, ticket, rs, rs_doc, space_waiters, waiters,
      stop_pc,
                    stop_todo, announced>>
    BY <1>24 DEF RenderWork, Step, Goto
  <2>2. \A d \in Docs : cancelled[d] => cancelled'[d] BY <1>24 DEF RenderWork, Step, Goto,
      TypeOK, DocsTypeOK
  <2> QED BY <2>1, <2>2 DEF Announcing, AnnouncedFirst, Woken
<1>25. ASSUME NEW t \in Recognizers, RecognizePop(t) PROVE AnnouncedFirst'
  <2>1. UNCHANGED <<waking, pending_reschedules, ticket, rs, rs_doc, space_waiters, waiters,
      stop_pc,
                    stop_todo, announced>>
    BY <1>25 DEF RecognizePop, Take, Goto
  <2>2. \A d \in Docs : cancelled[d] => cancelled'[d] BY <1>25 DEF RecognizePop, Take, Goto,
      TypeOK, DocsTypeOK
  <2> QED BY <2>1, <2>2 DEF Announcing, AnnouncedFirst, Woken
<1>26. ASSUME NEW t \in Recognizers, RecognizeWork(t) PROVE AnnouncedFirst'
  <2>1. UNCHANGED <<waking, pending_reschedules, ticket, rs, rs_doc, space_waiters, waiters,
      stop_pc,
                    stop_todo, announced>>
    BY <1>26 DEF RecognizeWork, Step, Goto
  <2>2. \A d \in Docs : cancelled[d] => cancelled'[d] BY <1>26 DEF RecognizeWork, Step, Goto,
      TypeOK, DocsTypeOK
  <2> QED BY <2>1, <2>2 DEF Announcing, AnnouncedFirst, Woken
<1>27. ASSUME NEW t \in Assemblers, AssemblePop(t) PROVE AnnouncedFirst'
  <2>1. UNCHANGED <<waking, pending_reschedules, ticket, rs, rs_doc, space_waiters, waiters,
      stop_pc,
                    stop_todo, announced>>
    BY <1>27 DEF AssemblePop, Take, Goto
  <2>2. \A d \in Docs : cancelled[d] => cancelled'[d] BY <1>27 DEF AssemblePop, Take, Goto,
      TypeOK, DocsTypeOK
  <2> QED BY <2>1, <2>2 DEF Announcing, AnnouncedFirst, Woken
<1>28. ASSUME NEW t \in Assemblers, Deliver(t) PROVE AnnouncedFirst'
  <2>1. UNCHANGED <<waking, pending_reschedules, ticket, rs, rs_doc, space_waiters, waiters,
      stop_pc,
                    stop_todo, announced>>
    BY <1>28 DEF Deliver, Goto
  <2>2. \A d \in Docs : cancelled[d] => cancelled'[d] BY <1>28 DEF Deliver, Goto, TypeOK,
      DocsTypeOK
  <2> QED BY <2>1, <2>2 DEF Announcing, AnnouncedFirst, Woken
<1>29. ASSUME NEW t \in Assemblers, ReturnCredit(t) PROVE AnnouncedFirst'
  <2>1. UNCHANGED <<waking, pending_reschedules, ticket, rs, rs_doc, space_waiters, waiters,
      stop_pc,
                    stop_todo, announced>>
    BY <1>29 DEF ReturnCredit, release_slots, Goto
  <2>2. \A d \in Docs : cancelled[d] => cancelled'[d] BY <1>29 DEF ReturnCredit, release_slots,
      Goto, TypeOK, DocsTypeOK
  <2> QED BY <2>1, <2>2 DEF Announcing, AnnouncedFirst, Woken
<1>30. ASSUME NEW t \in Assemblers, WakeAfterCredit(t) PROVE AnnouncedFirst'
  <2>1. /\ UNCHANGED <<pending_reschedules, ticket, rs, rs_doc, space_waiters, waiters, stop_pc,
           stop_todo, announced, cancelled>>
        /\ waking' \subseteq waking \cup {job[t]}
    BY <1>30 DEF WakeAfterCredit, queue_reschedule
  <2>2. waking' = waking \/ announced[job[t]] \/ cancelled[job[t]]
    BY <1>30 DEF WakeAfterCredit, queue_reschedule, Announcing, AnnouncedPages, HoldsJob
  <2> QED BY <2>1, <2>2 DEF Announcing, AnnouncedFirst, Woken
<1>31. ASSUME NEW t \in Renderers, PushInference(t) PROVE AnnouncedFirst'
  <2>1. UNCHANGED <<waking, pending_reschedules, ticket, rs, rs_doc, space_waiters, waiters,
      stop_pc,
                    stop_todo, announced>>
    BY <1>31 DEF PushInference, Drop, Goto
  <2>2. \A d \in Docs : cancelled[d] => cancelled'[d] BY <1>31 DEF PushInference, Drop, Goto,
      TypeOK, DocsTypeOK
  <2> QED BY <2>1, <2>2 DEF Announcing, AnnouncedFirst, Woken
<1>32. ASSUME NEW t \in Workers, PushAssembly(t) PROVE AnnouncedFirst'
  <2>1. UNCHANGED <<waking, pending_reschedules, ticket, rs, rs_doc, space_waiters, waiters,
      stop_pc,
                    stop_todo, announced>>
    BY <1>32 DEF PushAssembly, Drop, Goto
  <2>2. \A d \in Docs : cancelled[d] => cancelled'[d] BY <1>32 DEF PushAssembly, Drop, Goto,
      TypeOK, DocsTypeOK
  <2> QED BY <2>1, <2>2 DEF Announcing, AnnouncedFirst, Woken
<1>33. ASSUME NEW t \in Workers, CheckCancelled(t) PROVE AnnouncedFirst'
  <2>1. UNCHANGED <<waking, pending_reschedules, ticket, rs, rs_doc, space_waiters, waiters,
      stop_pc,
                    stop_todo, announced>>
    BY <1>33 DEF CheckCancelled, Step, Goto
  <2>2. \A d \in Docs : cancelled[d] => cancelled'[d] BY <1>33 DEF CheckCancelled, Step, Goto,
      TypeOK, DocsTypeOK
  <2> QED BY <2>1, <2>2 DEF Announcing, AnnouncedFirst, Woken
<1>34. ASSUME NEW t \in Workers, CompletePage(t) PROVE AnnouncedFirst'
  <2>1. /\ UNCHANGED <<pending_reschedules, ticket, rs, rs_doc, space_waiters, waiters, stop_pc,
           stop_todo, announced, cancelled>>
        /\ waking' \subseteq waking \cup {job[t]}
    BY <1>34 DEF CompletePage, queue_reschedule
  <2>2. waking' = waking \/ announced[job[t]] \/ cancelled[job[t]]
    BY <1>34 DEF CompletePage, queue_reschedule, Announcing, AnnouncedPages, HoldsJob
  <2> QED BY <2>1, <2>2 DEF Announcing, AnnouncedFirst, Woken
<1>35. ASSUME NEW t \in Workers, CountPage(t) PROVE AnnouncedFirst'
  <2>1. UNCHANGED <<waking, pending_reschedules, ticket, rs, rs_doc, space_waiters, waiters,
      stop_pc,
                    stop_todo, announced>>
    BY <1>35 DEF CountPage, CountDown, finish_request, Drop, Goto
  <2>2. \A d \in Docs : cancelled[d] => cancelled'[d] BY <1>35 DEF CountPage, CountDown,
      finish_request, Drop, Goto, TypeOK, DocsTypeOK
  <2> QED BY <2>1, <2>2 DEF Announcing, AnnouncedFirst, Woken
<1>36. CASE StopDocuments
  <2>1. UNCHANGED <<waking, pending_reschedules, ticket, rs, rs_doc, space_waiters, waiters,
      announced>>
    BY <1>36 DEF StopDocuments, StopClose
  <2>2. /\ \A d \in Docs : cancelled[d] => cancelled'[d]
        /\ stop_pc' = "waiters" => stop_todo' \subseteq stop_todo /\ stop_pc = "waiters"
    BY <1>36 DEF StopDocuments, StopClose, TypeOK, DocsTypeOK
  <2> QED BY <2>1, <2>2 DEF Announcing, AnnouncedFirst, Woken
<1>37. CASE StopReschedule
  <2>1. UNCHANGED <<waking, ticket, rs, rs_doc, space_waiters, waiters, announced>>
    BY <1>37 DEF StopReschedule
  <2>2. /\ \A d \in Docs : cancelled[d] => cancelled'[d]
        /\ stop_pc' = "waiters" => FALSE
    BY <1>37 DEF StopReschedule, TypeOK, DocsTypeOK
  <2>3. Range(pending_reschedules') = {} BY <1>37 DEF StopReschedule, Range
  <2> QED BY <2>1, <2>2, <2>3 DEF Announcing, AnnouncedFirst, Woken
<1>38. CASE StopRender
  <2>1. UNCHANGED <<waking, pending_reschedules, ticket, rs, rs_doc, waiters, announced,
      cancelled>>
        /\ stop_todo' = space_waiters /\ space_waiters' = {}
    BY <1>38 DEF StopRender, StopClose
  <2> QED BY <2>1 DEF Announcing, AnnouncedFirst, Woken
<1>39. CASE StopInference
  <2>1. UNCHANGED <<waking, pending_reschedules, ticket, rs, rs_doc, space_waiters, waiters,
      announced>>
    BY <1>39 DEF StopInference, StopClose
  <2>2. /\ \A d \in Docs : cancelled[d] => cancelled'[d]
        /\ stop_pc' = "waiters" => stop_todo' \subseteq stop_todo /\ stop_pc = "waiters"
    BY <1>39 DEF StopInference, StopClose, TypeOK, DocsTypeOK
  <2> QED BY <2>1, <2>2 DEF Announcing, AnnouncedFirst, Woken
<1>40. CASE StopAssembly
  <2>1. UNCHANGED <<waking, pending_reschedules, ticket, rs, rs_doc, space_waiters, waiters,
      announced>>
    BY <1>40 DEF StopAssembly, StopClose
  <2>2. /\ \A d \in Docs : cancelled[d] => cancelled'[d]
        /\ stop_pc' = "waiters" => stop_todo' \subseteq stop_todo /\ stop_pc = "waiters"
    BY <1>40 DEF StopAssembly, StopClose, TypeOK, DocsTypeOK
  <2> QED BY <2>1, <2>2 DEF Announcing, AnnouncedFirst, Woken
<1>41. CASE StopFail
  <2>1. UNCHANGED <<waking, pending_reschedules, ticket, rs, rs_doc, space_waiters, waiters,
      announced>>
    BY <1>41 DEF StopFail, Fail
  <2>2. /\ \A d \in Docs : cancelled[d] => cancelled'[d]
        /\ stop_pc' = "waiters" => stop_todo' \subseteq stop_todo /\ stop_pc = "waiters"
    BY <1>41 DEF StopFail, Fail, TypeOK, DocsTypeOK
  <2> QED BY <2>1, <2>2 DEF Announcing, AnnouncedFirst, Woken
<1>42. CASE StopAbort
  <2>1. UNCHANGED <<waking, pending_reschedules, ticket, rs, rs_doc, space_waiters, waiters,
      announced>>
    BY <1>42 DEF StopAbort, CancelSource
  <2>2. /\ \A d \in Docs : cancelled[d] => cancelled'[d]
        /\ stop_pc' = "waiters" => stop_todo' \subseteq stop_todo /\ stop_pc = "waiters"
    BY <1>42 DEF StopAbort, CancelSource, TypeOK, DocsTypeOK
  <2> QED BY <2>1, <2>2 DEF Announcing, AnnouncedFirst, Woken
<1>43. CASE StopJoin
  <2>1. UNCHANGED <<waking, pending_reschedules, ticket, rs, rs_doc, space_waiters, waiters,
      announced>>
    BY <1>43 DEF StopJoin
  <2>2. /\ \A d \in Docs : cancelled[d] => cancelled'[d]
        /\ stop_pc' = "waiters" => stop_todo' \subseteq stop_todo /\ stop_pc = "waiters"
    BY <1>43 DEF StopJoin, TypeOK, DocsTypeOK
  <2> QED BY <2>1, <2>2 DEF Announcing, AnnouncedFirst, Woken
<1>44. CASE StopDone
  <2>1. UNCHANGED <<waking, pending_reschedules, ticket, rs, rs_doc, space_waiters, waiters,
      announced>>
    BY <1>44 DEF StopDone
  <2>2. /\ \A d \in Docs : cancelled[d] => cancelled'[d]
        /\ stop_pc' = "waiters" => stop_todo' \subseteq stop_todo /\ stop_pc = "waiters"
    BY <1>44 DEF StopDone, TypeOK, DocsTypeOK
  <2> QED BY <2>1, <2>2 DEF Announcing, AnnouncedFirst, Woken
<1>45. ASSUME NEW x \in Docs, StopWaiter(x) PROVE AnnouncedFirst'
  <2>1. /\ UNCHANGED <<pending_reschedules, ticket, rs, rs_doc, space_waiters, waiters, stop_pc,
           announced, cancelled>>
        /\ waking' \subseteq waking \cup {x} /\ stop_todo' \subseteq stop_todo
    BY <1>45 DEF StopWaiter, queue_reschedule
  <2>2. announced[x] BY <1>45 DEF StopWaiter, Announcing, AnnouncedFirst
  <2> QED BY <2>1, <2>2 DEF Announcing, AnnouncedFirst, Woken
<1>46. ASSUME NEW x \in Docs, StopExamine(x) PROVE AnnouncedFirst'
  <2>1. UNCHANGED <<waking, pending_reschedules, ticket, rs, rs_doc, space_waiters, waiters,
      announced>>
    BY <1>46 DEF StopExamine
  <2>2. /\ \A d \in Docs : cancelled[d] => cancelled'[d]
        /\ stop_pc' = "waiters" => stop_todo' \subseteq stop_todo /\ stop_pc = "waiters"
    BY <1>46 DEF StopExamine, TypeOK, DocsTypeOK
  <2> QED BY <2>1, <2>2 DEF Announcing, AnnouncedFirst, Woken
<1>47. ASSUME NEW x \in Docs, StopAbandon(x) PROVE AnnouncedFirst'
  <2>1. UNCHANGED <<waking, pending_reschedules, ticket, rs, rs_doc, space_waiters, waiters,
      announced>>
    BY <1>47 DEF StopAbandon, Fail, CancelSource, finish_request
  <2>2. /\ \A d \in Docs : cancelled[d] => cancelled'[d]
        /\ stop_pc' = "waiters" => stop_todo' \subseteq stop_todo /\ stop_pc = "waiters"
    BY <1>47 DEF StopAbandon, Fail, CancelSource, finish_request, TypeOK, DocsTypeOK
  <2> QED BY <2>1, <2>2 DEF Announcing, AnnouncedFirst, Woken
<1>48. CASE UNCHANGED vars
  BY <1>48 DEF vars, Announcing, AnnouncedFirst, Woken
<1> QED BY StepCases, <1>1, <1>2, <1>3, <1>4, <1>5, <1>6, <1>7, <1>8, <1>9, <1>10, <1>11, <1>12,
    <1>13, <1>14, <1>15, <1>16, <1>17, <1>18, <1>19, <1>20, <1>21, <1>22, <1>23, <1>24, <1>25,
    <1>26, <1>27, <1>28, <1>29, <1>30, <1>31, <1>32, <1>33, <1>34, <1>35, <1>36, <1>37, <1>38,
    <1>39, <1>40, <1>41, <1>42, <1>43, <1>44, <1>45, <1>46, <1>47, <1>48
\* Only an announced document's pages are pushed.
LEMMA AnnouncedPagesStep ==
  ASSUME TypeOK, HoldsJob, Lifecycle, Announcing, [Next]_vars
  PROVE  AnnouncedPages'
<1> USE Roles
<1>1. ASSUME NEW x \in Docs, Submit(x) PROVE AnnouncedPages'
  <2>1. UNCHANGED <<render, inference, assembly, announced>> BY <1>1 DEF Submit
  <2>2. \A w \in Workers : job'[w] = job[w] \/ job'[w] = NoDoc
    BY <1>1 DEF Submit, TypeOK, ThreadsTypeOK
  <2> QED BY <2>1, <2>2, SchedulerAssumption DEF Announcing, AnnouncedPages
<1>2. ASSUME NEW x \in Docs, TicketCancel(x) PROVE AnnouncedPages'
  <2>1. UNCHANGED <<render, inference, assembly, announced>> BY <1>2 DEF TicketCancel
  <2>2. \A w \in Workers : job'[w] = job[w] \/ job'[w] = NoDoc
    BY <1>2 DEF TicketCancel, TypeOK, ThreadsTypeOK
  <2> QED BY <2>1, <2>2, SchedulerAssumption DEF Announcing, AnnouncedPages
<1>3. ASSUME NEW x \in Docs, TicketAbort(x) PROVE AnnouncedPages'
  <2>1. UNCHANGED <<render, inference, assembly, announced>> BY <1>3 DEF TicketAbort,
      CancelSource
  <2>2. \A w \in Workers : job'[w] = job[w] \/ job'[w] = NoDoc
    BY <1>3 DEF TicketAbort, CancelSource, TypeOK, ThreadsTypeOK
  <2> QED BY <2>1, <2>2, SchedulerAssumption DEF Announcing, AnnouncedPages
<1>4. ASSUME NEW x \in Docs, TicketRelease(x) PROVE AnnouncedPages'
  <2>1. UNCHANGED <<render, inference, assembly, announced>> BY <1>4 DEF TicketRelease,
      release_slots
  <2>2. \A w \in Workers : job'[w] = job[w] \/ job'[w] = NoDoc
    BY <1>4 DEF TicketRelease, release_slots, TypeOK, ThreadsTypeOK
  <2> QED BY <2>1, <2>2, SchedulerAssumption DEF Announcing, AnnouncedPages
<1>5. ASSUME NEW x \in Docs, TicketWake(x) PROVE AnnouncedPages'
  <2>1. UNCHANGED <<render, inference, assembly, announced>> BY <1>5 DEF TicketWake,
      queue_reschedule
  <2>2. \A w \in Workers : job'[w] = job[w] \/ job'[w] = NoDoc
    BY <1>5 DEF TicketWake, queue_reschedule, TypeOK, ThreadsTypeOK
  <2> QED BY <2>1, <2>2, SchedulerAssumption DEF Announcing, AnnouncedPages
<1>6. ASSUME NEW x \in Docs, EnqueueReschedule(x) PROVE AnnouncedPages'
  <2>1. UNCHANGED <<render, inference, assembly, announced>> BY <1>6 DEF EnqueueReschedule
  <2>2. \A w \in Workers : job'[w] = job[w] \/ job'[w] = NoDoc
    BY <1>6 DEF EnqueueReschedule, TypeOK, ThreadsTypeOK
  <2> QED BY <2>1, <2>2, SchedulerAssumption DEF Announcing, AnnouncedPages
<1>7. ASSUME NEW t \in Openers, OpenerPop(t) PROVE AnnouncedPages'
  <2>1. UNCHANGED <<render, inference, assembly, announced>> BY <1>7 DEF OpenerPop
  <2>2. \A w \in Workers : job'[w] = job[w] BY <1>7 DEF OpenerPop, TypeOK, ThreadsTypeOK
  <2> QED BY <2>1, <2>2 DEF Announcing, AnnouncedPages
<1>8. ASSUME NEW t \in Openers, OpenerCheck(t) PROVE AnnouncedPages'
  <2>1. UNCHANGED <<render, inference, assembly, announced>> BY <1>8 DEF OpenerCheck,
      finish_request, Drop, Goto
  <2>2. \A w \in Workers : job'[w] = job[w] \/ job'[w] = NoDoc
    BY <1>8 DEF OpenerCheck, finish_request, Drop, Goto, TypeOK, ThreadsTypeOK
  <2> QED BY <2>1, <2>2, SchedulerAssumption DEF Announcing, AnnouncedPages
<1>9. ASSUME NEW t \in Openers, OpenerPublish(t) PROVE AnnouncedPages'
  <2>1. UNCHANGED <<render, inference, assembly, announced>> BY <1>9 DEF OpenerPublish, Goto
  <2>2. \A w \in Workers : job'[w] = job[w] \/ job'[w] = NoDoc
    BY <1>9 DEF OpenerPublish, Goto, TypeOK, ThreadsTypeOK
  <2> QED BY <2>1, <2>2, SchedulerAssumption DEF Announcing, AnnouncedPages
<1>10. ASSUME NEW t \in Openers, OpenerRecheck(t) PROVE AnnouncedPages'
  <2>1. UNCHANGED <<render, inference, assembly, announced>> BY <1>10 DEF OpenerRecheck, Goto
  <2>2. \A w \in Workers : job'[w] = job[w] \/ job'[w] = NoDoc
    BY <1>10 DEF OpenerRecheck, Goto, TypeOK, ThreadsTypeOK
  <2> QED BY <2>1, <2>2, SchedulerAssumption DEF Announcing, AnnouncedPages
<1>11. ASSUME NEW t \in Openers, OpenerSize(t) PROVE AnnouncedPages'
  <2>1. UNCHANGED <<render, inference, assembly, announced>> BY <1>11 DEF OpenerSize, Goto
  <2>2. \A w \in Workers : job'[w] = job[w] \/ job'[w] = NoDoc
    BY <1>11 DEF OpenerSize, Goto, TypeOK, ThreadsTypeOK
  <2> QED BY <2>1, <2>2, SchedulerAssumption DEF Announcing, AnnouncedPages
<1>12. ASSUME NEW t \in Openers, OpenerAnnounce(t) PROVE AnnouncedPages'
  <2>1. UNCHANGED <<render, inference, assembly, job>> BY <1>12 DEF OpenerAnnounce
  <2>2. \A d \in Docs : announced[d] => announced'[d] BY <1>12 DEF OpenerAnnounce, TypeOK,
      SeenTypeOK
  <2> QED BY <2>1, <2>2, QueuedAre DEF Announcing, AnnouncedPages
<1>13. ASSUME NEW t \in Openers, OpenerWake(t) PROVE AnnouncedPages'
  <2>1. UNCHANGED <<render, inference, assembly, announced>> BY <1>13 DEF OpenerWake,
      queue_reschedule, Drop, Goto
  <2>2. \A w \in Workers : job'[w] = job[w] \/ job'[w] = NoDoc
    BY <1>13 DEF OpenerWake, queue_reschedule, Drop, Goto, TypeOK, ThreadsTypeOK
  <2> QED BY <2>1, <2>2, SchedulerAssumption DEF Announcing, AnnouncedPages
<1>14. ASSUME NEW t \in Openers, OpenerSettle(t) PROVE AnnouncedPages'
  <2>1. UNCHANGED <<render, inference, assembly, announced>> BY <1>14 DEF OpenerSettle,
      finish_request, queue_reschedule, Drop, Goto
  <2>2. \A w \in Workers : job'[w] = job[w] \/ job'[w] = NoDoc
    BY <1>14 DEF OpenerSettle, finish_request, queue_reschedule, Drop, Goto, TypeOK,
        ThreadsTypeOK
  <2> QED BY <2>1, <2>2, SchedulerAssumption DEF Announcing, AnnouncedPages
<1>15. ASSUME NEW t \in Threads, ThreadFail(t) PROVE AnnouncedPages'
  <2>1. UNCHANGED <<render, inference, assembly, announced>> BY <1>15 DEF ThreadFail, Fail, Goto
  <2>2. \A w \in Workers : job'[w] = job[w] \/ job'[w] = NoDoc
    BY <1>15 DEF ThreadFail, Fail, Goto, TypeOK, ThreadsTypeOK
  <2> QED BY <2>1, <2>2, SchedulerAssumption DEF Announcing, AnnouncedPages
<1>16. ASSUME NEW t \in Threads, ThreadAbort(t) PROVE AnnouncedPages'
  <2>1. UNCHANGED <<render, inference, assembly, announced>> BY <1>16 DEF ThreadAbort,
      CancelSource, Goto
  <2>2. \A w \in Workers : job'[w] = job[w] \/ job'[w] = NoDoc
    BY <1>16 DEF ThreadAbort, CancelSource, Goto, TypeOK, ThreadsTypeOK
  <2> QED BY <2>1, <2>2, SchedulerAssumption DEF Announcing, AnnouncedPages
<1>17. CASE RescheduleNext
  <2>1. UNCHANGED <<render, inference, assembly, announced>> BY <1>17 DEF RescheduleNext
  <2>2. \A w \in Workers : job'[w] = job[w] \/ job'[w] = NoDoc
    BY <1>17 DEF RescheduleNext, TypeOK, ThreadsTypeOK
  <2> QED BY <2>1, <2>2, SchedulerAssumption DEF Announcing, AnnouncedPages
<1>18. CASE RescheduleClear
  <2>1. UNCHANGED <<render, inference, assembly, announced>> BY <1>18 DEF RescheduleClear
  <2>2. \A w \in Workers : job'[w] = job[w] \/ job'[w] = NoDoc
    BY <1>18 DEF RescheduleClear, TypeOK, ThreadsTypeOK
  <2> QED BY <2>1, <2>2, SchedulerAssumption DEF Announcing, AnnouncedPages
<1>19. CASE ScheduleEnter
  <2>1. UNCHANGED <<render, inference, assembly, announced>> BY <1>19 DEF ScheduleEnter,
      RescheduleDone
  <2>2. \A w \in Workers : job'[w] = job[w] \/ job'[w] = NoDoc
    BY <1>19 DEF ScheduleEnter, RescheduleDone, TypeOK, ThreadsTypeOK
  <2> QED BY <2>1, <2>2, SchedulerAssumption DEF Announcing, AnnouncedPages
<1>20. CASE SchedulePush
  <2>1. UNCHANGED <<inference, assembly, job, announced>> /\ rs_doc \in Docs /\
      announced[rs_doc]
    BY <1>20 DEF SchedulePush, HoldsJob, Announcing, AnnouncedFirst
  <2>2. CASE PushPage(rs_doc) /\ next_page[rs_doc] <= total_pages[rs_doc]
    <3>1. <<rs_doc, next_page[rs_doc]>> \in Jobs /\ render \in Seq(Jobs)
      BY <2>1, <2>2, SchedulerAssumption DEF Jobs, Pages, TypeOK, DocsTypeOK, QueuesTypeOK
    <3>2. Range(render') = Range(render) \cup {<<rs_doc, next_page[rs_doc]>>}
      BY <2>2, <3>1, AppendElements DEF PushPage
    <3> QED BY <2>1, <3>2 DEF Announcing, AnnouncedPages
  <2>3. CASE UNCHANGED render BY <2>1, <2>3 DEF Announcing, AnnouncedPages
  <2> QED BY <1>20, <2>2, <2>3 DEF SchedulePush
<1>21. CASE ScheduleCut
  <2>1. UNCHANGED <<render, inference, assembly, announced>> BY <1>21 DEF ScheduleCut,
      CountDown, finish_request, RescheduleDone
  <2>2. \A w \in Workers : job'[w] = job[w] \/ job'[w] = NoDoc
    BY <1>21 DEF ScheduleCut, CountDown, finish_request, RescheduleDone, TypeOK, ThreadsTypeOK
  <2> QED BY <2>1, <2>2, SchedulerAssumption DEF Announcing, AnnouncedPages
<1>22. ASSUME NEW t \in Renderers, RenderPop(t) PROVE AnnouncedPages'
  <2>1. UNCHANGED <<inference, assembly, announced>> BY <1>22 DEF RenderPop
  <2>2. CASE render # <<>> /\ render' = Tail(render) /\ Take(t, Head(render))
    <3>1. render \in Seq(Jobs) BY DEF TypeOK, QueuesTypeOK
    <3>2. Range(render) = Range(render') \cup {Head(render)} BY <2>2, <3>1, TailElements
    <3>3. announced[Head(render)[1]] BY <3>2 DEF Announcing, AnnouncedPages
    <3>4. job'[t] = Head(render)[1] /\ \A w \in Workers : w # t => job'[w] = job[w]
      BY <2>2 DEF Take, TypeOK, ThreadsTypeOK
    <3> QED BY <2>1, <3>2, <3>3, <3>4 DEF Announcing, AnnouncedPages
  <2>3. CASE UNCHANGED <<job, render>> BY <2>1, <2>3 DEF Announcing, AnnouncedPages
  <2> QED BY <1>22, <2>2, <2>3 DEF RenderPop
<1>23. ASSUME NEW t \in Renderers, RenderNotify(t) PROVE AnnouncedPages'
  <2>1. UNCHANGED <<render, inference, assembly, announced>> BY <1>23 DEF RenderNotify,
      queue_reschedule, Goto
  <2>2. \A w \in Workers : job'[w] = job[w] \/ job'[w] = NoDoc
    BY <1>23 DEF RenderNotify, queue_reschedule, Goto, TypeOK, ThreadsTypeOK
  <2> QED BY <2>1, <2>2, SchedulerAssumption DEF Announcing, AnnouncedPages
<1>24. ASSUME NEW t \in Renderers, RenderWork(t) PROVE AnnouncedPages'
  <2>1. UNCHANGED <<render, inference, assembly, announced>> BY <1>24 DEF RenderWork, Step, Goto
  <2>2. \A w \in Workers : job'[w] = job[w] \/ job'[w] = NoDoc
    BY <1>24 DEF RenderWork, Step, Goto, TypeOK, ThreadsTypeOK
  <2> QED BY <2>1, <2>2, SchedulerAssumption DEF Announcing, AnnouncedPages
<1>25. ASSUME NEW t \in Recognizers, RecognizePop(t) PROVE AnnouncedPages'
  <2>1. UNCHANGED <<render, assembly, announced>> BY <1>25 DEF RecognizePop
  <2>2. CASE inference # <<>> /\ inference' = Tail(inference) /\ Take(t, Head(inference))
    <3>1. inference \in Seq(Jobs) BY DEF TypeOK, QueuesTypeOK
    <3>2. Range(inference) = Range(inference') \cup {Head(inference)} BY <2>2, <3>1,
        TailElements
    <3>3. announced[Head(inference)[1]] BY <3>2 DEF Announcing, AnnouncedPages
    <3>4. job'[t] = Head(inference)[1] /\ \A w \in Workers : w # t => job'[w] = job[w]
      BY <2>2 DEF Take, TypeOK, ThreadsTypeOK
    <3> QED BY <2>1, <3>2, <3>3, <3>4 DEF Announcing, AnnouncedPages
  <2>3. CASE UNCHANGED <<job, inference>> BY <2>1, <2>3 DEF Announcing, AnnouncedPages
  <2> QED BY <1>25, <2>2, <2>3 DEF RecognizePop
<1>26. ASSUME NEW t \in Recognizers, RecognizeWork(t) PROVE AnnouncedPages'
  <2>1. UNCHANGED <<render, inference, assembly, announced>> BY <1>26 DEF RecognizeWork, Step,
      Goto
  <2>2. \A w \in Workers : job'[w] = job[w] \/ job'[w] = NoDoc
    BY <1>26 DEF RecognizeWork, Step, Goto, TypeOK, ThreadsTypeOK
  <2> QED BY <2>1, <2>2, SchedulerAssumption DEF Announcing, AnnouncedPages
<1>27. ASSUME NEW t \in Assemblers, AssemblePop(t) PROVE AnnouncedPages'
  <2>1. UNCHANGED <<render, inference, announced>> BY <1>27 DEF AssemblePop
  <2>2. CASE assembly # <<>> /\ assembly' = Tail(assembly) /\ Take(t, Head(assembly))
    <3>1. assembly \in Seq(Jobs) BY DEF TypeOK, QueuesTypeOK
    <3>2. Range(assembly) = Range(assembly') \cup {Head(assembly)} BY <2>2, <3>1, TailElements
    <3>3. announced[Head(assembly)[1]] BY <3>2 DEF Announcing, AnnouncedPages
    <3>4. job'[t] = Head(assembly)[1] /\ \A w \in Workers : w # t => job'[w] = job[w]
      BY <2>2 DEF Take, TypeOK, ThreadsTypeOK
    <3> QED BY <2>1, <3>2, <3>3, <3>4 DEF Announcing, AnnouncedPages
  <2>3. CASE UNCHANGED <<job, assembly>> BY <2>1, <2>3 DEF Announcing, AnnouncedPages
  <2> QED BY <1>27, <2>2, <2>3 DEF AssemblePop
<1>28. ASSUME NEW t \in Assemblers, Deliver(t) PROVE AnnouncedPages'
  <2>1. UNCHANGED <<render, inference, assembly, announced>> BY <1>28 DEF Deliver, Goto
  <2>2. \A w \in Workers : job'[w] = job[w] \/ job'[w] = NoDoc
    BY <1>28 DEF Deliver, Goto, TypeOK, ThreadsTypeOK
  <2> QED BY <2>1, <2>2, SchedulerAssumption DEF Announcing, AnnouncedPages
<1>29. ASSUME NEW t \in Assemblers, ReturnCredit(t) PROVE AnnouncedPages'
  <2>1. UNCHANGED <<render, inference, assembly, announced>> BY <1>29 DEF ReturnCredit,
      release_slots, Goto
  <2>2. \A w \in Workers : job'[w] = job[w] \/ job'[w] = NoDoc
    BY <1>29 DEF ReturnCredit, release_slots, Goto, TypeOK, ThreadsTypeOK
  <2> QED BY <2>1, <2>2, SchedulerAssumption DEF Announcing, AnnouncedPages
<1>30. ASSUME NEW t \in Assemblers, WakeAfterCredit(t) PROVE AnnouncedPages'
  <2>1. UNCHANGED <<render, inference, assembly, announced>> BY <1>30 DEF WakeAfterCredit,
      queue_reschedule, Goto
  <2>2. \A w \in Workers : job'[w] = job[w] \/ job'[w] = NoDoc
    BY <1>30 DEF WakeAfterCredit, queue_reschedule, Goto, TypeOK, ThreadsTypeOK
  <2> QED BY <2>1, <2>2, SchedulerAssumption DEF Announcing, AnnouncedPages
<1>31. ASSUME NEW t \in Renderers, PushInference(t) PROVE AnnouncedPages'
  <2>1. UNCHANGED <<render, assembly, announced>> BY <1>31 DEF PushInference
  <2>2. CASE inference' = Append(inference, <<job[t], page[t]>>) /\ Drop(t)
    <3>1. job[t] \in Docs /\ page[t] \in Pages BY <1>31 DEF PushInference, HoldsJob
    <3>2. <<job[t], page[t]>> \in Jobs /\ inference \in Seq(Jobs)
      BY <3>1 DEF Jobs, TypeOK, QueuesTypeOK
    <3>3. Range(inference') = Range(inference) \cup {<<job[t], page[t]>>} BY <2>2, <3>2,
        AppendElements
    <3>4. job'[t] = NoDoc /\ \A w \in Workers : w # t => job'[w] = job[w]
      BY <2>2 DEF Drop, TypeOK, ThreadsTypeOK
    <3> QED BY <2>1, <3>1, <3>3, <3>4, SchedulerAssumption DEF Announcing, AnnouncedPages
  <2>3. CASE UNCHANGED <<job, inference>> BY <2>1, <2>3 DEF Announcing, AnnouncedPages
  <2> QED BY <1>31, <2>2, <2>3 DEF PushInference
<1>32. ASSUME NEW t \in Workers, PushAssembly(t) PROVE AnnouncedPages'
  <2>1. UNCHANGED <<render, inference, announced>> BY <1>32 DEF PushAssembly
  <2>2. CASE assembly' = Append(assembly, <<job[t], page[t]>>) /\ Drop(t)
    <3>1. job[t] \in Docs /\ page[t] \in Pages BY <1>32 DEF PushAssembly, HoldsJob
    <3>2. <<job[t], page[t]>> \in Jobs /\ assembly \in Seq(Jobs)
      BY <3>1 DEF Jobs, TypeOK, QueuesTypeOK
    <3>3. Range(assembly') = Range(assembly) \cup {<<job[t], page[t]>>} BY <2>2, <3>2,
        AppendElements
    <3>4. job'[t] = NoDoc /\ \A w \in Workers : w # t => job'[w] = job[w]
      BY <2>2 DEF Drop, TypeOK, ThreadsTypeOK
    <3> QED BY <2>1, <3>1, <3>3, <3>4, SchedulerAssumption DEF Announcing, AnnouncedPages
  <2>3. CASE UNCHANGED <<job, assembly>> BY <2>1, <2>3 DEF Announcing, AnnouncedPages
  <2> QED BY <1>32, <2>2, <2>3 DEF PushAssembly
<1>33. ASSUME NEW t \in Workers, CheckCancelled(t) PROVE AnnouncedPages'
  <2>1. UNCHANGED <<render, inference, assembly, announced>> BY <1>33 DEF CheckCancelled, Step,
      Goto
  <2>2. \A w \in Workers : job'[w] = job[w] \/ job'[w] = NoDoc
    BY <1>33 DEF CheckCancelled, Step, Goto, TypeOK, ThreadsTypeOK
  <2> QED BY <2>1, <2>2, SchedulerAssumption DEF Announcing, AnnouncedPages
<1>34. ASSUME NEW t \in Workers, CompletePage(t) PROVE AnnouncedPages'
  <2>1. UNCHANGED <<render, inference, assembly, announced>> BY <1>34 DEF CompletePage,
      queue_reschedule, Goto
  <2>2. \A w \in Workers : job'[w] = job[w] \/ job'[w] = NoDoc
    BY <1>34 DEF CompletePage, queue_reschedule, Goto, TypeOK, ThreadsTypeOK
  <2> QED BY <2>1, <2>2, SchedulerAssumption DEF Announcing, AnnouncedPages
<1>35. ASSUME NEW t \in Workers, CountPage(t) PROVE AnnouncedPages'
  <2>1. UNCHANGED <<render, inference, assembly, announced>> BY <1>35 DEF CountPage, CountDown,
      finish_request, Drop, Goto
  <2>2. \A w \in Workers : job'[w] = job[w] \/ job'[w] = NoDoc
    BY <1>35 DEF CountPage, CountDown, finish_request, Drop, Goto, TypeOK, ThreadsTypeOK
  <2> QED BY <2>1, <2>2, SchedulerAssumption DEF Announcing, AnnouncedPages
<1>36. CASE StopDocuments
  <2>1. UNCHANGED <<render, inference, assembly, announced>> BY <1>36 DEF StopDocuments,
      StopClose
  <2>2. \A w \in Workers : job'[w] = job[w] \/ job'[w] = NoDoc
    BY <1>36 DEF StopDocuments, StopClose, TypeOK, ThreadsTypeOK
  <2> QED BY <2>1, <2>2, SchedulerAssumption DEF Announcing, AnnouncedPages
<1>37. CASE StopReschedule
  <2>1. UNCHANGED <<render, inference, assembly, announced>> BY <1>37 DEF StopReschedule
  <2>2. \A w \in Workers : job'[w] = job[w] \/ job'[w] = NoDoc
    BY <1>37 DEF StopReschedule, TypeOK, ThreadsTypeOK
  <2> QED BY <2>1, <2>2, SchedulerAssumption DEF Announcing, AnnouncedPages
<1>38. CASE StopRender
  <2>1. UNCHANGED <<render, inference, assembly, announced>> BY <1>38 DEF StopRender, StopClose
  <2>2. \A w \in Workers : job'[w] = job[w] \/ job'[w] = NoDoc
    BY <1>38 DEF StopRender, StopClose, TypeOK, ThreadsTypeOK
  <2> QED BY <2>1, <2>2, SchedulerAssumption DEF Announcing, AnnouncedPages
<1>39. CASE StopInference
  <2>1. UNCHANGED <<render, inference, assembly, announced>> BY <1>39 DEF StopInference,
      StopClose
  <2>2. \A w \in Workers : job'[w] = job[w] \/ job'[w] = NoDoc
    BY <1>39 DEF StopInference, StopClose, TypeOK, ThreadsTypeOK
  <2> QED BY <2>1, <2>2, SchedulerAssumption DEF Announcing, AnnouncedPages
<1>40. CASE StopAssembly
  <2>1. UNCHANGED <<render, inference, assembly, announced>> BY <1>40 DEF StopAssembly,
      StopClose
  <2>2. \A w \in Workers : job'[w] = job[w] \/ job'[w] = NoDoc
    BY <1>40 DEF StopAssembly, StopClose, TypeOK, ThreadsTypeOK
  <2> QED BY <2>1, <2>2, SchedulerAssumption DEF Announcing, AnnouncedPages
<1>41. CASE StopFail
  <2>1. UNCHANGED <<render, inference, assembly, announced>> BY <1>41 DEF StopFail, Fail
  <2>2. \A w \in Workers : job'[w] = job[w] \/ job'[w] = NoDoc
    BY <1>41 DEF StopFail, Fail, TypeOK, ThreadsTypeOK
  <2> QED BY <2>1, <2>2, SchedulerAssumption DEF Announcing, AnnouncedPages
<1>42. CASE StopAbort
  <2>1. UNCHANGED <<render, inference, assembly, announced>> BY <1>42 DEF StopAbort,
      CancelSource
  <2>2. \A w \in Workers : job'[w] = job[w] \/ job'[w] = NoDoc
    BY <1>42 DEF StopAbort, CancelSource, TypeOK, ThreadsTypeOK
  <2> QED BY <2>1, <2>2, SchedulerAssumption DEF Announcing, AnnouncedPages
<1>43. CASE StopJoin
  <2>1. UNCHANGED <<render, inference, assembly, announced>> BY <1>43 DEF StopJoin
  <2>2. \A w \in Workers : job'[w] = job[w] \/ job'[w] = NoDoc
    BY <1>43 DEF StopJoin, TypeOK, ThreadsTypeOK
  <2> QED BY <2>1, <2>2, SchedulerAssumption DEF Announcing, AnnouncedPages
<1>44. CASE StopDone
  <2>1. UNCHANGED <<render, inference, assembly, announced>> BY <1>44 DEF StopDone
  <2>2. \A w \in Workers : job'[w] = job[w] \/ job'[w] = NoDoc
    BY <1>44 DEF StopDone, TypeOK, ThreadsTypeOK
  <2> QED BY <2>1, <2>2, SchedulerAssumption DEF Announcing, AnnouncedPages
<1>45. ASSUME NEW x \in Docs, StopWaiter(x) PROVE AnnouncedPages'
  <2>1. UNCHANGED <<render, inference, assembly, announced>> BY <1>45 DEF StopWaiter,
      queue_reschedule
  <2>2. \A w \in Workers : job'[w] = job[w] \/ job'[w] = NoDoc
    BY <1>45 DEF StopWaiter, queue_reschedule, TypeOK, ThreadsTypeOK
  <2> QED BY <2>1, <2>2, SchedulerAssumption DEF Announcing, AnnouncedPages
<1>46. ASSUME NEW x \in Docs, StopExamine(x) PROVE AnnouncedPages'
  <2>1. UNCHANGED <<render, inference, assembly, announced>> BY <1>46 DEF StopExamine
  <2>2. \A w \in Workers : job'[w] = job[w] \/ job'[w] = NoDoc
    BY <1>46 DEF StopExamine, TypeOK, ThreadsTypeOK
  <2> QED BY <2>1, <2>2, SchedulerAssumption DEF Announcing, AnnouncedPages
<1>47. ASSUME NEW x \in Docs, StopAbandon(x) PROVE AnnouncedPages'
  <2>1. UNCHANGED <<render, inference, assembly, announced>> BY <1>47 DEF StopAbandon, Fail,
      CancelSource, finish_request
  <2>2. \A w \in Workers : job'[w] = job[w] \/ job'[w] = NoDoc
    BY <1>47 DEF StopAbandon, Fail, CancelSource, finish_request, TypeOK, ThreadsTypeOK
  <2> QED BY <2>1, <2>2, SchedulerAssumption DEF Announcing, AnnouncedPages
<1>48. CASE UNCHANGED vars
  BY <1>48 DEF vars, Announcing, AnnouncedPages
<1> QED BY StepCases, <1>1, <1>2, <1>3, <1>4, <1>5, <1>6, <1>7, <1>8, <1>9, <1>10, <1>11, <1>12,
    <1>13, <1>14, <1>15, <1>16, <1>17, <1>18, <1>19, <1>20, <1>21, <1>22, <1>23, <1>24, <1>25,
    <1>26, <1>27, <1>28, <1>29, <1>30, <1>31, <1>32, <1>33, <1>34, <1>35, <1>36, <1>37, <1>38,
    <1>39, <1>40, <1>41, <1>42, <1>43, <1>44, <1>45, <1>46, <1>47, <1>48
\* on_finish runs where the document leaves the registry, and a failure cancels.
LEMMA OutcomeSetStep ==
  ASSUME TypeOK, HoldsJob, Lifecycle, Announcing, [Next]_vars
  PROVE  OutcomeSet'
<1> USE Roles
<1>1. ASSUME NEW x \in Docs, Submit(x) PROVE OutcomeSet'
  <2>1. UNCHANGED <<finish_called, outcome, failure>> BY <1>1 DEF Submit
  <2>2. \A d \in Docs : cancelled[d] => cancelled'[d] BY <1>1 DEF Submit, TypeOK, DocsTypeOK
  <2> QED BY <2>1, <2>2 DEF Announcing, OutcomeSet
<1>2. ASSUME NEW x \in Docs, TicketCancel(x) PROVE OutcomeSet'
  <2>1. UNCHANGED <<finish_called, outcome, failure>> BY <1>2 DEF TicketCancel
  <2>2. \A d \in Docs : cancelled[d] => cancelled'[d] BY <1>2 DEF TicketCancel, TypeOK,
      DocsTypeOK
  <2> QED BY <2>1, <2>2 DEF Announcing, OutcomeSet
<1>3. ASSUME NEW x \in Docs, TicketAbort(x) PROVE OutcomeSet'
  <2>1. UNCHANGED <<finish_called, outcome, failure>> BY <1>3 DEF TicketAbort, CancelSource
  <2>2. \A d \in Docs : cancelled[d] => cancelled'[d] BY <1>3 DEF TicketAbort, CancelSource,
      TypeOK, DocsTypeOK
  <2> QED BY <2>1, <2>2 DEF Announcing, OutcomeSet
<1>4. ASSUME NEW x \in Docs, TicketRelease(x) PROVE OutcomeSet'
  <2>1. UNCHANGED <<finish_called, outcome, failure>> BY <1>4 DEF TicketRelease, release_slots
  <2>2. \A d \in Docs : cancelled[d] => cancelled'[d] BY <1>4 DEF TicketRelease, release_slots,
      TypeOK, DocsTypeOK
  <2> QED BY <2>1, <2>2 DEF Announcing, OutcomeSet
<1>5. ASSUME NEW x \in Docs, TicketWake(x) PROVE OutcomeSet'
  <2>1. UNCHANGED <<finish_called, outcome, failure>> BY <1>5 DEF TicketWake, queue_reschedule
  <2>2. \A d \in Docs : cancelled[d] => cancelled'[d] BY <1>5 DEF TicketWake, queue_reschedule,
      TypeOK, DocsTypeOK
  <2> QED BY <2>1, <2>2 DEF Announcing, OutcomeSet
<1>6. ASSUME NEW x \in Docs, EnqueueReschedule(x) PROVE OutcomeSet'
  <2>1. UNCHANGED <<finish_called, outcome, failure>> BY <1>6 DEF EnqueueReschedule
  <2>2. \A d \in Docs : cancelled[d] => cancelled'[d] BY <1>6 DEF EnqueueReschedule, TypeOK,
      DocsTypeOK
  <2> QED BY <2>1, <2>2 DEF Announcing, OutcomeSet
<1>7. ASSUME NEW t \in Openers, OpenerPop(t) PROVE OutcomeSet'
  <2>1. UNCHANGED <<finish_called, outcome, failure>> BY <1>7 DEF OpenerPop, Goto
  <2>2. \A d \in Docs : cancelled[d] => cancelled'[d] BY <1>7 DEF OpenerPop, Goto, TypeOK,
      DocsTypeOK
  <2> QED BY <2>1, <2>2 DEF Announcing, OutcomeSet
<1>8. ASSUME NEW t \in Openers, OpenerCheck(t) PROVE OutcomeSet'
  <2>1. UNCHANGED <<failure, cancelled>> BY <1>8 DEF OpenerCheck
  <2>2. \A d \in Docs : \/ finish_called'[d] = finish_called[d] /\ outcome'[d] = outcome[d]
                        \/ finish_called'[d] /\ outcome'[d] = failure[d]
    BY <1>8 DEF OpenerCheck, finish_request, TypeOK, DocsTypeOK, SeenTypeOK
  <2>3. \A d \in Docs : failure[d] # "pending" BY DEF TypeOK, DocsTypeOK, Failures
  <2> QED BY <2>1, <2>2, <2>3 DEF Announcing, OutcomeSet
<1>9. ASSUME NEW t \in Openers, OpenerPublish(t) PROVE OutcomeSet'
  <2>1. UNCHANGED <<finish_called, outcome, failure>> BY <1>9 DEF OpenerPublish, Goto
  <2>2. \A d \in Docs : cancelled[d] => cancelled'[d] BY <1>9 DEF OpenerPublish, Goto, TypeOK,
      DocsTypeOK
  <2> QED BY <2>1, <2>2 DEF Announcing, OutcomeSet
<1>10. ASSUME NEW t \in Openers, OpenerRecheck(t) PROVE OutcomeSet'
  <2>1. UNCHANGED <<finish_called, outcome, failure>> BY <1>10 DEF OpenerRecheck, Goto
  <2>2. \A d \in Docs : cancelled[d] => cancelled'[d] BY <1>10 DEF OpenerRecheck, Goto, TypeOK,
      DocsTypeOK
  <2> QED BY <2>1, <2>2 DEF Announcing, OutcomeSet
<1>11. ASSUME NEW t \in Openers, OpenerSize(t) PROVE OutcomeSet'
  <2>1. UNCHANGED <<finish_called, outcome, failure>> BY <1>11 DEF OpenerSize, Goto
  <2>2. \A d \in Docs : cancelled[d] => cancelled'[d] BY <1>11 DEF OpenerSize, Goto, TypeOK,
      DocsTypeOK
  <2> QED BY <2>1, <2>2 DEF Announcing, OutcomeSet
<1>12. ASSUME NEW t \in Openers, OpenerAnnounce(t) PROVE OutcomeSet'
  <2>1. UNCHANGED <<finish_called, outcome, failure>> BY <1>12 DEF OpenerAnnounce, Goto
  <2>2. \A d \in Docs : cancelled[d] => cancelled'[d] BY <1>12 DEF OpenerAnnounce, Goto, TypeOK,
      DocsTypeOK
  <2> QED BY <2>1, <2>2 DEF Announcing, OutcomeSet
<1>13. ASSUME NEW t \in Openers, OpenerWake(t) PROVE OutcomeSet'
  <2>1. UNCHANGED <<finish_called, outcome, failure>> BY <1>13 DEF OpenerWake, queue_reschedule,
      Drop, Goto
  <2>2. \A d \in Docs : cancelled[d] => cancelled'[d] BY <1>13 DEF OpenerWake, queue_reschedule,
      Drop, Goto, TypeOK, DocsTypeOK
  <2> QED BY <2>1, <2>2 DEF Announcing, OutcomeSet
<1>14. ASSUME NEW t \in Openers, OpenerSettle(t) PROVE OutcomeSet'
  <2>1. UNCHANGED <<failure, cancelled>> BY <1>14 DEF OpenerSettle
  <2>2. \A d \in Docs : \/ finish_called'[d] = finish_called[d] /\ outcome'[d] = outcome[d]
                        \/ finish_called'[d] /\ outcome'[d] = failure[d]
    BY <1>14 DEF OpenerSettle, finish_request, TypeOK, DocsTypeOK, SeenTypeOK
  <2>3. \A d \in Docs : failure[d] # "pending" BY DEF TypeOK, DocsTypeOK, Failures
  <2> QED BY <2>1, <2>2, <2>3 DEF Announcing, OutcomeSet
<1>15. ASSUME NEW t \in Threads, ThreadFail(t) PROVE OutcomeSet'
  <2>1. UNCHANGED <<finish_called, outcome>> BY <1>15 DEF ThreadFail
  <2>2. \A d \in Docs : /\ cancelled[d] => cancelled'[d]
                        /\ failure'[d] = failure[d] \/ cancelled'[d]
    BY <1>15 DEF ThreadFail, Fail, TypeOK, DocsTypeOK
  <2> QED BY <2>1, <2>2 DEF Announcing, OutcomeSet
<1>16. ASSUME NEW t \in Threads, ThreadAbort(t) PROVE OutcomeSet'
  <2>1. UNCHANGED <<finish_called, outcome, failure>> BY <1>16 DEF ThreadAbort, CancelSource,
      Goto
  <2>2. \A d \in Docs : cancelled[d] => cancelled'[d] BY <1>16 DEF ThreadAbort, CancelSource,
      Goto, TypeOK, DocsTypeOK
  <2> QED BY <2>1, <2>2 DEF Announcing, OutcomeSet
<1>17. CASE RescheduleNext
  <2>1. UNCHANGED <<finish_called, outcome, failure>> BY <1>17 DEF RescheduleNext
  <2>2. \A d \in Docs : cancelled[d] => cancelled'[d] BY <1>17 DEF RescheduleNext, TypeOK,
      DocsTypeOK
  <2> QED BY <2>1, <2>2 DEF Announcing, OutcomeSet
<1>18. CASE RescheduleClear
  <2>1. UNCHANGED <<finish_called, outcome, failure>> BY <1>18 DEF RescheduleClear
  <2>2. \A d \in Docs : cancelled[d] => cancelled'[d] BY <1>18 DEF RescheduleClear, TypeOK,
      DocsTypeOK
  <2> QED BY <2>1, <2>2 DEF Announcing, OutcomeSet
<1>19. CASE ScheduleEnter
  <2>1. UNCHANGED <<finish_called, outcome, failure>> BY <1>19 DEF ScheduleEnter, RescheduleDone
  <2>2. \A d \in Docs : cancelled[d] => cancelled'[d] BY <1>19 DEF ScheduleEnter,
      RescheduleDone, TypeOK, DocsTypeOK
  <2> QED BY <2>1, <2>2 DEF Announcing, OutcomeSet
<1>20. CASE SchedulePush
  <2>1. UNCHANGED <<finish_called, outcome, failure>> BY <1>20 DEF SchedulePush, PushPage, Park,
      RescheduleDone
  <2>2. \A d \in Docs : cancelled[d] => cancelled'[d] BY <1>20 DEF SchedulePush, PushPage, Park,
      RescheduleDone, TypeOK, DocsTypeOK
  <2> QED BY <2>1, <2>2 DEF Announcing, OutcomeSet
<1>21. CASE ScheduleCut
  <2>1. UNCHANGED <<failure, cancelled>> BY <1>21 DEF ScheduleCut
  <2>2. \A d \in Docs : \/ finish_called'[d] = finish_called[d] /\ outcome'[d] = outcome[d]
                        \/ finish_called'[d] /\ outcome'[d] = failure[d]
    BY <1>21 DEF ScheduleCut, CountDown, finish_request, TypeOK, DocsTypeOK, SeenTypeOK
  <2>3. \A d \in Docs : failure[d] # "pending" BY DEF TypeOK, DocsTypeOK, Failures
  <2> QED BY <2>1, <2>2, <2>3 DEF Announcing, OutcomeSet
<1>22. ASSUME NEW t \in Renderers, RenderPop(t) PROVE OutcomeSet'
  <2>1. UNCHANGED <<finish_called, outcome, failure>> BY <1>22 DEF RenderPop, Take, Goto
  <2>2. \A d \in Docs : cancelled[d] => cancelled'[d] BY <1>22 DEF RenderPop, Take, Goto,
      TypeOK, DocsTypeOK
  <2> QED BY <2>1, <2>2 DEF Announcing, OutcomeSet
<1>23. ASSUME NEW t \in Renderers, RenderNotify(t) PROVE OutcomeSet'
  <2>1. UNCHANGED <<finish_called, outcome, failure>> BY <1>23 DEF RenderNotify,
      queue_reschedule, Goto
  <2>2. \A d \in Docs : cancelled[d] => cancelled'[d] BY <1>23 DEF RenderNotify,
      queue_reschedule, Goto, TypeOK, DocsTypeOK
  <2> QED BY <2>1, <2>2 DEF Announcing, OutcomeSet
<1>24. ASSUME NEW t \in Renderers, RenderWork(t) PROVE OutcomeSet'
  <2>1. UNCHANGED <<finish_called, outcome, failure>> BY <1>24 DEF RenderWork, Step, Goto
  <2>2. \A d \in Docs : cancelled[d] => cancelled'[d] BY <1>24 DEF RenderWork, Step, Goto,
      TypeOK, DocsTypeOK
  <2> QED BY <2>1, <2>2 DEF Announcing, OutcomeSet
<1>25. ASSUME NEW t \in Recognizers, RecognizePop(t) PROVE OutcomeSet'
  <2>1. UNCHANGED <<finish_called, outcome, failure>> BY <1>25 DEF RecognizePop, Take, Goto
  <2>2. \A d \in Docs : cancelled[d] => cancelled'[d] BY <1>25 DEF RecognizePop, Take, Goto,
      TypeOK, DocsTypeOK
  <2> QED BY <2>1, <2>2 DEF Announcing, OutcomeSet
<1>26. ASSUME NEW t \in Recognizers, RecognizeWork(t) PROVE OutcomeSet'
  <2>1. UNCHANGED <<finish_called, outcome, failure>> BY <1>26 DEF RecognizeWork, Step, Goto
  <2>2. \A d \in Docs : cancelled[d] => cancelled'[d] BY <1>26 DEF RecognizeWork, Step, Goto,
      TypeOK, DocsTypeOK
  <2> QED BY <2>1, <2>2 DEF Announcing, OutcomeSet
<1>27. ASSUME NEW t \in Assemblers, AssemblePop(t) PROVE OutcomeSet'
  <2>1. UNCHANGED <<finish_called, outcome, failure>> BY <1>27 DEF AssemblePop, Take, Goto
  <2>2. \A d \in Docs : cancelled[d] => cancelled'[d] BY <1>27 DEF AssemblePop, Take, Goto,
      TypeOK, DocsTypeOK
  <2> QED BY <2>1, <2>2 DEF Announcing, OutcomeSet
<1>28. ASSUME NEW t \in Assemblers, Deliver(t) PROVE OutcomeSet'
  <2>1. UNCHANGED <<finish_called, outcome, failure>> BY <1>28 DEF Deliver, Goto
  <2>2. \A d \in Docs : cancelled[d] => cancelled'[d] BY <1>28 DEF Deliver, Goto, TypeOK,
      DocsTypeOK
  <2> QED BY <2>1, <2>2 DEF Announcing, OutcomeSet
<1>29. ASSUME NEW t \in Assemblers, ReturnCredit(t) PROVE OutcomeSet'
  <2>1. UNCHANGED <<finish_called, outcome, failure>> BY <1>29 DEF ReturnCredit, release_slots,
      Goto
  <2>2. \A d \in Docs : cancelled[d] => cancelled'[d] BY <1>29 DEF ReturnCredit, release_slots,
      Goto, TypeOK, DocsTypeOK
  <2> QED BY <2>1, <2>2 DEF Announcing, OutcomeSet
<1>30. ASSUME NEW t \in Assemblers, WakeAfterCredit(t) PROVE OutcomeSet'
  <2>1. UNCHANGED <<finish_called, outcome, failure>> BY <1>30 DEF WakeAfterCredit,
      queue_reschedule, Goto
  <2>2. \A d \in Docs : cancelled[d] => cancelled'[d] BY <1>30 DEF WakeAfterCredit,
      queue_reschedule, Goto, TypeOK, DocsTypeOK
  <2> QED BY <2>1, <2>2 DEF Announcing, OutcomeSet
<1>31. ASSUME NEW t \in Renderers, PushInference(t) PROVE OutcomeSet'
  <2>1. UNCHANGED <<finish_called, outcome, failure>> BY <1>31 DEF PushInference, Drop, Goto
  <2>2. \A d \in Docs : cancelled[d] => cancelled'[d] BY <1>31 DEF PushInference, Drop, Goto,
      TypeOK, DocsTypeOK
  <2> QED BY <2>1, <2>2 DEF Announcing, OutcomeSet
<1>32. ASSUME NEW t \in Workers, PushAssembly(t) PROVE OutcomeSet'
  <2>1. UNCHANGED <<finish_called, outcome, failure>> BY <1>32 DEF PushAssembly, Drop, Goto
  <2>2. \A d \in Docs : cancelled[d] => cancelled'[d] BY <1>32 DEF PushAssembly, Drop, Goto,
      TypeOK, DocsTypeOK
  <2> QED BY <2>1, <2>2 DEF Announcing, OutcomeSet
<1>33. ASSUME NEW t \in Workers, CheckCancelled(t) PROVE OutcomeSet'
  <2>1. UNCHANGED <<finish_called, outcome, failure>> BY <1>33 DEF CheckCancelled, Step, Goto
  <2>2. \A d \in Docs : cancelled[d] => cancelled'[d] BY <1>33 DEF CheckCancelled, Step, Goto,
      TypeOK, DocsTypeOK
  <2> QED BY <2>1, <2>2 DEF Announcing, OutcomeSet
<1>34. ASSUME NEW t \in Workers, CompletePage(t) PROVE OutcomeSet'
  <2>1. UNCHANGED <<finish_called, outcome, failure>> BY <1>34 DEF CompletePage,
      queue_reschedule, Goto
  <2>2. \A d \in Docs : cancelled[d] => cancelled'[d] BY <1>34 DEF CompletePage,
      queue_reschedule, Goto, TypeOK, DocsTypeOK
  <2> QED BY <2>1, <2>2 DEF Announcing, OutcomeSet
<1>35. ASSUME NEW t \in Workers, CountPage(t) PROVE OutcomeSet'
  <2>1. UNCHANGED <<failure, cancelled>> BY <1>35 DEF CountPage
  <2>2. \A d \in Docs : \/ finish_called'[d] = finish_called[d] /\ outcome'[d] = outcome[d]
                        \/ finish_called'[d] /\ outcome'[d] = failure[d]
    BY <1>35 DEF CountPage, CountDown, finish_request, TypeOK, DocsTypeOK, SeenTypeOK
  <2>3. \A d \in Docs : failure[d] # "pending" BY DEF TypeOK, DocsTypeOK, Failures
  <2> QED BY <2>1, <2>2, <2>3 DEF Announcing, OutcomeSet
<1>36. CASE StopDocuments
  <2>1. UNCHANGED <<finish_called, outcome, failure>> BY <1>36 DEF StopDocuments, StopClose
  <2>2. \A d \in Docs : cancelled[d] => cancelled'[d] BY <1>36 DEF StopDocuments, StopClose,
      TypeOK, DocsTypeOK
  <2> QED BY <2>1, <2>2 DEF Announcing, OutcomeSet
<1>37. CASE StopReschedule
  <2>1. UNCHANGED <<finish_called, outcome, failure>> BY <1>37 DEF StopReschedule
  <2>2. \A d \in Docs : cancelled[d] => cancelled'[d] BY <1>37 DEF StopReschedule, TypeOK,
      DocsTypeOK
  <2> QED BY <2>1, <2>2 DEF Announcing, OutcomeSet
<1>38. CASE StopRender
  <2>1. UNCHANGED <<finish_called, outcome, failure>> BY <1>38 DEF StopRender, StopClose
  <2>2. \A d \in Docs : cancelled[d] => cancelled'[d] BY <1>38 DEF StopRender, StopClose,
      TypeOK, DocsTypeOK
  <2> QED BY <2>1, <2>2 DEF Announcing, OutcomeSet
<1>39. CASE StopInference
  <2>1. UNCHANGED <<finish_called, outcome, failure>> BY <1>39 DEF StopInference, StopClose
  <2>2. \A d \in Docs : cancelled[d] => cancelled'[d] BY <1>39 DEF StopInference, StopClose,
      TypeOK, DocsTypeOK
  <2> QED BY <2>1, <2>2 DEF Announcing, OutcomeSet
<1>40. CASE StopAssembly
  <2>1. UNCHANGED <<finish_called, outcome, failure>> BY <1>40 DEF StopAssembly, StopClose
  <2>2. \A d \in Docs : cancelled[d] => cancelled'[d] BY <1>40 DEF StopAssembly, StopClose,
      TypeOK, DocsTypeOK
  <2> QED BY <2>1, <2>2 DEF Announcing, OutcomeSet
<1>41. CASE StopFail
  <2>1. UNCHANGED <<finish_called, outcome>> BY <1>41 DEF StopFail
  <2>2. \A d \in Docs : /\ cancelled[d] => cancelled'[d]
                        /\ failure'[d] = failure[d] \/ cancelled'[d]
    BY <1>41 DEF StopFail, Fail, TypeOK, DocsTypeOK
  <2> QED BY <2>1, <2>2 DEF Announcing, OutcomeSet
<1>42. CASE StopAbort
  <2>1. UNCHANGED <<finish_called, outcome, failure>> BY <1>42 DEF StopAbort, CancelSource
  <2>2. \A d \in Docs : cancelled[d] => cancelled'[d] BY <1>42 DEF StopAbort, CancelSource,
      TypeOK, DocsTypeOK
  <2> QED BY <2>1, <2>2 DEF Announcing, OutcomeSet
<1>43. CASE StopJoin
  <2>1. UNCHANGED <<finish_called, outcome, failure>> BY <1>43 DEF StopJoin
  <2>2. \A d \in Docs : cancelled[d] => cancelled'[d] BY <1>43 DEF StopJoin, TypeOK, DocsTypeOK
  <2> QED BY <2>1, <2>2 DEF Announcing, OutcomeSet
<1>44. CASE StopDone
  <2>1. UNCHANGED <<finish_called, outcome, failure>> BY <1>44 DEF StopDone
  <2>2. \A d \in Docs : cancelled[d] => cancelled'[d] BY <1>44 DEF StopDone, TypeOK, DocsTypeOK
  <2> QED BY <2>1, <2>2 DEF Announcing, OutcomeSet
<1>45. ASSUME NEW x \in Docs, StopWaiter(x) PROVE OutcomeSet'
  <2>1. UNCHANGED <<finish_called, outcome, failure>> BY <1>45 DEF StopWaiter, queue_reschedule
  <2>2. \A d \in Docs : cancelled[d] => cancelled'[d] BY <1>45 DEF StopWaiter, queue_reschedule,
      TypeOK, DocsTypeOK
  <2> QED BY <2>1, <2>2 DEF Announcing, OutcomeSet
<1>46. ASSUME NEW x \in Docs, StopExamine(x) PROVE OutcomeSet'
  <2>1. UNCHANGED <<finish_called, outcome, failure>> BY <1>46 DEF StopExamine
  <2>2. \A d \in Docs : cancelled[d] => cancelled'[d] BY <1>46 DEF StopExamine, TypeOK,
      DocsTypeOK
  <2> QED BY <2>1, <2>2 DEF Announcing, OutcomeSet
<1>47. ASSUME NEW x \in Docs, StopAbandon(x) PROVE OutcomeSet'
  <2>1. \A d \in Docs : \/ finish_called'[d] = finish_called[d] /\ outcome'[d] = outcome[d]
                        \/ finish_called'[d] /\ outcome'[d] = FirstFailure(d, "shutdown")
    BY <1>47 DEF StopAbandon, finish_request, TypeOK, DocsTypeOK, SeenTypeOK
  <2>2. \A d \in Docs : FirstFailure(d, "shutdown") # "pending"
    BY DEF FirstFailure, TypeOK, DocsTypeOK, Failures
  <2>3. \A d \in Docs : /\ cancelled[d] => cancelled'[d]
                        /\ failure'[d] = failure[d] \/ cancelled'[d]
    BY <1>47 DEF StopAbandon, Fail, TypeOK, DocsTypeOK
  <2> QED BY <2>1, <2>2, <2>3 DEF Announcing, OutcomeSet
<1>48. CASE UNCHANGED vars
  BY <1>48 DEF vars, Announcing, OutcomeSet
<1> QED BY StepCases, <1>1, <1>2, <1>3, <1>4, <1>5, <1>6, <1>7, <1>8, <1>9, <1>10, <1>11, <1>12,
    <1>13, <1>14, <1>15, <1>16, <1>17, <1>18, <1>19, <1>20, <1>21, <1>22, <1>23, <1>24, <1>25,
    <1>26, <1>27, <1>28, <1>29, <1>30, <1>31, <1>32, <1>33, <1>34, <1>35, <1>36, <1>37, <1>38,
    <1>39, <1>40, <1>41, <1>42, <1>43, <1>44, <1>45, <1>46, <1>47, <1>48

\* A scheduler that was just started announces nothing.
LEMMA AnnouncingInit == Init => Announcing
<1> SUFFICES ASSUME Init PROVE Announcing OBVIOUS
<1>1. Range(<<>>) = {} BY DEF Range
<1>2. (\A t \in Threads : pc[t] = "idle" /\ job[t] \notin Docs) /\ Openers \subseteq Threads
      /\ Workers \subseteq Threads
  BY SchedulerAssumption DEF Init, Threads
<1>3. AnnouncedOnce BY <1>2 DEF Init, AnnouncedOnce
<1>4. AnnouncedFirst BY <1>1, SchedulerAssumption DEF Init, AnnouncedFirst, Woken
<1>5. AnnouncedPages BY <1>1, <1>2 DEF Init, AnnouncedPages
<1>6. OutcomeSet BY DEF Init, OutcomeSet
<1> QED BY <1>3, <1>4, <1>5, <1>6 DEF Announcing

\* on_document runs once, on a sized document and ahead of its pages; a
\* document that finishes without it was given up; and on_finish has run for
\* exactly the finished documents (coordinate(), finish_request()).
THEOREM CallbacksInOrder == Spec => []Announcing
<1>1. Init => Announcing BY AnnouncingInit
<1>2. TypeOK /\ HoldsJob /\ Lifecycle /\ Announcing /\ [Next]_vars => Announcing'
  BY AnnouncedOnceStep, AnnouncedFirstStep, AnnouncedPagesStep, OutcomeSetStep DEF Announcing
<1> QED BY <1>1, <1>2, TypeCorrect, LifecycleKept, PTL DEF Spec

-----------------------------------------------------------------------------
(* The scheduler implements DocumentDelivery. *)

\* What a step of the scheduler is to the caller of submit().
DeliveryStep == [Delivery!DNext]_(Delivery!dvars)

\* Everything known of a reachable state.
Invariants ==
  /\ TypeOK /\ HoldsJob /\ Lifecycle /\ PagesAccounted /\ CreditsKept /\ Journeys /\ Announcing

\* What the caller sees, but for the admission of documents.
Visible == <<cancelled, failure, first_page, total_pages, announced, delivered, owed, outcome>>

\* A step the caller does not see.
LEMMA StutterStep ==
  ASSUME UNCHANGED <<Visible, active_requests, finish_called>> PROVE DeliveryStep
<1>1. UNCHANGED Delivery!dvars BY DEF Visible, Delivery!dvars
<1> QED BY <1>1 DEF DeliveryStep

\* A document of the registry has not been finished.
LEMMA LiveDocument ==
  ASSUME Invariants, NEW d \in Docs, Known(d)
  PROVE  /\ d \in active_requests \cup {e \in Docs : finish_called[e]}
         /\ ~finish_called[d] => Delivery!Live(d)
BY DEF Invariants, Known, Announcing, OutcomeSet, Delivery!Live

\* Whoever holds a document holds one that was admitted.
LEMMA HeldIsKnown ==
  ASSUME Invariants, NEW t \in Threads, job[t] \in Docs PROVE Known(job[t])
<1>1. CASE t \in Openers
  <2>1. total_pages[job[t]] = 0 \/ total_pages[job[t]] > 0
    BY SchedulerAssumption DEF Invariants, TypeOK, DocsTypeOK
  <2> QED BY <1>1, <2>1 DEF Invariants, Lifecycle, OpenedOnce, Registered, Unopened, Known
<1>2. CASE t \in Workers
  BY <1>2 DEF Invariants, Lifecycle, PagesOpened, Registered
<1> QED BY <1>1, <1>2 DEF Threads

\* finish_request() of a document whose failure is recorded already: the
\* second caller does nothing, the first one finishes it with that failure.
LEMMA FinishStep ==
  ASSUME Invariants, NEW d \in Docs, Known(d), finish_request(d, failure[d]),
         UNCHANGED <<cancelled, failure, first_page, total_pages, announced, delivered, owed>>,
         ~finish_called[d] /\ ~cancelled[d] =>
           total_pages[d] > 0 /\ delivered[d] = first_page[d]..total_pages[d]
  PROVE  DeliveryStep
<1>1. CASE finish_called[d] BY <1>1, StutterStep DEF finish_request, Visible
<1>2. CASE ~finish_called[d]
  <2>1. /\ finish_called' = [finish_called EXCEPT ![d] = TRUE]
        /\ active_requests' = active_requests \ {d}
        /\ outcome' = [outcome EXCEPT ![d] = failure[d]]
    BY <1>2 DEF finish_request
  <2>2. d \in active_requests /\ Delivery!Live(d) BY <1>2, LiveDocument DEF Known
  <2>3. active_requests' \cup {e \in Docs : finish_called'[e]}
          = active_requests \cup {e \in Docs : finish_called[e]}
    BY <2>1, <2>2 DEF Invariants, TypeOK, DocsTypeOK
  <2>4. failure[d] # "none" => cancelled[d] BY DEF Invariants, Announcing, OutcomeSet
  <2>5. failure[d] \in Failures BY DEF Invariants, TypeOK, DocsTypeOK
  <2>6. failure[d] # "none" =>
          /\ [e \in Docs |-> failure'[e] # "none"]
               = [[e \in Docs |-> failure[e] # "none"] EXCEPT ![d] = TRUE]
          /\ cancelled' = [cancelled EXCEPT ![d] = TRUE]
    BY <2>4 DEF Invariants, TypeOK, DocsTypeOK
  <2>7. Delivery!Finish(d, failure[d])
    BY <1>2, <2>1, <2>2, <2>3, <2>4, <2>6 DEF Delivery!Finish
  <2>8. PICK why \in Failures : why = failure[d] BY <2>5
  <2>9. Delivery!Finish(d, why) BY <2>7, <2>8 DEF Delivery!Finish
  <2> QED BY <2>9 DEF DeliveryStep, Delivery!DNext
<1> QED BY <1>1, <1>2

\* State::fail() of an admitted document.
LEMMA BreakStep ==
  ASSUME Invariants, NEW d \in Docs, Known(d), NEW why \in Failures \ {"none"}, Fail(d, why),
         UNCHANGED <<active_requests, finish_called>>,
         UNCHANGED <<first_page, total_pages, announced, delivered, owed, outcome>>
  PROVE  DeliveryStep
<1>1. [e \in Docs |-> failure'[e] # "none"]
        = [[e \in Docs |-> failure[e] # "none"] EXCEPT ![d] = TRUE]
  BY DEF Fail, FirstFailure, Invariants, TypeOK, DocsTypeOK
<1>2. cancelled' = [cancelled EXCEPT ![d] = TRUE] BY DEF Fail
<1>3. Delivery!Break(d) BY <1>1, <1>2, LiveDocument DEF Delivery!Break
<1> QED BY <1>3 DEF DeliveryStep, Delivery!DNext

\* A worker with a page of d: the document has not finished.
LEMMA WorkerHolds ==
  ASSUME Invariants, NEW t \in Workers, job[t] \in Docs
  PROVE  /\ total_pages[job[t]] > 0 /\ announced[job[t]]
         /\ job[t] \in active_requests /\ ~finish_called[job[t]]
<1> DEFINE d == job[t]
<1>1. total_pages[d] > 0 /\ announced[d] /\ Known(d)
  BY DEF Invariants, Lifecycle, PagesOpened, Registered, Announcing, AnnouncedPages
<1>2. t \in Threads /\ pc[t] # "exited" /\ pc[t] \in ThreadPC
  BY Roles, SchedulerAssumption DEF Invariants, Lifecycle, ThreadsSettled, TypeOK, ThreadsTypeOK
<1>3. stop_pc \notin {"abandon", "stopped"}
  BY <1>2 DEF Invariants, Lifecycle, ThreadsSettled, Abandoning
<1>4. Holding(d, ThreadPC) > 0
  <2> DEFINE H == {u \in Workers : job[u] = d /\ pc[u] \in ThreadPC}
  <2>1. IsFiniteSet(H) /\ t \in H BY <1>2, ThreadAssumption, FS_Subset
  <2>2. Cardinality(H) \in Nat /\ Cardinality(H) # 0 BY <2>1, FS_EmptySet, FS_CardinalityType
  <2> QED BY <2>2 DEF Holding
<1>5. /\ Holding(d, ThreadPC) \in Nat /\ InQueues(d) \in Nat BY CountsAreNat DEF Invariants
<1>6. remaining_pages[d] # 0
  <2>1. remaining_pages[d] = (total_pages[d] - next_page[d] + 1) + Cutting(d) + InFlight(d, ThreadPC)
    BY <1>1 DEF Invariants, PagesAccounted
  <2>2. /\ total_pages[d] \in Int /\ next_page[d] \in Int /\ next_page[d] <= total_pages[d] + 1
        /\ rs_cut \in 0..MaxPage
    BY <1>1, SchedulerAssumption
    DEF Invariants, Lifecycle, Registered, TypeOK, DocsTypeOK, ThreadsTypeOK
  <2>3. Cutting(d) \in Int /\ Cutting(d) >= 0 BY <2>2, SchedulerAssumption DEF Cutting
  <2> QED BY <1>4, <1>5, <2>1, <2>2, <2>3 DEF InFlight
<1>7. ~finish_called[d] BY <1>1, <1>3, <1>6 DEF Invariants, PagesAccounted
<1> QED BY <1>1, <1>7 DEF Known

\* The worker that counts down the last page of a live document leaves it with
\* its whole span delivered.
LEMMA LastPage ==
  ASSUME Invariants, NEW t \in Workers, pc[t] = "count", job[t] \in Docs,
         remaining_pages[job[t]] = 1, ~cancelled[job[t]]
  PROVE  delivered[job[t]] = first_page[job[t]]..total_pages[job[t]]
<1> DEFINE d == job[t]
           H == {u \in Workers : job[u] = d /\ pc[u] \in ThreadPC}
<1>1. total_pages[d] > 0 BY WorkerHolds
<1>2. /\ total_pages[d] \in Int /\ next_page[d] \in Int /\ next_page[d] <= total_pages[d] + 1
      /\ first_page[d] \in 1..MaxPage /\ total_pages[d] \in 0..MaxPage
      /\ rs_cut \in 0..MaxPage /\ render \in Seq(Jobs) /\ inference \in Seq(Jobs)
      /\ assembly \in Seq(Jobs)
  BY <1>1, SchedulerAssumption
  DEF Invariants, Lifecycle, Registered, TypeOK, DocsTypeOK, ThreadsTypeOK, QueuesTypeOK
<1>3. Cutting(d) \in Int /\ Cutting(d) >= 0 BY <1>2, SchedulerAssumption DEF Cutting
<1>4. IsFiniteSet(H) /\ t \in H
  BY ThreadAssumption, FS_Subset DEF ThreadPC
<1>5. Cardinality(H) \in Nat /\ Cardinality(H) > 0
  <2>1. Cardinality(H) \in Nat /\ Cardinality(H) # 0 BY <1>4, FS_EmptySet, FS_CardinalityType
  <2> QED BY <2>1
<1>6. /\ Queued(render, d) \in Nat /\ Queued(inference, d) \in Nat /\ Queued(assembly, d) \in Nat
  BY CountsAreNat DEF Invariants
<1>7. remaining_pages[d] = (total_pages[d] - next_page[d] + 1) + Cutting(d)
         + Queued(render, d) + Queued(inference, d) + Queued(assembly, d) + Cardinality(H)
  <2>1. remaining_pages[d] = (total_pages[d] - next_page[d] + 1) + Cutting(d) + InFlight(d, ThreadPC)
    BY <1>1 DEF Invariants, PagesAccounted
  <2>2. InFlight(d, ThreadPC) = Queued(render, d) + Queued(inference, d) + Queued(assembly, d)
                                  + Cardinality(H)
    BY DEF InFlight, InQueues, Holding
  <2> HIDE DEF H, d
  <2>3. total_pages[d] \in Int /\ next_page[d] \in Int BY <1>2
  <2> QED BY <1>3, <1>5, <1>6, <2>1, <2>2, <2>3
<1>8. /\ next_page[d] = total_pages[d] + 1 /\ Cardinality(H) = 1
      /\ Queued(render, d) = 0 /\ Queued(inference, d) = 0 /\ Queued(assembly, d) = 0
  <2>1. remaining_pages[d] = 1 OBVIOUS
  <2> HIDE DEF H, d
  <2>2. total_pages[d] \in Int /\ next_page[d] \in Int /\ next_page[d] <= total_pages[d] + 1 BY <1>2
  <2>3. \A a, c, r, i, s, h \in Nat : 1 = a + c + r + i + s + h /\ h > 0
                                     => a = 0 /\ r = 0 /\ i = 0 /\ s = 0 /\ h = 1
    OBVIOUS
  <2>4. total_pages[d] - next_page[d] + 1 \in Nat /\ Cutting(d) \in Nat BY <1>3, <2>2
  <2>5. /\ total_pages[d] - next_page[d] + 1 = 0 /\ Cardinality(H) = 1
        /\ Queued(render, d) = 0 /\ Queued(inference, d) = 0 /\ Queued(assembly, d) = 0
    BY <1>5, <1>6, <1>7, <2>1, <2>3, <2>4
  <2> QED BY <2>2, <2>5
<1>9. \A p \in Pages : <<d, p>> \notin QueuedPages
  <2>1. ASSUME NEW q \in Seq(Jobs), Queued(q, d) = 0, NEW p \in Pages, <<d, p>> \in Range(q)
        PROVE  FALSE
    <3>1. PICK i \in 1..Len(q) : q[i] = <<d, p>> BY <2>1 DEF Range
    <3>2. IsFiniteSet(Places(q, d)) /\ Cardinality(Places(q, d)) = 0 BY <2>1, PlacesFinite
    <3>3. i \in Places(q, d) BY <3>1 DEF Places
    <3> QED BY <3>2, <3>3, FS_EmptySet
  <2> QED BY <1>2, <1>8, <2>1 DEF QueuedPages
<1>10. \A u \in Workers : job[u] = d => u = t
  <2>1. PICK x : H = {x} BY <1>4, <1>8, FS_Singleton
  <2>2. \A u \in Workers : pc[u] \in ThreadPC
    BY Roles DEF Invariants, TypeOK, ThreadsTypeOK
  <2> QED BY <1>4, <2>1, <2>2
<1>11. ASSUME NEW p \in first_page[d]..total_pages[d] PROVE p \in delivered[d]
  <2>1. p \in Pages /\ first_page[d] <= p /\ p < next_page[d] /\ p <= total_pages[d]
    BY <1>2, <1>8, SchedulerAssumption DEF Pages
  <2>2. Scheduled(<<d, p>>) BY <2>1, ScheduledPage
  <2>3. ASSUME NEW u \in Workers, Held(u) = <<d, p>>, pc[u] \in BeforeDelivery PROVE FALSE
    BY <1>10, <2>3 DEF Held, BeforeDelivery, AfterDelivery
  <2> QED BY <1>9, <2>1, <2>2, <2>3 DEF Invariants, Journeys, PagesKept
<1>12. ASSUME NEW p \in delivered[d] PROVE p \in first_page[d]..total_pages[d]
  <2>1. Scheduled(<<d, p>>) BY DEF Invariants, Journeys, PagesInSpan
  <2>2. p \in Int BY SchedulerAssumption DEF Invariants, TypeOK, SeenTypeOK, Pages
  <2> QED BY <1>2, <2>1, <2>2, ScheduledPage
<1> QED BY <1>11, <1>12

\* A page on_page is called with may be delivered.
LEMMA PageDeliverable ==
  ASSUME Invariants, NEW t \in Workers, pc[t] = "work", job[t] \in Docs
  PROVE  Delivery!Deliverable(job[t], page[t]) /\ page[t] \in 1..MaxPage
<1> DEFINE d == job[t]
           H == {u \in Workers : job[u] = d /\ pc[u] \in BeforeDelivery}
<1>1. /\ announced[d] /\ ~finish_called[d] /\ Delivery!Live(d)
  BY WorkerHolds, LiveDocument DEF Known
<1>2. page[t] \in Pages /\ Scheduled(<<d, page[t]>>) BY HeldPage DEF Invariants
<1>3. page[t] \in first_page[d]..total_pages[d]
  BY <1>2, ScheduledPage, SchedulerAssumption DEF Invariants, TypeOK, DocsTypeOK, Pages
<1>4. page[t] \notin delivered[d]
  <2>1. pc[t] \in BeforeDelivery BY DEF BeforeDelivery, AfterDelivery, ThreadPC
  <2> QED BY <2>1 DEF Invariants, Journeys, PagesInSpan
<1>5. owed[d] < PageWindow
  <2>1. IsFiniteSet(H) /\ t \in H
    BY ThreadAssumption, FS_Subset DEF BeforeDelivery, AfterDelivery, ThreadPC
  <2>2. Cardinality(H) \in Nat /\ Cardinality(H) # 0 BY <2>1, FS_EmptySet, FS_CardinalityType
  <2>3. /\ available_slots[d] \in Int /\ available_slots[d] >= 0 /\ owed[d] \in Int
        /\ PageWindow \in Int
    BY SchedulerAssumption DEF Invariants, TypeOK, DocsTypeOK, SeenTypeOK
  <2>4. InQueues(d) \in Nat BY CountsAreNat DEF Invariants
  <2>5. available_slots[d] + InFlight(d, BeforeDelivery) + owed[d] <= PageWindow
    BY DEF Invariants, CreditsKept, CreditKept
  <2>6. InFlight(d, BeforeDelivery) = InQueues(d) + Cardinality(H) BY DEF InFlight, Holding
  <2> HIDE DEF H
  <2> QED BY <2>2, <2>3, <2>4, <2>5, <2>6
<1> QED BY <1>1, <1>2, <1>3, <1>4, <1>5 DEF Delivery!Deliverable, Pages

\* A credit comes back.
LEMMA CreditStep ==
  ASSUME Invariants, NEW d \in Docs, owed[d] > 0, owed' = [owed EXCEPT ![d] = owed[d] - 1],
         UNCHANGED <<active_requests, finish_called>>,
         UNCHANGED <<cancelled, failure, first_page, total_pages, announced, delivered, outcome>>
  PROVE  DeliveryStep
<1>1. Delivery!Credit(d) BY DEF Delivery!Credit
<1> QED BY <1>1 DEF DeliveryStep, Delivery!DNext

\* cancel() of an admitted document.
LEMMA WithdrawStep ==
  ASSUME Invariants, NEW d \in Docs, Known(d), cancelled' = [cancelled EXCEPT ![d] = TRUE],
         UNCHANGED <<active_requests, finish_called>>,
         UNCHANGED <<failure, first_page, total_pages, announced, delivered, owed, outcome>>
  PROVE  DeliveryStep
<1>1. Delivery!Withdraw(d) BY LiveDocument DEF Delivery!Withdraw
<1> QED BY <1>1 DEF DeliveryStep, Delivery!DNext

\* Every step of the scheduler is one the caller is promised, or one the caller does
\* not see.
LEMMA StepImplements ==
  ASSUME Invariants, [Next]_vars
  PROVE  DeliveryStep
<1> USE Roles
<1>1. ASSUME NEW x \in Docs, Submit(x) PROVE DeliveryStep
  <2>1. CASE UNCHANGED active_requests BY <1>1, <2>1, StutterStep DEF Visible, Submit
  <2>2. CASE active_requests' = active_requests \cup {x}
    <3>1. x \notin active_requests /\ ~finish_called[x]
      BY <1>1 DEF Submit, Invariants, Lifecycle, Registered
    <3>2. UNCHANGED <<Visible, finish_called>> BY <1>1 DEF Submit, Visible
    <3>3. Delivery!Admit(x) BY <2>2, <3>1, <3>2 DEF Delivery!Admit, Visible
    <3> QED BY <3>3 DEF DeliveryStep, Delivery!DNext
  <2> QED BY <1>1, <2>1, <2>2 DEF Submit
<1>2. ASSUME NEW x \in Docs, TicketCancel(x) PROVE DeliveryStep
  <2>1. Known(x) BY <1>2 DEF TicketCancel, Known
  <2> QED BY <1>2, <2>1, WithdrawStep DEF TicketCancel
<1>3. ASSUME NEW x \in Docs, TicketAbort(x) PROVE DeliveryStep
  BY <1>3, StutterStep DEF Visible, TicketAbort, CancelSource
<1>4. ASSUME NEW x \in Docs, TicketRelease(x) PROVE DeliveryStep
  <2>1. Cardinality(Returning(x)) \in Nat BY ReturningFinite
  <2>2. owed[x] > 0 BY <1>4, <2>1 DEF TicketRelease, Returning, Invariants, TypeOK, SeenTypeOK
  <2> QED BY <1>4, <2>2, CreditStep DEF TicketRelease, release_slots
<1>5. ASSUME NEW x \in Docs, TicketWake(x) PROVE DeliveryStep
  BY <1>5, StutterStep DEF Visible, TicketWake, queue_reschedule
<1>6. ASSUME NEW x \in Docs, EnqueueReschedule(x) PROVE DeliveryStep
  BY <1>6, StutterStep DEF Visible, EnqueueReschedule
<1>7. ASSUME NEW t \in Openers, OpenerPop(t) PROVE DeliveryStep
  BY <1>7, StutterStep DEF Visible, OpenerPop, Goto
<1>8. ASSUME NEW t \in Openers, OpenerCheck(t) PROVE DeliveryStep
  <2>1. job[t] \in Docs /\ Known(job[t]) BY <1>8, HeldIsKnown DEF OpenerCheck, Invariants,
      HoldsJob
  <2>2. CASE cancelled[job[t]] BY <1>8, <2>1, <2>2, FinishStep DEF OpenerCheck
  <2>3. CASE ~cancelled[job[t]] BY <1>8, <2>3, StutterStep DEF OpenerCheck, Visible
  <2> QED BY <2>2, <2>3
<1>9. ASSUME NEW t \in Openers, OpenerPublish(t) PROVE DeliveryStep
  BY <1>9, StutterStep DEF Visible, OpenerPublish, Goto
<1>10. ASSUME NEW t \in Openers, OpenerRecheck(t) PROVE DeliveryStep
  BY <1>10, StutterStep DEF Visible, OpenerRecheck, Goto
<1>11. ASSUME NEW t \in Openers, OpenerSize(t) PROVE DeliveryStep
  <2>1. CASE UNCHANGED span BY <1>11, <2>1, StutterStep DEF OpenerSize, Visible
  <2>2. CASE \E s \in OpenSpans :
               /\ first_page' = [first_page EXCEPT ![job[t]] = s[1]]
               /\ total_pages' = [total_pages EXCEPT ![job[t]] = s[2]]
    <3>1. PICK s \in OpenSpans :
            /\ first_page' = [first_page EXCEPT ![job[t]] = s[1]]
            /\ total_pages' = [total_pages EXCEPT ![job[t]] = s[2]]
      BY <2>2
    <3>2. s[1] \in 1..MaxPage /\ s[2] \in s[1]..MaxPage BY SchedulerAssumption DEF Pages
    <3>3. job[t] \in Docs /\ total_pages[job[t]] = 0 /\ Unopened(job[t])
      BY <1>11 DEF OpenerSize, Invariants, HoldsJob, Lifecycle, OpenedOnce
    <3>4. Delivery!Live(job[t])
      BY <3>3, LiveDocument DEF Unopened, Known, Invariants, Lifecycle, Registered
    <3>5. Delivery!Size(job[t], s[1], s[2]) BY <1>11, <3>1, <3>3, <3>4 DEF OpenerSize,
        Delivery!Size
    <3> QED BY <3>2, <3>3, <3>5 DEF DeliveryStep, Delivery!DNext
  <2> QED BY <1>11, <2>1, <2>2 DEF OpenerSize
<1>12. ASSUME NEW t \in Openers, OpenerAnnounce(t) PROVE DeliveryStep
  <2>1. CASE UNCHANGED announced BY <1>12, <2>1, StutterStep DEF OpenerAnnounce, Visible
  <2>2. CASE announced' = [announced EXCEPT ![job[t]] = TRUE]
    <3>1. /\ job[t] \in Docs /\ total_pages[job[t]] > 0 /\ ~announced[job[t]]
          /\ outcome[job[t]] = "pending" \/ cancelled[job[t]]
      BY <1>12 DEF OpenerAnnounce, Invariants, HoldsJob, Lifecycle, OpenedOnce, Announcing,
          AnnouncedOnce,
        OutcomeSet
    <3>2. Delivery!Announce(job[t]) BY <1>12, <2>2, <3>1 DEF OpenerAnnounce, Delivery!Announce
    <3> QED BY <3>1, <3>2 DEF DeliveryStep, Delivery!DNext
  <2> QED BY <1>12, <2>1, <2>2 DEF OpenerAnnounce
<1>13. ASSUME NEW t \in Openers, OpenerWake(t) PROVE DeliveryStep
  BY <1>13, StutterStep DEF Visible, OpenerWake, queue_reschedule, Drop, Goto
<1>14. ASSUME NEW t \in Openers, OpenerSettle(t) PROVE DeliveryStep
  <2>1. job[t] \in Docs /\ Known(job[t]) /\ cancelled[job[t]]
    BY <1>14, HeldIsKnown DEF OpenerSettle, Invariants, HoldsJob, Lifecycle, ThreadsSettled
  <2>2. CASE remaining_pages[job[t]] = 0 BY <1>14, <2>1, <2>2, FinishStep DEF OpenerSettle
  <2>3. CASE remaining_pages[job[t]] # 0 BY <1>14, <2>3, StutterStep DEF OpenerSettle, Visible
  <2> QED BY <2>2, <2>3
<1>15. ASSUME NEW t \in Threads, ThreadFail(t) PROVE DeliveryStep
  <2>1. job[t] \in Docs /\ Known(job[t]) BY <1>15, HeldIsKnown DEF ThreadFail, Invariants,
      HoldsJob
  <2>2. PICK why \in Failures \ {"none"} : Fail(job[t], why) BY <1>15 DEF ThreadFail, Failures
  <2> QED BY <1>15, <2>1, <2>2, BreakStep DEF ThreadFail
<1>16. ASSUME NEW t \in Threads, ThreadAbort(t) PROVE DeliveryStep
  BY <1>16, StutterStep DEF Visible, ThreadAbort, CancelSource, Goto
<1>17. CASE RescheduleNext
  BY <1>17, StutterStep DEF Visible, RescheduleNext
<1>18. CASE RescheduleClear
  BY <1>18, StutterStep DEF Visible, RescheduleClear
<1>19. CASE ScheduleEnter
  BY <1>19, StutterStep DEF Visible, ScheduleEnter, RescheduleDone
<1>20. CASE SchedulePush
  BY <1>20, StutterStep DEF Visible, SchedulePush, PushPage, Park, RescheduleDone
<1>21. CASE ScheduleCut
  <2>1. rs_doc \in Docs /\ Known(rs_doc) /\ cancelled[rs_doc]
    BY <1>21 DEF ScheduleCut, Invariants, HoldsJob, Lifecycle, ThreadsSettled, PagesOpened,
        Registered
  <2>2. CASE remaining_pages[rs_doc] = rs_cut
    BY <1>21, <2>1, <2>2, FinishStep DEF ScheduleCut, CountDown
  <2>3. CASE remaining_pages[rs_doc] # rs_cut
    BY <1>21, <2>3, StutterStep DEF ScheduleCut, CountDown, Visible
  <2> QED BY <2>2, <2>3
<1>22. ASSUME NEW t \in Renderers, RenderPop(t) PROVE DeliveryStep
  BY <1>22, StutterStep DEF Visible, RenderPop, Take, Goto
<1>23. ASSUME NEW t \in Renderers, RenderNotify(t) PROVE DeliveryStep
  BY <1>23, StutterStep DEF Visible, RenderNotify, queue_reschedule, Goto
<1>24. ASSUME NEW t \in Renderers, RenderWork(t) PROVE DeliveryStep
  BY <1>24, StutterStep DEF Visible, RenderWork, Step, Goto
<1>25. ASSUME NEW t \in Recognizers, RecognizePop(t) PROVE DeliveryStep
  BY <1>25, StutterStep DEF Visible, RecognizePop, Take, Goto
<1>26. ASSUME NEW t \in Recognizers, RecognizeWork(t) PROVE DeliveryStep
  BY <1>26, StutterStep DEF Visible, RecognizeWork, Step, Goto
<1>27. ASSUME NEW t \in Assemblers, AssemblePop(t) PROVE DeliveryStep
  BY <1>27, StutterStep DEF Visible, AssemblePop, Take, Goto
<1>28. ASSUME NEW t \in Assemblers, Deliver(t) PROVE DeliveryStep
  <2>1. job[t] \in Docs /\ Known(job[t]) /\ pc[t] = "work"
    BY <1>28, HeldIsKnown DEF Deliver, Invariants, HoldsJob
  <2>2. CASE /\ delivered' = [delivered EXCEPT ![job[t]] = delivered[job[t]] \cup {page[t]}]
             /\ owed' = [owed EXCEPT ![job[t]] = owed[job[t]] + 1] /\ UNCHANGED cancelled
    <3>1. Delivery!DeliverPage(job[t], page[t])
      BY <1>28, <2>1, <2>2, PageDeliverable DEF Deliver, Delivery!DeliverPage
    <3>2. page[t] \in 1..MaxPage BY <2>1, PageDeliverable
    <3> QED BY <2>1, <3>1, <3>2 DEF DeliveryStep, Delivery!DNext
  <2>3. CASE cancelled' = [cancelled EXCEPT ![job[t]] = TRUE] /\ UNCHANGED <<delivered, owed>>
    BY <1>28, <2>1, <2>3, WithdrawStep DEF Deliver
  <2>4. CASE UNCHANGED <<cancelled, delivered, owed>> BY <1>28, <2>4, StutterStep DEF Deliver,
      Visible
  <2> QED BY <1>28, <2>2, <2>3, <2>4 DEF Deliver
<1>29. ASSUME NEW t \in Assemblers, ReturnCredit(t) PROVE DeliveryStep
  <2>1. job[t] \in Docs BY <1>29 DEF ReturnCredit, Invariants, HoldsJob
  <2>2. t \in Returning(job[t]) BY <1>29 DEF ReturnCredit, Returning
  <2>3. Cardinality(Returning(job[t])) \in Nat /\ Cardinality(Returning(job[t])) # 0
    BY <2>2, ReturningFinite, FS_EmptySet
  <2>4. owed[job[t]] \in Int /\ Cardinality(Returning(job[t])) <= owed[job[t]]
    BY <2>1 DEF Invariants, CreditsKept, CreditKept, TypeOK, SeenTypeOK
  <2>5. owed[job[t]] > 0 BY <2>3, <2>4
  <2> QED BY <1>29, <2>1, <2>5, CreditStep DEF ReturnCredit, release_slots
<1>30. ASSUME NEW t \in Assemblers, WakeAfterCredit(t) PROVE DeliveryStep
  BY <1>30, StutterStep DEF Visible, WakeAfterCredit, queue_reschedule, Goto
<1>31. ASSUME NEW t \in Renderers, PushInference(t) PROVE DeliveryStep
  BY <1>31, StutterStep DEF Visible, PushInference, Drop, Goto
<1>32. ASSUME NEW t \in Workers, PushAssembly(t) PROVE DeliveryStep
  BY <1>32, StutterStep DEF Visible, PushAssembly, Drop, Goto
<1>33. ASSUME NEW t \in Workers, CheckCancelled(t) PROVE DeliveryStep
  BY <1>33, StutterStep DEF Visible, CheckCancelled, Step, Goto
<1>34. ASSUME NEW t \in Workers, CompletePage(t) PROVE DeliveryStep
  BY <1>34, StutterStep DEF Visible, CompletePage, queue_reschedule, Goto
<1>35. ASSUME NEW t \in Workers, CountPage(t) PROVE DeliveryStep
  <2>1. job[t] \in Docs /\ Known(job[t]) /\ total_pages[job[t]] > 0 /\ pc[t] = "count"
    BY <1>35, HeldIsKnown, WorkerHolds DEF CountPage, Invariants, HoldsJob
  <2>2. CASE remaining_pages[job[t]] = 1
    BY <1>35, <2>1, <2>2, LastPage, FinishStep DEF CountPage, CountDown
  <2>3. CASE remaining_pages[job[t]] # 1
    BY <1>35, <2>3, StutterStep DEF CountPage, CountDown, Visible
  <2> QED BY <2>2, <2>3
<1>36. CASE StopDocuments
  BY <1>36, StutterStep DEF Visible, StopDocuments, StopClose
<1>37. CASE StopReschedule
  BY <1>37, StutterStep DEF Visible, StopReschedule
<1>38. CASE StopRender
  BY <1>38, StutterStep DEF Visible, StopRender, StopClose
<1>39. CASE StopInference
  BY <1>39, StutterStep DEF Visible, StopInference, StopClose
<1>40. CASE StopAssembly
  BY <1>40, StutterStep DEF Visible, StopAssembly, StopClose
<1>41. CASE StopFail
  <2>1. stop_doc \in Docs /\ Known(stop_doc) BY <1>41 DEF StopFail, Invariants, Lifecycle,
      Registered
  <2>2. "shutdown" \in Failures \ {"none"} BY DEF Failures
  <2> QED BY <1>41, <2>1, <2>2, BreakStep DEF StopFail
<1>42. CASE StopAbort
  BY <1>42, StutterStep DEF Visible, StopAbort, CancelSource
<1>43. CASE StopJoin
  BY <1>43, StutterStep DEF Visible, StopJoin
<1>44. CASE StopDone
  BY <1>44, StutterStep DEF Visible, StopDone
<1>45. ASSUME NEW x \in Docs, StopWaiter(x) PROVE DeliveryStep
  BY <1>45, StutterStep DEF Visible, StopWaiter, queue_reschedule
<1>46. ASSUME NEW x \in Docs, StopExamine(x) PROVE DeliveryStep
  BY <1>46, StutterStep DEF Visible, StopExamine
<1>47. ASSUME NEW x \in Docs, StopAbandon(x) PROVE DeliveryStep
  <2>1. Known(x) /\ Fail(x, "shutdown") BY <1>47 DEF StopAbandon, Invariants, Lifecycle,
      Registered
  <2>2. "shutdown" \in Failures \ {"none"} BY DEF Failures
  <2>3. UNCHANGED <<first_page, total_pages, announced, delivered, owed>> BY <1>47 DEF
      StopAbandon
  <2>4. CASE finish_called[x]
    <3>1. UNCHANGED <<active_requests, finish_called, outcome>>
      BY <1>47, <2>4 DEF StopAbandon, finish_request
    <3> QED BY <2>1, <2>2, <2>3, <3>1, BreakStep
  <2>5. CASE ~finish_called[x]
    <3> DEFINE why == FirstFailure(x, "shutdown")
    <3>1. /\ finish_called' = [finish_called EXCEPT ![x] = TRUE]
          /\ active_requests' = active_requests \ {x}
          /\ outcome' = [outcome EXCEPT ![x] = why]
      BY <1>47, <2>5 DEF StopAbandon, finish_request
    <3>2. why \in Failures /\ why # "none"
      BY DEF FirstFailure, Failures, Invariants, TypeOK, DocsTypeOK
    <3>3. x \in active_requests /\ Delivery!Live(x) BY <2>1, <2>5, LiveDocument DEF Known
    <3>4. active_requests' \cup {e \in Docs : finish_called'[e]}
            = active_requests \cup {e \in Docs : finish_called[e]}
      BY <3>1, <3>3 DEF Invariants, TypeOK, DocsTypeOK
    <3>5. /\ [e \in Docs |-> failure'[e] # "none"]
               = [[e \in Docs |-> failure[e] # "none"] EXCEPT ![x] = TRUE]
          /\ cancelled' = [cancelled EXCEPT ![x] = TRUE]
      BY <2>1, <3>2 DEF Fail, Invariants, TypeOK, DocsTypeOK
    <3> HIDE DEF why
    <3>6. Delivery!Finish(x, why) BY <2>3, <3>1, <3>2, <3>3, <3>4, <3>5 DEF Delivery!Finish
    <3>7. PICK e \in Failures : e = why BY <3>2
    <3>8. Delivery!Finish(x, e) BY <3>6, <3>7 DEF Delivery!Finish
    <3> QED BY <3>8 DEF DeliveryStep, Delivery!DNext
  <2> QED BY <2>4, <2>5
<1>48. CASE UNCHANGED vars
  BY <1>48, StutterStep DEF Visible, vars
<1> QED BY StepCases, <1>1, <1>2, <1>3, <1>4, <1>5, <1>6, <1>7, <1>8, <1>9, <1>10, <1>11, <1>12,
    <1>13, <1>14, <1>15, <1>16, <1>17, <1>18, <1>19, <1>20, <1>21, <1>22, <1>23, <1>24, <1>25,
    <1>26, <1>27, <1>28, <1>29, <1>30, <1>31, <1>32, <1>33, <1>34, <1>35, <1>36, <1>37, <1>38,
    <1>39, <1>40, <1>41, <1>42, <1>43, <1>44, <1>45, <1>46, <1>47, <1>48

\* To the caller of submit() the threads, queues and wakes are one scheduler
\* that announces a document once, delivers each page of its span at most once
\* and within page_window, nothing after on_finish, and finishes cleanly only
\* with the whole span delivered (DocumentDelivery).
THEOREM SchedulerImplementsDelivery == Spec => ImplementsDelivery
<1>1. Init => Delivery!DInit BY ZenonT(40) DEF Init, Delivery!DInit
<1>2. Invariants /\ [Next]_vars => DeliveryStep BY StepImplements
<1>3. Spec => []Invariants
  BY TypeCorrect, LifecycleKept, PagesAlwaysAccounted, CreditsAlwaysKept, JourneysAlwaysKept,
     CallbacksInOrder, PTL DEF Invariants
<1> QED BY <1>1, <1>2, <1>3, PTL DEF Spec, ImplementsDelivery, Delivery!DSpec, DeliveryStep
==============================================================================
