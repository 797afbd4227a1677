-------------------------- MODULE ParseCallProofs --------------------------
(***************************************************************************)
(* What every conversion call keeps, for any number of calls, workers,     *)
(* engines, slots and messages and any selection of collectors: it is      *)
(* answered and counted once, an OK answer carries its whole plan, CV rows *)
(* label a document only recognition read, the executor drains before its  *)
(* workers end.                                                            *)
(***************************************************************************)
EXTENDS ParseCall, FiniteSetTheorems, SequenceTheorems, TLAPS

USE DEF shared, queue, pool, held, parse, answer

\* A call at one of these has run no collector and merged nothing.
EarlyPCs == {"idle", "admit", "admit_cas", "submit", "queued", "dequeued", "slot", "fetch",
             "charge", "charge_cas", "decode"}
Counted == {<<"rejected">>, <<"failure">>, <<"success">>, <<"partial">>}
\* A leg on its way to recognition, or back from it.
CvStates == {"cv", "leased", "recognizing", "ok_cv"}

CallTypes ==
  /\ TypeOK
  /\ DOMAIN legs = Calls /\ DOMAIN doc = Calls /\ DOMAIN failures = Calls
  /\ DOMAIN recorded = Calls

\* The executor's queue holds calls that wait, each once; a worker ends only
\* when the executor stops and nothing is queued.
QueueKept ==
  /\ \A i \in DOMAIN tasks : pc[tasks[i]] = "queued"
  /\ \A i, j \in DOMAIN tasks : tasks[i] = tasks[j] => i = j
  /\ \A w \in Workers : running[w] = "exited" => stopping /\ tasks = <<>>

\* Where call c is tells how often it was answered and counted.
AnswerKept(c) ==
  /\ pc[c] \notin {"writing", "finished", "gone"} => finished[c] = 0 /\ recorded[c] = <<>>
  /\ pc[c] = "writing" =>
       /\ finished[c] = 0 /\ status[c] = "OK"
       /\ recorded[c] \in {<<"success">>, <<"partial">>}
  /\ pc[c] = "finished" =>
       /\ finished[c] = 1
       /\ recorded[c] \in Counted
       /\ recorded[c] = <<"rejected">> => ~collectors_ran[c]
       /\ status[c] = "OK" => recorded[c] \in {<<"success">>, <<"partial">>}
  /\ pc[c] = "gone" => finished[c] = 1 /\ recorded[c] = <<>>
  /\ pc[c] \in EarlyPCs => ~collectors_ran[c]

\* The legs are those of the plan, and only a leg that is the CV collector, or
\* the inspector that handed its PDF over, comes to recognition.
LegsKept(c) ==
  /\ pc[c] # "legs" => DOMAIN legs[c] = {}
  /\ pc[c] = "legs" => DOMAIN legs[c] = DOMAIN Plan(c) /\ ~Unserved(c)
  /\ \A i \in DOMAIN legs[c] :
       /\ legs[c][i] \notin {"OK", "none"}
       /\ legs[c][i] \in CvStates => ~Native(c) /\ (Plan(c)[i] = "cv" \/ PdfRouting(c))
  /\ lease[c] # 0 <=> \E i \in DOMAIN legs[c] : legs[c][i] \in {"leased", "recognizing"}

\* A call whose document is merged, and not dropped with a failed answer.
HasDocument(c) ==
  \/ pc[c] \in {"finalize", "shape", "engine", "infer"}
  \/ pc[c] \in {"returned", "writing", "finished"} /\ status[c] = "OK"

\* What was merged is the plan: each place has its reading or its failure.
PlanKept(c) ==
  /\ HasDocument(c) =>
       /\ DOMAIN doc[c] \subseteq DOMAIN Plan(c) /\ DOMAIN doc[c] # {}
       /\ failures[c] = {Plan(c)[i] : i \in DOMAIN Plan(c) \ DOMAIN doc[c]}
       /\ \A k \in DOMAIN doc[c] :
            /\ doc[c][k].by = Plan(c)[k] /\ (Native(c) => ~doc[c][k].cv)
            /\ doc[c][k].body <=> ~(/\ Fanout(request[c]) /\ Plan(c)[k] = "calamine"
                                    /\ \E j \in DOMAIN doc[c] : j < k)
  /\ pc[c] \in {"returned", "writing", "finished"} /\ status[c] = "OK" =>
       (failures[c] # {} => partial[c])

\* Published rows come from a recognition whose reading is, or will be, in the
\* document.
RowsKept(c) ==
  /\ pc[c] \in EarlyPCs \cup {"legs"} => DOMAIN doc[c] = {}
  /\ pc[c] \in EarlyPCs \cup {"legs", "finalize"} => ~overlaid[c]
  /\ pc[c] \in EarlyPCs => ~cv_rows[c]
  /\ cv_rows[c] => \/ \E i \in DOMAIN legs[c] : legs[c][i] = "ok_cv"
                   \/ \E k \in DOMAIN doc[c] : doc[c][k].cv
  /\ overlaid[c] => OneReading(c) /\ \A k \in DOMAIN doc[c] : doc[c][k].cv

\* Nothing of call d changed.
Idle(d) ==
  /\ pc'[d] = pc[d] /\ request'[d] = request[d] /\ cancelled'[d] = cancelled[d]
  /\ charge'[d] = charge[d] /\ fetched'[d] = fetched[d] /\ slot'[d] = slot[d]
  /\ body'[d] = body[d] /\ collectors_ran'[d] = collectors_ran[d] /\ legs'[d] = legs[d]
  /\ lease'[d] = lease[d] /\ cv_rows'[d] = cv_rows[d] /\ doc'[d] = doc[d]
  /\ failures'[d] = failures[d] /\ overlaid'[d] = overlaid[d] /\ partial'[d] = partial[d]
  /\ status'[d] = status[d] /\ recorded'[d] = recorded[d] /\ finished'[d] = finished[d]

----------------------------------------------------------------------------
\* A request of the instance, or the blank one, has the type of a request.
LEMMA RequestTyped ==
  ASSUME CallTypes, NEW c \in Calls
  PROVE  request[c] \in RequestType
<1>1. NoRequest \in RequestType BY DEF NoRequest, RequestType, Inputs
<1> QED BY <1>1, ParseAssumption DEF CallTypes, TypeOK, ParseAssumption

\* resolve_collectors and append_office_fanout give each collector one place,
\* fill the first place, and give the fan-out at most two, calamine second.
LEMMA PlanPlaces ==
  ASSUME NEW r \in RequestType
  PROVE  /\ DOMAIN PlanIds(r) \subseteq Nat /\ 1 \in DOMAIN PlanIds(r)
         /\ \A i \in DOMAIN PlanIds(r) : i >= 1
         /\ \A i, j \in DOMAIN PlanIds(r) : PlanIds(r)[i] = PlanIds(r)[j] => i = j
         /\ Fanout(r) => /\ DOMAIN PlanIds(r) \subseteq {1, 2}
                         /\ PlanIds(r)[1] # "calamine"
                         /\ 2 \in DOMAIN PlanIds(r) => PlanIds(r)[2] = "calamine"
<1>1. CASE r.pipeline = "VLM"
  <2>1. PlanIds(r) = <<"vlm">> BY <1>1 DEF PlanIds
  <2> QED BY <2>1
<1>2. CASE r.pipeline # "VLM" /\ r.selected = <<>>
  <2> DEFINE routed == Routed(r)
  <2>1. routed # "calamine" BY DEF Routed, RouteCollector
  <2> HIDE DEF routed
  <2>2. PlanIds(r) = AppendOfficeFanout(r, <<routed>>)
    BY <1>2 DEF PlanIds, ResolveCollectors, routed
  <2> DEFINE both == Append(<<routed>>, "calamine")
  <2>3. DOMAIN both = {1, 2} /\ both[1] = routed /\ both[2] = "calamine"
    <3>1. <<routed>> \in Seq({routed, "calamine"}) /\ Len(<<routed>>) = 1 /\ <<routed>>[1] = routed
      OBVIOUS
    <3>2. both \in Seq({routed, "calamine"}) /\ Len(both) = 2 BY <3>1
    <3>3. both[1] = routed /\ both[2] = "calamine" BY <3>1
    <3> QED BY <3>2, <3>3
  <2>4. PlanIds(r) = <<routed>> \/ PlanIds(r) = both
    BY <2>2 DEF AppendOfficeFanout
  <2> HIDE DEF both
  <2> QED BY <2>1, <2>3, <2>4
<1>3. CASE r.pipeline # "VLM" /\ r.selected # <<>>
  <2> DEFINE ids == r.selected
  <2>1. ids \in Seq(Collectors \ {"vlm"}) /\ Len(ids) \in Nat /\ DOMAIN ids = 1..Len(ids)
    BY DEF RequestType
  <2>2. Len(ids) >= 1 BY <1>3, <2>1
  <2>3. ~Fanout(r) BY <1>3 DEF Fanout
  <2>4. PlanIds(r) = [i \in FirstPlaces(ids) |-> ids[i]]
    BY <1>3, <2>3 DEF PlanIds, ResolveCollectors, AppendOfficeFanout
  <2> HIDE DEF ids
  <2>5. FirstPlaces(ids) \subseteq 1..Len(ids) /\ 1 \in FirstPlaces(ids)
    BY <2>1, <2>2 DEF FirstPlaces
  <2>6. \A i, j \in FirstPlaces(ids) : ids[i] = ids[j] => i = j
    BY <2>1 DEF FirstPlaces
  <2> QED BY <2>1, <2>3, <2>4, <2>5, <2>6
<1> QED BY <1>1, <1>2, <1>3

\* At most one leg of a call comes to recognition.
LEMMA OneCvLeg ==
  ASSUME CallTypes, NEW c \in Calls, LegsKept(c), pc[c] = "legs",
         NEW i \in DOMAIN legs[c], NEW j \in DOMAIN legs[c],
         legs[c][i] \in CvStates, legs[c][j] \in CvStates
  PROVE  i = j
<1>1. DOMAIN legs[c] = DOMAIN Plan(c) BY DEF LegsKept
<1>2. Plan(c)[i] = Plan(c)[j]
  <2>1. CASE PdfRouting(c)
    <3>1. Range(Plan(c)) = {"pdf"} BY <2>1 DEF PdfRouting
    <3> QED BY <1>1, <3>1 DEF Range
  <2>2. CASE ~PdfRouting(c) BY <2>2 DEF LegsKept
  <2> QED BY <2>1, <2>2
<1> QED BY <1>1, <1>2, RequestTyped, PlanPlaces DEF Plan

\* The functions of the calls are functions on the calls.
LEMMA Domains ==
  ASSUME CallTypes
  PROVE  /\ DOMAIN pc = Calls /\ DOMAIN request = Calls /\ DOMAIN cancelled = Calls
         /\ DOMAIN charge = Calls /\ DOMAIN fetched = Calls /\ DOMAIN slot = Calls
         /\ DOMAIN body = Calls /\ DOMAIN collectors_ran = Calls /\ DOMAIN legs = Calls
         /\ DOMAIN lease = Calls /\ DOMAIN cv_rows = Calls /\ DOMAIN doc = Calls
         /\ DOMAIN failures = Calls /\ DOMAIN overlaid = Calls /\ DOMAIN partial = Calls
         /\ DOMAIN status = Calls /\ DOMAIN recorded = Calls /\ DOMAIN finished = Calls
BY DEF CallTypes, TypeOK

\* Every step is one of these actions of a call, a worker or the executor.
LEMMA StepCases ==
  ASSUME [Next]_vars
  PROVE  \/ \E c \in Calls, r \in Requests : Call(c, r) \/ CallRefused(c, r)
         \/ \E c \in Calls : Cancel(c) \/ AdmitLoad(c) \/ AdmitCas(c) \/ Submit(c) \/ Dequeued(c) \/
              AcquireSlot(c) \/ Fetch(c) \/ ChargeLoad(c) \/ ChargeCas(c) \/ Decode(c) \/
              Gather(c) \/ Finalize(c) \/ Shape(c) \/ AcquireEngine(c) \/ Infer(c) \/
              Returned(c) \/ WriteDone(c) \/ OnDone(c)
         \/ \E c \in Calls : \E i \in DOMAIN legs[c] : LegStart(c, i) \/ LegAnswer(c, i) \/ AcquireLease(c,
              i) \/ CvNotRun(c, i) \/ BuildEngine(c, i) \/ Recognized(c, i)
         \/ \E w \in Workers : WorkerWait(w) \/ WorkerTake(w) \/ WorkerDone(w)
         \/ Stop
         \/ UNCHANGED vars
BY DEF Next, CallStep, WorkerStep, Quiet

\* A step is a step of call d, a worker's step with it, or leaves it alone.
LEMMA OwnStep ==
  ASSUME CallTypes, NEW d \in Calls, [Next]_vars
  PROVE  \/ Idle(d)
         \/ Cancel(d) \/ AdmitLoad(d) \/ AdmitCas(d) \/ Submit(d) \/ Dequeued(d)
         \/ AcquireSlot(d) \/ Fetch(d) \/ ChargeLoad(d) \/ ChargeCas(d) \/ Decode(d)
         \/ Gather(d) \/ Finalize(d) \/ Shape(d) \/ AcquireEngine(d) \/ Infer(d)
         \/ Returned(d) \/ WriteDone(d) \/ OnDone(d)
         \/ \E r \in Requests : Call(d, r) \/ CallRefused(d, r)
         \/ \E i \in DOMAIN legs[d] :
              \/ LegStart(d, i) \/ LegAnswer(d, i) \/ AcquireLease(d, i)
              \/ CvNotRun(d, i) \/ BuildEngine(d, i) \/ Recognized(d, i)
         \/ \E w \in Workers : WorkerTake(w) /\ Head(tasks) = d
         \/ \E w \in Workers : WorkerDone(w) /\ running[w] = d
<1>1. ASSUME NEW c \in Calls, NEW r \in Requests, Call(c, r) PROVE Idle(d) \/ (c = d /\ Call(d, r))
  <2>1. CASE c = d BY <1>1, <2>1
  <2>2. CASE c # d
    BY <1>1, <2>2, Domains DEF Call, Go, Idle
  <2> QED BY <2>1, <2>2
<1>2. ASSUME NEW c \in Calls, NEW r \in Requests, CallRefused(c, r) PROVE Idle(d) \/ (c = d /\ CallRefused(d, r))
  <2>1. CASE c = d BY <1>2, <2>1
  <2>2. CASE c # d
    BY <1>2, <2>2, Domains DEF CallRefused, Finish, Record, Go, Idle
  <2> QED BY <2>1, <2>2
<1>3. ASSUME NEW c \in Calls, Cancel(c) PROVE Idle(d) \/ Cancel(d)
  <2>1. CASE c = d BY <1>3, <2>1
  <2>2. CASE c # d
    BY <1>3, <2>2, Domains DEF Cancel, Idle
  <2> QED BY <2>1, <2>2
<1>4. ASSUME NEW c \in Calls, AdmitLoad(c) PROVE Idle(d) \/ AdmitLoad(d)
  <2>1. CASE c = d BY <1>4, <2>1
  <2>2. CASE c # d
    BY <1>4, <2>2, Domains DEF AdmitLoad, Go, Idle
  <2> QED BY <2>1, <2>2
<1>5. ASSUME NEW c \in Calls, AdmitCas(c) PROVE Idle(d) \/ AdmitCas(d)
  <2>1. CASE c = d BY <1>5, <2>1
  <2>2. CASE c # d
    BY <1>5, <2>2, Domains DEF AdmitCas, CompareExchange, Fits, Finish, Record, Go, Idle
  <2> QED BY <2>1, <2>2
<1>6. ASSUME NEW c \in Calls, Submit(c) PROVE Idle(d) \/ Submit(d)
  <2>1. CASE c = d BY <1>6, <2>1
  <2>2. CASE c # d
    BY <1>6, <2>2, Domains DEF Submit, TakenBack, Streamed, Finish, Record, Go, Idle
  <2> QED BY <2>1, <2>2
<1>7. ASSUME NEW c \in Calls, Dequeued(c) PROVE Idle(d) \/ Dequeued(d)
  <2>1. CASE c = d BY <1>7, <2>1
  <2>2. CASE c # d
    BY <1>7, <2>2, Domains DEF Dequeued, OptionsRefused, Return, Finish, Record, Go, Idle
  <2> QED BY <2>1, <2>2
<1>8. ASSUME NEW c \in Calls, AcquireSlot(c) PROVE Idle(d) \/ AcquireSlot(d)
  <2>1. CASE c = d BY <1>8, <2>1
  <2>2. CASE c # d
    BY <1>8, <2>2, Domains DEF AcquireSlot, Return, Go, Idle
  <2> QED BY <2>1, <2>2
<1>9. ASSUME NEW c \in Calls, Fetch(c) PROVE Idle(d) \/ Fetch(d)
  <2>1. CASE c = d BY <1>9, <2>1
  <2>2. CASE c # d
    BY <1>9, <2>2, Domains DEF Fetch, ReleaseSlot, Return, Go, Idle
  <2> QED BY <2>1, <2>2
<1>10. ASSUME NEW c \in Calls, ChargeLoad(c) PROVE Idle(d) \/ ChargeLoad(d)
  <2>1. CASE c = d BY <1>10, <2>1
  <2>2. CASE c # d
    BY <1>10, <2>2, Domains DEF ChargeLoad, Go, Idle
  <2> QED BY <2>1, <2>2
<1>11. ASSUME NEW c \in Calls, ChargeCas(c) PROVE Idle(d) \/ ChargeCas(d)
  <2>1. CASE c = d BY <1>11, <2>1
  <2>2. CASE c # d
    BY <1>11, <2>2, Domains DEF ChargeCas, CompareExchange, Fits, ReleaseSlot, Return, Go, Idle
  <2> QED BY <2>1, <2>2
<1>12. ASSUME NEW c \in Calls, Decode(c) PROVE Idle(d) \/ Decode(d)
  <2>1. CASE c = d BY <1>12, <2>1
  <2>2. CASE c # d
    BY <1>12, <2>2, Domains DEF Decode, Return, Go, Idle
  <2> QED BY <2>1, <2>2
<1>13. ASSUME NEW c \in Calls, Gather(c) PROVE Idle(d) \/ Gather(d)
  <2>1. CASE c = d BY <1>13, <2>1
  <2>2. CASE c # d
    BY <1>13, <2>2, Domains DEF Gather, Return, Go, Idle
  <2> QED BY <2>1, <2>2
<1>14. ASSUME NEW c \in Calls, Finalize(c) PROVE Idle(d) \/ Finalize(d)
  <2>1. CASE c = d BY <1>14, <2>1
  <2>2. CASE c # d
    BY <1>14, <2>2, Domains DEF Finalize, Return, Go, Idle
  <2> QED BY <2>1, <2>2
<1>15. ASSUME NEW c \in Calls, Shape(c) PROVE Idle(d) \/ Shape(d)
  <2>1. CASE c = d BY <1>15, <2>1
  <2>2. CASE c # d
    <3>1. pc'[d] = pc[d]
      BY <1>15, <2>2, Domains DEF Shape, Return, Go
    <3>2. partial'[d] = partial[d]
      <4>1. partial' = partial \/ \E v : partial' = [partial EXCEPT ![c] = v]
        BY Zenon, <1>15 DEF Shape
      <4> QED BY <2>2, <4>1, Domains
    <3>3. status'[d] = status[d]
      BY <1>15, <2>2, Domains DEF Shape, Return, Go
    <3>4. charge'[d] = charge[d]
      BY <1>15, <2>2, Domains DEF Shape, Return, Go
    <3>5. fetched'[d] = fetched[d]
      BY <1>15, <2>2, Domains DEF Shape, Return, Go
    <3> QED BY <1>15, <2>2, <3>1, <3>2, <3>3, <3>4, <3>5, Domains DEF Shape, Return, Go, Idle
  <2> QED BY <2>1, <2>2
<1>16. ASSUME NEW c \in Calls, AcquireEngine(c) PROVE Idle(d) \/ AcquireEngine(d)
  <2>1. CASE c = d BY <1>16, <2>1
  <2>2. CASE c # d
    BY <1>16, <2>2, Domains DEF AcquireEngine, Return, Go, Idle
  <2> QED BY <2>1, <2>2
<1>17. ASSUME NEW c \in Calls, Infer(c) PROVE Idle(d) \/ Infer(d)
  <2>1. CASE c = d BY <1>17, <2>1
  <2>2. CASE c # d
    BY <1>17, <2>2, Domains DEF Infer, Return, Go, Idle
  <2> QED BY <2>1, <2>2
<1>18. ASSUME NEW c \in Calls, Returned(c) PROVE Idle(d) \/ Returned(d)
  <2>1. CASE c = d BY <1>18, <2>1
  <2>2. CASE c # d
    BY <1>18, <2>2, Domains DEF Returned, Streamed, Record, Completion, DropParse, Go, Idle
  <2> QED BY <2>1, <2>2
<1>19. ASSUME NEW c \in Calls, WriteDone(c) PROVE Idle(d) \/ WriteDone(d)
  <2>1. CASE c = d BY <1>19, <2>1
  <2>2. CASE c # d
    BY <1>19, <2>2, Domains DEF WriteDone, Finish, Go, Idle
  <2> QED BY <2>1, <2>2
<1>20. ASSUME NEW c \in Calls, OnDone(c) PROVE Idle(d) \/ OnDone(d)
  <2>1. CASE c = d BY <1>20, <2>1
  <2>2. CASE c # d
    <3>1. pc'[d] = pc[d]
      BY <1>20, <2>2, Domains DEF OnDone, Streamed, Go
    <3>2. partial'[d] = partial[d]
      BY <1>20, <2>2, Domains DEF OnDone, Streamed, Go
    <3>3. status'[d] = status[d]
      BY <1>20, <2>2, Domains DEF OnDone, Streamed, Go
    <3>4. charge'[d] = charge[d]
      BY <1>20, <2>2, Domains DEF OnDone, Streamed, Go
    <3>5. fetched'[d] = fetched[d]
      BY <1>20, <2>2, Domains DEF OnDone, Streamed, Go
    <3> QED BY <1>20, <2>2, <3>1, <3>2, <3>3, <3>4, <3>5, Domains DEF OnDone, Streamed, Go, Idle
  <2> QED BY <2>1, <2>2
<1>21. ASSUME NEW c \in Calls, NEW i \in DOMAIN legs[c], LegStart(c, i)
      PROVE  Idle(d) \/ (i \in DOMAIN legs[d] /\ LegStart(d, i))
  <2>1. CASE c = d BY <1>21, <2>1
  <2>2. CASE c # d
    BY <1>21, <2>2, Domains DEF LegStart, LegActive, SetLeg, OnlyLegs, Idle
  <2> QED BY <2>1, <2>2
<1>22. ASSUME NEW c \in Calls, NEW i \in DOMAIN legs[c], LegAnswer(c, i)
      PROVE  Idle(d) \/ (i \in DOMAIN legs[d] /\ LegAnswer(d, i))
  <2>1. CASE c = d BY <1>22, <2>1
  <2>2. CASE c # d
    BY <1>22, <2>2, Domains DEF LegAnswer, LegActive, SetLeg, RoutePdfLeg, OnlyLegs, Idle
  <2> QED BY <2>1, <2>2
<1>23. ASSUME NEW c \in Calls, NEW i \in DOMAIN legs[c], AcquireLease(c, i)
      PROVE  Idle(d) \/ (i \in DOMAIN legs[d] /\ AcquireLease(d, i))
  <2>1. CASE c = d BY <1>23, <2>1
  <2>2. CASE c # d
    BY <1>23, <2>2, Domains DEF AcquireLease, LegActive, SetLeg, OnlyLegs, Idle
  <2> QED BY <2>1, <2>2
<1>24. ASSUME NEW c \in Calls, NEW i \in DOMAIN legs[c], CvNotRun(c, i)
      PROVE  Idle(d) \/ (i \in DOMAIN legs[d] /\ CvNotRun(d, i))
  <2>1. CASE c = d BY <1>24, <2>1
  <2>2. CASE c # d
    BY <1>24, <2>2, Domains DEF CvNotRun, LegActive, SetLeg, OnlyLegs, Idle
  <2> QED BY <2>1, <2>2
<1>25. ASSUME NEW c \in Calls, NEW i \in DOMAIN legs[c], BuildEngine(c, i)
      PROVE  Idle(d) \/ (i \in DOMAIN legs[d] /\ BuildEngine(d, i))
  <2>1. CASE c = d BY <1>25, <2>1
  <2>2. CASE c # d
    BY <1>25, <2>2, Domains DEF BuildEngine, LegActive, SetLeg, ReleaseLease, OnlyLegs, Idle
  <2> QED BY <2>1, <2>2
<1>26. ASSUME NEW c \in Calls, NEW i \in DOMAIN legs[c], Recognized(c, i)
      PROVE  Idle(d) \/ (i \in DOMAIN legs[d] /\ Recognized(d, i))
  <2>1. CASE c = d BY <1>26, <2>1
  <2>2. CASE c # d
    BY <1>26, <2>2, Domains DEF Recognized, LegActive, SetLeg, ReleaseLease, OnlyLegs, Idle
  <2> QED BY <2>1, <2>2
<1>27. ASSUME NEW w \in Workers, WorkerWait(w) PROVE Idle(d)
  BY <1>27, Domains DEF WorkerWait, Free, Idle
<1>28. ASSUME NEW w \in Workers, WorkerTake(w), Head(tasks) # d PROVE Idle(d)
  BY <1>28, Domains DEF WorkerTake, Free, Go, Idle
<1>29. ASSUME NEW w \in Workers, WorkerDone(w), running[w] # d PROVE Idle(d)
  BY <1>29, Domains DEF WorkerDone, TakenBack, Streamed, Idle
<1>30. CASE Stop BY <1>30 DEF Stop, Idle
<1>31. CASE UNCHANGED vars BY <1>31 DEF vars, Idle
<1> QED BY StepCases, <1>1, <1>2, <1>3, <1>4, <1>5, <1>6, <1>7, <1>8, <1>9, <1>10, <1>11, <1>12,
    <1>13, <1>14, <1>15, <1>16, <1>17, <1>18, <1>19, <1>20, <1>21, <1>22, <1>23, <1>24, <1>25,
    <1>26, <1>27, <1>28, <1>29, <1>30, <1>31

\* What the answer's steps need of the types.
LEMMA AnswerTypes ==
  ASSUME CallTypes
  PROVE  /\ pc \in [Calls -> PCs] /\ finished \in [Calls -> Nat] /\ status \in [Calls -> Codes]
         /\ DOMAIN recorded = Calls /\ collectors_ran \in [Calls -> BOOLEAN]
BY DEF CallTypes, TypeOK

\* Recording a completion where none is makes it the only one.
LEMMA FirstRecord ==
  /\ Append(<<>>, "rejected") = <<"rejected">> /\ Append(<<>>, "failure") = <<"failure">>
  /\ Append(<<>>, "success") = <<"success">> /\ Append(<<>>, "partial") = <<"partial">>
OBVIOUS

\* Completions are told apart.
LEMMA CompletionsDiffer ==
  <<"rejected">> # <<"success">> /\ <<"rejected">> # <<"partial">> /\ <<"rejected">> # <<"failure">>
OBVIOUS

\* The call a worker takes is one that waits.
LEMMA HeadWaits ==
  ASSUME CallTypes, QueueKept, tasks # <<>>
  PROVE  Head(tasks) \in Calls /\ pc[Head(tasks)] = "queued"
<1>1. tasks \in Seq(Calls) BY DEF CallTypes, TypeOK
<1>2. Head(tasks) = tasks[1] /\ 1 \in DOMAIN tasks /\ tasks[1] \in Calls BY <1>1
<1> QED BY <1>2 DEF QueueKept

\* A call is answered by its last step, and counted just before.
LEMMA AnswerStep ==
  ASSUME CallTypes, QueueKept, NEW d \in Calls, AnswerKept(d), [Next]_vars
  PROVE  AnswerKept(d)'
<1>1. CASE Idle(d)
  BY <1>1, AnswerTypes DEF Idle, AnswerKept, EarlyPCs
<1>2. ASSUME NEW r \in Requests, Call(d, r) PROVE AnswerKept(d)'
  BY <1>2, AnswerTypes DEF Call, Go, AnswerKept, EarlyPCs
<1>3. ASSUME NEW r \in Requests, CallRefused(d, r) PROVE AnswerKept(d)'
  BY <1>3, AnswerTypes, FirstRecord DEF CallRefused, Finish, Record, Go, AnswerKept, EarlyPCs,
     Counted
<1>4. CASE Cancel(d)
  BY <1>4, AnswerTypes DEF Cancel, AnswerKept, EarlyPCs
<1>5. CASE AdmitLoad(d)
  BY <1>5, AnswerTypes DEF AdmitLoad, Go, AnswerKept, EarlyPCs
<1>6. CASE AdmitCas(d)
  BY <1>6, AnswerTypes, FirstRecord DEF AdmitCas, CompareExchange, Fits, Finish, Record, Go,
     AnswerKept, EarlyPCs, Counted
<1>7. CASE Submit(d)
  BY <1>7, AnswerTypes, FirstRecord DEF Submit, TakenBack, Streamed, Finish, Record, Go,
     AnswerKept, EarlyPCs, Counted
<1>8. CASE Dequeued(d)
  BY <1>8, AnswerTypes, FirstRecord, CompletionsDiffer DEF Dequeued, OptionsRefused, Return,
     Finish, Record, Go, AnswerKept, EarlyPCs, Counted
<1>9. CASE AcquireSlot(d)
  BY <1>9, AnswerTypes DEF AcquireSlot, Return, Go, AnswerKept, EarlyPCs
<1>10. CASE Fetch(d)
  BY <1>10, AnswerTypes DEF Fetch, ReleaseSlot, Return, Go, AnswerKept, EarlyPCs
<1>11. CASE ChargeLoad(d)
  BY <1>11, AnswerTypes DEF ChargeLoad, Go, AnswerKept, EarlyPCs
<1>12. CASE ChargeCas(d)
  BY <1>12, AnswerTypes DEF ChargeCas, CompareExchange, Fits, ReleaseSlot, Return, Go, AnswerKept,
     EarlyPCs
<1>13. CASE Decode(d)
  BY <1>13, AnswerTypes DEF Decode, Return, Go, AnswerKept, EarlyPCs
<1>14. CASE Gather(d)
  BY <1>14, AnswerTypes DEF Gather, Return, Go, AnswerKept, EarlyPCs
<1>15. CASE Finalize(d)
  BY <1>15, AnswerTypes DEF Finalize, Return, Go, AnswerKept, EarlyPCs
<1>16. CASE Shape(d)
  BY <1>16, AnswerTypes DEF Shape, Return, Go, AnswerKept, EarlyPCs
<1>17. CASE AcquireEngine(d)
  BY <1>17, AnswerTypes DEF AcquireEngine, Return, Go, AnswerKept, EarlyPCs
<1>18. CASE Infer(d)
  BY <1>18, AnswerTypes DEF Infer, Return, Go, AnswerKept, EarlyPCs
<1>19. CASE Returned(d)
  <2>1. pc[d] = "returned" /\ recorded'[d] = <<Completion(d)>> /\ finished[d] = 0
    BY <1>19, AnswerTypes, FirstRecord DEF Returned, Record, Completion, AnswerKept
  <2>2. status'[d] = status[d] /\ collectors_ran'[d] = collectors_ran[d]
    BY <1>19 DEF Returned
  <2>3. CASE Streamed(d) /\ status[d] = "OK"
    <3>1. pc'[d] = "writing" /\ finished'[d] = 0
      BY <1>19, <2>1, <2>3, AnswerTypes DEF Returned, Go
    <3> QED BY <2>1, <2>2, <2>3, <3>1 DEF AnswerKept, EarlyPCs, Completion
  <2>4. CASE ~(Streamed(d) /\ status[d] = "OK")
    <3>1. pc'[d] = "finished" /\ finished'[d] = 1
      BY <1>19, <2>1, <2>4, AnswerTypes DEF Returned, Go
    <3> QED BY <2>1, <2>2, <3>1, CompletionsDiffer
           DEF AnswerKept, EarlyPCs, Completion, Counted
  <2> QED BY <2>3, <2>4
<1>20. CASE WriteDone(d)
  <2>1. /\ pc[d] = "writing" /\ recorded'[d] = recorded[d] /\ finished[d] = 0
        /\ recorded[d] \in {<<"success">>, <<"partial">>} /\ status[d] = "OK"
    BY <1>20 DEF WriteDone, AnswerKept
  <2>2. \/ pc'[d] = "writing" /\ finished'[d] = 0 /\ status'[d] = status[d]
        \/ pc'[d] = "finished" /\ finished'[d] = 1
    BY <1>20, <2>1, AnswerTypes DEF WriteDone, Finish, Go
  <2> QED BY <2>1, <2>2, CompletionsDiffer DEF AnswerKept, EarlyPCs, Counted
<1>21. CASE OnDone(d)
  BY <1>21, AnswerTypes DEF OnDone, Streamed, Go, AnswerKept, EarlyPCs
<1>22. ASSUME NEW i \in DOMAIN legs[d], LegStart(d, i) PROVE AnswerKept(d)'
  BY <1>22, AnswerTypes DEF LegStart, LegActive, SetLeg, OnlyLegs, AnswerKept, EarlyPCs
<1>23. ASSUME NEW i \in DOMAIN legs[d], LegAnswer(d, i) PROVE AnswerKept(d)'
  BY <1>23, AnswerTypes DEF LegAnswer, LegActive, SetLeg, RoutePdfLeg, OnlyLegs, AnswerKept,
     EarlyPCs
<1>24. ASSUME NEW i \in DOMAIN legs[d], AcquireLease(d, i) PROVE AnswerKept(d)'
  BY <1>24, AnswerTypes DEF AcquireLease, LegActive, SetLeg, OnlyLegs, AnswerKept, EarlyPCs
<1>25. ASSUME NEW i \in DOMAIN legs[d], CvNotRun(d, i) PROVE AnswerKept(d)'
  BY <1>25, AnswerTypes DEF CvNotRun, LegActive, SetLeg, OnlyLegs, AnswerKept, EarlyPCs
<1>26. ASSUME NEW i \in DOMAIN legs[d], BuildEngine(d, i) PROVE AnswerKept(d)'
  BY <1>26, AnswerTypes DEF BuildEngine, LegActive, SetLeg, ReleaseLease, OnlyLegs, AnswerKept,
     EarlyPCs
<1>27. ASSUME NEW i \in DOMAIN legs[d], Recognized(d, i) PROVE AnswerKept(d)'
  BY <1>27, AnswerTypes DEF Recognized, LegActive, SetLeg, ReleaseLease, OnlyLegs, AnswerKept,
     EarlyPCs
<1>28. ASSUME NEW w \in Workers, WorkerTake(w), Head(tasks) = d PROVE AnswerKept(d)'
  BY <1>28, AnswerTypes, HeadWaits DEF WorkerTake, Free, Go, AnswerKept, EarlyPCs
<1>29. ASSUME NEW w \in Workers, WorkerDone(w), running[w] = d PROVE AnswerKept(d)'
  BY <1>29, AnswerTypes DEF WorkerDone, TakenBack, Streamed, AnswerKept, EarlyPCs
<1> QED BY OwnStep, <1>1, <1>2, <1>3, <1>4, <1>5, <1>6, <1>7, <1>8, <1>9, <1>10, <1>11, <1>12,
    <1>13, <1>14, <1>15, <1>16, <1>17, <1>18, <1>19, <1>20, <1>21, <1>22, <1>23, <1>24, <1>25,
    <1>26, <1>27, <1>28, <1>29

\* A step that moves one call, which is not queued, and leaves the executor alone
\* keeps its queue.
LEMMA QueueFrame ==
  ASSUME CallTypes, QueueKept, NEW c \in Calls, pc[c] # "queued",
         \A d \in Calls \ {c} : pc'[d] = pc[d],
         tasks' = tasks, running' = running, stopping' = stopping
  PROVE  QueueKept'
<1>1. tasks \in Seq(Calls) BY DEF CallTypes, TypeOK
<1>2. \A i \in DOMAIN tasks : tasks[i] \in Calls BY <1>1
<1> QED BY <1>2 DEF QueueKept

\* Only a queued call is in the queue, and a worker leaves it empty.
LEMMA QueueStep ==
  ASSUME CallTypes, QueueKept, [Next]_vars
  PROVE  QueueKept'
<1>1. ASSUME NEW c \in Calls, NEW r \in Requests, Call(c, r) PROVE QueueKept'
  <2>1. /\ pc[c] # "queued" /\ \A d \in Calls \ {c} : pc'[d] = pc[d]
        /\ tasks' = tasks /\ running' = running /\ stopping' = stopping
    BY <1>1, AnswerTypes DEF Call, Go
  <2> QED BY <2>1, QueueFrame
<1>2. ASSUME NEW c \in Calls, NEW r \in Requests, CallRefused(c, r) PROVE QueueKept'
  <2>1. /\ pc[c] # "queued" /\ \A d \in Calls \ {c} : pc'[d] = pc[d]
        /\ tasks' = tasks /\ running' = running /\ stopping' = stopping
    BY <1>2, AnswerTypes DEF CallRefused, Finish, Record, Go
  <2> QED BY <2>1, QueueFrame
<1>3. ASSUME NEW c \in Calls, Cancel(c) PROVE QueueKept'
  BY <1>3 DEF Cancel, QueueKept
<1>4. ASSUME NEW c \in Calls, AdmitLoad(c) PROVE QueueKept'
  <2>1. /\ pc[c] # "queued" /\ \A d \in Calls \ {c} : pc'[d] = pc[d]
        /\ tasks' = tasks /\ running' = running /\ stopping' = stopping
    BY <1>4, AnswerTypes DEF AdmitLoad, Go
  <2> QED BY <2>1, QueueFrame
<1>5. ASSUME NEW c \in Calls, AdmitCas(c) PROVE QueueKept'
  <2>1. /\ pc[c] # "queued" /\ \A d \in Calls \ {c} : pc'[d] = pc[d]
        /\ tasks' = tasks /\ running' = running /\ stopping' = stopping
    BY <1>5, AnswerTypes DEF AdmitCas, CompareExchange, Fits, Finish, Record, Go
  <2> QED BY <2>1, QueueFrame
<1>6. ASSUME NEW c \in Calls, Submit(c) PROVE QueueKept'
  <2>1. pc[c] = "submit" /\ tasks \in Seq(Calls) /\ pc \in [Calls -> PCs]
    BY <1>6 DEF Submit, CallTypes, TypeOK
  <2>2. CASE stopping \/ Len(tasks) >= QueueCapacity
    <3>1. /\ \A d \in Calls \ {c} : pc'[d] = pc[d]
          /\ tasks' = tasks /\ running' = running /\ stopping' = stopping
      BY <1>6, <2>1, <2>2 DEF Submit, Go
    <3> QED BY <2>1, <3>1, QueueFrame
  <2>3. CASE ~(stopping \/ Len(tasks) >= QueueCapacity)
    <3>1. /\ tasks' = Append(tasks, c) /\ running' = running /\ stopping' = stopping
          /\ pc' = [pc EXCEPT ![c] = "queued"]
      BY <1>6, <2>3 DEF Submit, Go
    <3>2. DOMAIN tasks = 1..Len(tasks) /\ Len(tasks) \in Nat
          /\ \A i \in 1..Len(tasks) : tasks[i] \in Calls /\ tasks[i] # c
      BY <2>1 DEF QueueKept
    <3>3. /\ DOMAIN tasks' = 1..(Len(tasks) + 1) /\ tasks'[Len(tasks) + 1] = c
          /\ \A i \in 1..Len(tasks) : tasks'[i] = tasks[i]
      BY <2>1, <3>1
    <3>4. \A i \in 1..(Len(tasks) + 1) : i \in 1..Len(tasks) \/ i = Len(tasks) + 1 BY <3>2
    <3>5. \A i \in DOMAIN tasks' : pc'[tasks'[i]] = "queued"
      BY <2>1, <3>1, <3>2, <3>3, <3>4 DEF QueueKept
    <3>6. \A i, j \in DOMAIN tasks' : tasks'[i] = tasks'[j] => i = j
      BY <3>2, <3>3, <3>4 DEF QueueKept
    <3>7. \A w \in Workers : running'[w] # "exited" BY <2>3, <3>1 DEF QueueKept
    <3> QED BY <3>5, <3>6, <3>7 DEF QueueKept
  <2> QED BY <2>2, <2>3
<1>7. ASSUME NEW c \in Calls, Dequeued(c) PROVE QueueKept'
  <2>1. /\ pc[c] # "queued" /\ \A d \in Calls \ {c} : pc'[d] = pc[d]
        /\ tasks' = tasks /\ running' = running /\ stopping' = stopping
    BY <1>7, AnswerTypes DEF Dequeued, OptionsRefused, Return, Finish, Record, Go
  <2> QED BY <2>1, QueueFrame
<1>8. ASSUME NEW c \in Calls, AcquireSlot(c) PROVE QueueKept'
  <2>1. /\ pc[c] # "queued" /\ \A d \in Calls \ {c} : pc'[d] = pc[d]
        /\ tasks' = tasks /\ running' = running /\ stopping' = stopping
    BY <1>8, AnswerTypes DEF AcquireSlot, Return, Go
  <2> QED BY <2>1, QueueFrame
<1>9. ASSUME NEW c \in Calls, Fetch(c) PROVE QueueKept'
  <2>1. /\ pc[c] # "queued" /\ \A d \in Calls \ {c} : pc'[d] = pc[d]
        /\ tasks' = tasks /\ running' = running /\ stopping' = stopping
    BY <1>9, AnswerTypes DEF Fetch, ReleaseSlot, Return, Go
  <2> QED BY <2>1, QueueFrame
<1>10. ASSUME NEW c \in Calls, ChargeLoad(c) PROVE QueueKept'
  <2>1. /\ pc[c] # "queued" /\ \A d \in Calls \ {c} : pc'[d] = pc[d]
        /\ tasks' = tasks /\ running' = running /\ stopping' = stopping
    BY <1>10, AnswerTypes DEF ChargeLoad, Go
  <2> QED BY <2>1, QueueFrame
<1>11. ASSUME NEW c \in Calls, ChargeCas(c) PROVE QueueKept'
  <2>1. /\ pc[c] # "queued" /\ \A d \in Calls \ {c} : pc'[d] = pc[d]
        /\ tasks' = tasks /\ running' = running /\ stopping' = stopping
    BY <1>11, AnswerTypes DEF ChargeCas, CompareExchange, Fits, ReleaseSlot, Return, Go
  <2> QED BY <2>1, QueueFrame
<1>12. ASSUME NEW c \in Calls, Decode(c) PROVE QueueKept'
  <2>1. /\ pc[c] # "queued" /\ \A d \in Calls \ {c} : pc'[d] = pc[d]
        /\ tasks' = tasks /\ running' = running /\ stopping' = stopping
    BY <1>12, AnswerTypes DEF Decode, Return, Go
  <2> QED BY <2>1, QueueFrame
<1>13. ASSUME NEW c \in Calls, Gather(c) PROVE QueueKept'
  <2>1. /\ pc[c] # "queued" /\ \A d \in Calls \ {c} : pc'[d] = pc[d]
        /\ tasks' = tasks /\ running' = running /\ stopping' = stopping
    BY <1>13, AnswerTypes DEF Gather, Return, Go
  <2> QED BY <2>1, QueueFrame
<1>14. ASSUME NEW c \in Calls, Finalize(c) PROVE QueueKept'
  <2>1. /\ pc[c] # "queued" /\ \A d \in Calls \ {c} : pc'[d] = pc[d]
        /\ tasks' = tasks /\ running' = running /\ stopping' = stopping
    BY <1>14, AnswerTypes DEF Finalize, Return, Go
  <2> QED BY <2>1, QueueFrame
<1>15. ASSUME NEW c \in Calls, Shape(c) PROVE QueueKept'
  <2>1. /\ pc[c] # "queued" /\ \A d \in Calls \ {c} : pc'[d] = pc[d]
        /\ tasks' = tasks /\ running' = running /\ stopping' = stopping
    BY <1>15, AnswerTypes DEF Shape, Return, Go
  <2> QED BY <2>1, QueueFrame
<1>16. ASSUME NEW c \in Calls, AcquireEngine(c) PROVE QueueKept'
  <2>1. /\ pc[c] # "queued" /\ \A d \in Calls \ {c} : pc'[d] = pc[d]
        /\ tasks' = tasks /\ running' = running /\ stopping' = stopping
    BY <1>16, AnswerTypes DEF AcquireEngine, Return, Go
  <2> QED BY <2>1, QueueFrame
<1>17. ASSUME NEW c \in Calls, Infer(c) PROVE QueueKept'
  <2>1. /\ pc[c] # "queued" /\ \A d \in Calls \ {c} : pc'[d] = pc[d]
        /\ tasks' = tasks /\ running' = running /\ stopping' = stopping
    BY <1>17, AnswerTypes DEF Infer, Return, Go
  <2> QED BY <2>1, QueueFrame
<1>18. ASSUME NEW c \in Calls, Returned(c) PROVE QueueKept'
  <2>1. /\ pc[c] # "queued" /\ \A d \in Calls \ {c} : pc'[d] = pc[d]
        /\ tasks' = tasks /\ running' = running /\ stopping' = stopping
    BY <1>18, AnswerTypes DEF Returned, Streamed, Record, Completion, DropParse, Go
  <2> QED BY <2>1, QueueFrame
<1>19. ASSUME NEW c \in Calls, WriteDone(c) PROVE QueueKept'
  <2>1. /\ pc[c] # "queued" /\ \A d \in Calls \ {c} : pc'[d] = pc[d]
        /\ tasks' = tasks /\ running' = running /\ stopping' = stopping
    BY <1>19, AnswerTypes DEF WriteDone, Finish, Go
  <2> QED BY <2>1, QueueFrame
<1>20. ASSUME NEW c \in Calls, OnDone(c) PROVE QueueKept'
  <2>1. /\ pc[c] # "queued" /\ \A d \in Calls \ {c} : pc'[d] = pc[d]
        /\ tasks' = tasks /\ running' = running /\ stopping' = stopping
    BY <1>20, AnswerTypes DEF OnDone, Streamed, Go
  <2> QED BY <2>1, QueueFrame
<1>21. ASSUME NEW c \in Calls, NEW i \in DOMAIN legs[c], LegStart(c, i) PROVE QueueKept'
  BY <1>21 DEF LegStart, LegActive, SetLeg, OnlyLegs, QueueKept
<1>22. ASSUME NEW c \in Calls, NEW i \in DOMAIN legs[c], LegAnswer(c, i) PROVE QueueKept'
  BY <1>22 DEF LegAnswer, LegActive, SetLeg, RoutePdfLeg, OnlyLegs, QueueKept
<1>23. ASSUME NEW c \in Calls, NEW i \in DOMAIN legs[c], AcquireLease(c, i) PROVE QueueKept'
  BY <1>23 DEF AcquireLease, LegActive, SetLeg, OnlyLegs, QueueKept
<1>24. ASSUME NEW c \in Calls, NEW i \in DOMAIN legs[c], CvNotRun(c, i) PROVE QueueKept'
  BY <1>24 DEF CvNotRun, LegActive, SetLeg, OnlyLegs, QueueKept
<1>25. ASSUME NEW c \in Calls, NEW i \in DOMAIN legs[c], BuildEngine(c, i) PROVE QueueKept'
  BY <1>25 DEF BuildEngine, LegActive, SetLeg, ReleaseLease, OnlyLegs, QueueKept
<1>26. ASSUME NEW c \in Calls, NEW i \in DOMAIN legs[c], Recognized(c, i) PROVE QueueKept'
  BY <1>26 DEF Recognized, LegActive, SetLeg, ReleaseLease, OnlyLegs, QueueKept
<1>27. ASSUME NEW w \in Workers, WorkerWait(w) PROVE QueueKept'
  <2>1. running \in [Workers -> Calls \cup {NoCall, "exited"}] BY DEF CallTypes, TypeOK
  <2> QED BY <1>27, <2>1 DEF WorkerWait, Free, QueueKept
<1>28. ASSUME NEW w \in Workers, WorkerTake(w) PROVE QueueKept'
  <2>1. running \in [Workers -> Calls \cup {NoCall, "exited"}] BY DEF CallTypes, TypeOK
  <2>2. tasks \in Seq(Calls) /\ pc \in [Calls -> PCs] BY DEF CallTypes, TypeOK
  <2>3. tasks # <<>> /\ tasks' = Tail(tasks) /\ running' = [running EXCEPT ![w] = Head(tasks)]
        /\ stopping' = stopping /\ pc' = [pc EXCEPT ![Head(tasks)] = "dequeued"]
    BY <1>28 DEF WorkerTake, Go
  <2>4. Head(tasks) = tasks[1] /\ DOMAIN tasks = 1..Len(tasks) /\ Len(tasks) \in Nat \ {0}
    BY <2>2, <2>3
  <2>5. DOMAIN tasks' = 1..(Len(tasks) - 1) /\ \A i \in 1..(Len(tasks) - 1) : tasks'[i] =
      tasks[i + 1]
    BY <2>2, <2>3, <2>4
  <2>6. \A i \in 1..(Len(tasks) - 1) : i + 1 \in 1..Len(tasks) /\ i + 1 # 1 BY <2>4
  <2>7. \A i \in 1..(Len(tasks) - 1) : tasks[i + 1] \in Calls /\ tasks[i + 1] # tasks[1]
    BY <2>2, <2>4, <2>6 DEF QueueKept
  <2>8. \A i \in DOMAIN tasks' : pc'[tasks'[i]] = "queued"
    BY <2>2, <2>3, <2>4, <2>5, <2>6, <2>7 DEF QueueKept
  <2>9. \A i, j \in DOMAIN tasks' : tasks'[i] = tasks'[j] => i = j
    BY <2>4, <2>5, <2>6 DEF QueueKept
  <2>10. \A v \in Workers : running'[v] # "exited"
    BY <2>1, <2>3, HeadWaits, ParseAssumption DEF QueueKept, ParseAssumption
  <2> QED BY <2>8, <2>9, <2>10 DEF QueueKept
<1>29. ASSUME NEW w \in Workers, WorkerDone(w) PROVE QueueKept'
  <2>1. running \in [Workers -> Calls \cup {NoCall, "exited"}] BY DEF CallTypes, TypeOK
  <2>2. tasks' = tasks /\ stopping' = stopping /\ pc' = pc /\ running' = [running EXCEPT ![w] =
      NoCall]
    BY <1>29 DEF WorkerDone
  <2>3. NoCall # "exited" BY ParseAssumption DEF ParseAssumption
  <2> QED BY <1>29, <2>1, <2>2, <2>3 DEF QueueKept, WorkerDone
<1>30. CASE Stop
  BY <1>30 DEF Stop, QueueKept
<1>31. CASE UNCHANGED vars
  BY <1>31 DEF vars, QueueKept
<1> QED BY StepCases, <1>1, <1>2, <1>3, <1>4, <1>5, <1>6, <1>7, <1>8, <1>9, <1>10, <1>11, <1>12,
    <1>13, <1>14, <1>15, <1>16, <1>17, <1>18, <1>19, <1>20, <1>21, <1>22, <1>23, <1>24, <1>25,
    <1>26, <1>27, <1>28, <1>29, <1>30, <1>31

\* What the pool's free stack gives, and what is left of it.
LEMMA LastOfSlots ==
  ASSUME NEW S, NEW q \in Seq(S), q # <<>>
  PROVE  /\ Last(q) \in S /\ Len(q) \in Nat \ {0} /\ Last(q) = q[Len(q)]
         /\ Front(q) \in Seq(S) /\ Len(Front(q)) = Len(q) - 1
         /\ \A k \in 1..(Len(q) - 1) : Front(q)[k] = q[k]
<1>1. Len(q) \in Nat \ {0} OBVIOUS
<1>2. Len(q) \in 1..Len(q) /\ Len(q) - 1 \in 0..Len(q) BY <1>1
<1>3. q[Len(q)] \in S BY <1>2
<1>4. Front(q) = SubSeq(q, 1, Len(q) - 1) BY DEF Front
<1>5. /\ SubSeq(q, 1, Len(q) - 1) \in Seq(S) /\ Len(SubSeq(q, 1, Len(q) - 1)) = Len(q) - 1
      /\ \A k \in 1..(Len(q) - 1) : SubSeq(q, 1, Len(q) - 1)[k] = q[k]
  <2>1. \A k \in 1..(Len(q) - 1) : q[k] \in S BY <1>1
  <2> DEFINE n == Len(q) - 1
  <2>2. n \in Nat /\ n \in Int /\ 1 \in Int BY <1>1
  <2>3. \A k \in 1..n : q[k] \in S BY <2>1
  <2> HIDE DEF n
  <2>4. /\ SubSeq(q, 1, n) \in Seq(S) /\ Len(SubSeq(q, 1, n)) = IF 1 <= n THEN n - 1 + 1 ELSE 0
        /\ \A k \in 1..(n - 1 + 1) : SubSeq(q, 1, n)[k] = q[1 + k - 1]
    BY <2>2, <2>3, SubSeqProperties
  <2>5. n - 1 + 1 = n /\ (~(1 <= n) => n = 0) /\ \A k \in 1..n : 1 + k - 1 = k BY <2>2
  <2>6. /\ SubSeq(q, 1, n) \in Seq(S) /\ Len(SubSeq(q, 1, n)) = n
        /\ \A k \in 1..n : SubSeq(q, 1, n)[k] = q[k]
    BY <2>4, <2>5
  <2> QED BY <2>6 DEF n
<1> QED BY <1>1, <1>3, <1>4, <1>5 DEF Last

\* The plan of a call whose request stays is the same.
LEMMA PlanFrame ==
  ASSUME NEW d \in Calls, request'[d] = request[d]
  PROVE  /\ Plan(d)' = Plan(d) /\ Native(d)' = Native(d) /\ Vlm(d)' = Vlm(d)
         /\ PdfRouting(d)' = PdfRouting(d) /\ Unserved(d)' = Unserved(d)
BY DEF Plan, Native, Vlm, PdfRouting, Unserved

\* What the legs' steps need of the types.
LEMMA LegTypes ==
  ASSUME CallTypes
  PROVE  /\ pc \in [Calls -> PCs] /\ DOMAIN legs = Calls /\ lease \in [Calls -> 0..PoolSize]
         /\ \A c \in Calls : \A i \in DOMAIN legs[c] : legs[c][i] \in LegStates
         /\ cancelled \in [Calls -> BOOLEAN] /\ request \in [Calls -> Requests \cup {NoRequest}]
         /\ status \in [Calls -> Codes]
BY DEF CallTypes, TypeOK

\* A call without legs keeps none, and no lease, wherever it goes.
LEMMA NoLegsFrame ==
  ASSUME NEW d \in Calls, LegsKept(d), pc[d] # "legs", pc'[d] # "legs",
         legs'[d] = legs[d], lease'[d] = lease[d]
  PROVE  LegsKept(d)'
BY DEF LegsKept

\* Setting one leg leaves the others and the plan as they were.
LEMMA SetLegFrame ==
  ASSUME CallTypes, NEW d \in Calls, LegsKept(d), NEW i \in DOMAIN legs[d], NEW s,
         pc[d] = "legs", SetLeg(d, i, s), pc' = pc, request' = request,
         s \notin {"OK", "none"},
         s \in CvStates => ~Native(d) /\ (Plan(d)[i] = "cv" \/ PdfRouting(d)),
         lease'[d] # 0 <=> s \in {"leased", "recognizing"}
                           \/ \E j \in DOMAIN legs[d] \ {i} : legs[d][j] \in {"leased", "recognizing"}
  PROVE  LegsKept(d)'
<1>1. legs'[d] = [legs[d] EXCEPT ![i] = s] /\ DOMAIN legs'[d] = DOMAIN legs[d]
  BY LegTypes DEF SetLeg
<1>2. legs'[d][i] = s /\ \A j \in DOMAIN legs[d] \ {i} : legs'[d][j] = legs[d][j] BY <1>1
<1>3. /\ DOMAIN legs[d] = DOMAIN Plan(d) /\ ~Unserved(d)
      /\ \A j \in DOMAIN legs[d] :
           /\ legs[d][j] \notin {"OK", "none"}
           /\ legs[d][j] \in CvStates => ~Native(d) /\ (Plan(d)[j] = "cv" \/ PdfRouting(d))
  BY DEF LegsKept
<1>4. /\ Plan(d)' = Plan(d) /\ Native(d)' = Native(d) /\ Unserved(d)' = Unserved(d)
      /\ PdfRouting(d)' = PdfRouting(d)
  BY PlanFrame
<1>5. pc'[d] = "legs" OBVIOUS
<1>6. lease'[d] # 0 <=> \E j \in DOMAIN legs'[d] : legs'[d][j] \in {"leased", "recognizing"}
  BY <1>1, <1>2
<1>7. \A j \in DOMAIN legs'[d] :
        /\ legs'[d][j] \notin {"OK", "none"}
        /\ legs'[d][j] \in CvStates => ~Native(d) /\ (Plan(d)[j] = "cv" \/ PdfRouting(d))
  BY <1>1, <1>2, <1>3
<1> QED BY <1>1, <1>3, <1>4, <1>5, <1>6, <1>7 DEF LegsKept

\* A leg that never leased an engine, or no longer does, is the whole story of
\* the call's lease.
LEMMA LeaseOfOne ==
  ASSUME CallTypes, NEW d \in Calls, LegsKept(d), pc[d] = "legs", NEW i \in DOMAIN legs[d],
         legs[d][i] \in CvStates
  PROVE  /\ \A j \in DOMAIN legs[d] \ {i} : legs[d][j] \notin CvStates
         /\ lease[d] # 0 <=> legs[d][i] \in {"leased", "recognizing"}
<1>1. \A j \in DOMAIN legs[d] \ {i} : legs[d][j] \notin CvStates BY OneCvLeg
<1> QED BY <1>1 DEF LegsKept, CvStates

\* The legs follow the plan, and recognition its leg.
LEMMA LegsStep ==
  ASSUME CallTypes, QueueKept, NEW d \in Calls, LegsKept(d), [Next]_vars
  PROVE  LegsKept(d)'
<1>1. CASE Idle(d)
  <2>1. pc'[d] = pc[d] /\ request'[d] = request[d] /\ legs'[d] = legs[d] /\ lease'[d] = lease[d]
    BY <1>1 DEF Idle
  <2>2. /\ Plan(d)' = Plan(d) /\ Native(d)' = Native(d) /\ Unserved(d)' = Unserved(d)
        /\ PdfRouting(d)' = PdfRouting(d)
    BY <2>1, PlanFrame
  <2> QED BY <2>1, <2>2 DEF LegsKept
<1>2. ASSUME NEW r \in Requests, Call(d, r) PROVE LegsKept(d)'
  <2>1. pc[d] # "legs" /\ pc'[d] # "legs" /\ legs'[d] = legs[d] /\ lease'[d] = lease[d]
    BY <1>2, LegTypes DEF Call, Go
  <2> QED BY <2>1, NoLegsFrame
<1>3. ASSUME NEW r \in Requests, CallRefused(d, r) PROVE LegsKept(d)'
  <2>1. pc[d] # "legs" /\ pc'[d] # "legs" /\ legs'[d] = legs[d] /\ lease'[d] = lease[d]
    BY <1>3, LegTypes DEF CallRefused, Finish, Record, Go
  <2> QED BY <2>1, NoLegsFrame
<1>4. CASE Cancel(d)
  <2>1. pc' = pc /\ request' = request /\ legs' = legs /\ lease' = lease BY <1>4 DEF Cancel
  <2>2. /\ Plan(d)' = Plan(d) /\ Native(d)' = Native(d) /\ Unserved(d)' = Unserved(d)
        /\ PdfRouting(d)' = PdfRouting(d)
    BY <2>1, PlanFrame
  <2> QED BY <2>1, <2>2 DEF LegsKept
<1>5. CASE AdmitLoad(d)
  <2>1. pc[d] # "legs" /\ pc'[d] # "legs" /\ legs'[d] = legs[d] /\ lease'[d] = lease[d]
    BY <1>5, LegTypes DEF AdmitLoad, Go
  <2> QED BY <2>1, NoLegsFrame
<1>6. CASE AdmitCas(d)
  <2>1. pc[d] # "legs" /\ pc'[d] # "legs" /\ legs'[d] = legs[d] /\ lease'[d] = lease[d]
    BY <1>6, LegTypes DEF AdmitCas, CompareExchange, Fits, Finish, Record, Go
  <2> QED BY <2>1, NoLegsFrame
<1>7. CASE Submit(d)
  <2>1. pc[d] # "legs" /\ pc'[d] # "legs" /\ legs'[d] = legs[d] /\ lease'[d] = lease[d]
    BY <1>7, LegTypes DEF Submit, TakenBack, Streamed, Finish, Record, Go
  <2> QED BY <2>1, NoLegsFrame
<1>8. CASE Dequeued(d)
  <2>1. pc[d] # "legs" /\ pc'[d] # "legs" /\ legs'[d] = legs[d] /\ lease'[d] = lease[d]
    BY <1>8, LegTypes DEF Dequeued, OptionsRefused, Return, Finish, Record, Go
  <2> QED BY <2>1, NoLegsFrame
<1>9. CASE AcquireSlot(d)
  <2>1. pc[d] # "legs" /\ pc'[d] # "legs" /\ legs'[d] = legs[d] /\ lease'[d] = lease[d]
    BY <1>9, LegTypes DEF AcquireSlot, Return, Go
  <2> QED BY <2>1, NoLegsFrame
<1>10. CASE Fetch(d)
  <2>1. pc[d] # "legs" /\ pc'[d] # "legs" /\ legs'[d] = legs[d] /\ lease'[d] = lease[d]
    BY <1>10, LegTypes DEF Fetch, ReleaseSlot, Return, Go
  <2> QED BY <2>1, NoLegsFrame
<1>11. CASE ChargeLoad(d)
  <2>1. pc[d] # "legs" /\ pc'[d] # "legs" /\ legs'[d] = legs[d] /\ lease'[d] = lease[d]
    BY <1>11, LegTypes DEF ChargeLoad, Go
  <2> QED BY <2>1, NoLegsFrame
<1>12. CASE ChargeCas(d)
  <2>1. pc[d] # "legs" /\ pc'[d] # "legs" /\ legs'[d] = legs[d] /\ lease'[d] = lease[d]
    BY <1>12, LegTypes DEF ChargeCas, CompareExchange, Fits, ReleaseSlot, Return, Go
  <2> QED BY <2>1, NoLegsFrame
<1>13. CASE Decode(d)
  <2>1. pc[d] = "decode" /\ lease' = lease /\ request' = request BY <1>13 DEF Decode
  <2>2. lease[d] = 0 /\ DOMAIN legs[d] = {} BY <2>1 DEF LegsKept
  <2>3. CASE ~Unserved(d) /\ legs' = [legs EXCEPT ![d] = [i \in DOMAIN Plan(d) |-> "idle"]]
             /\ Go(d, "legs")
    <3>1. pc'[d] = "legs" /\ legs'[d] = [i \in DOMAIN Plan(d) |-> "idle"] /\ lease'[d] = 0
      BY <2>1, <2>2, <2>3, LegTypes DEF Go
    <3>2. Plan(d)' = Plan(d) /\ Unserved(d)' = Unserved(d) BY <2>1, PlanFrame
    <3> QED BY <2>3, <3>1, <3>2 DEF LegsKept, CvStates
  <2>4. CASE legs' = legs /\ Go(d, "returned")
    <3>1. pc'[d] = "returned" /\ legs'[d] = legs[d] /\ lease'[d] = lease[d]
      BY <2>1, <2>4, LegTypes DEF Go
    <3> QED BY <2>1, <3>1, NoLegsFrame
  <2> QED BY <1>13, <2>3, <2>4 DEF Decode, Return
<1>14. CASE Gather(d)
  <2>1. /\ pc[d] = "legs" /\ legs'[d] = <<>> /\ lease' = lease
        /\ \A i \in DOMAIN legs[d] : legs[d][i] \in Codes \cup {"ok", "ok_cv"}
    BY <1>14, LegTypes DEF Gather
  <2>2. pc'[d] \in {"returned", "finalize"} BY <1>14, LegTypes DEF Gather, Return, Go
  <2>3. lease[d] = 0 BY <2>1 DEF LegsKept, Codes
  <2>4. DOMAIN legs'[d] = {} BY <2>1
  <2> QED BY <2>1, <2>2, <2>3, <2>4 DEF LegsKept
<1>15. CASE Finalize(d)
  <2>1. pc[d] # "legs" /\ pc'[d] # "legs" /\ legs'[d] = legs[d] /\ lease'[d] = lease[d]
    BY <1>15, LegTypes DEF Finalize, Return, Go
  <2> QED BY <2>1, NoLegsFrame
<1>16. CASE Shape(d)
  <2>1. pc[d] # "legs" /\ pc'[d] # "legs" /\ legs'[d] = legs[d] /\ lease'[d] = lease[d]
    BY <1>16, LegTypes DEF Shape, Return, Go
  <2> QED BY <2>1, NoLegsFrame
<1>17. CASE AcquireEngine(d)
  <2>1. pc[d] # "legs" /\ pc'[d] # "legs" /\ legs'[d] = legs[d] /\ lease'[d] = lease[d]
    BY <1>17, LegTypes DEF AcquireEngine, Return, Go
  <2> QED BY <2>1, NoLegsFrame
<1>18. CASE Infer(d)
  <2>1. pc[d] # "legs" /\ pc'[d] # "legs" /\ legs'[d] = legs[d] /\ lease'[d] = lease[d]
    BY <1>18, LegTypes DEF Infer, Return, Go
  <2> QED BY <2>1, NoLegsFrame
<1>19. CASE Returned(d)
  <2>1. pc[d] # "legs" /\ pc'[d] # "legs" /\ legs'[d] = legs[d] /\ lease'[d] = lease[d]
    BY <1>19, LegTypes DEF Returned, Streamed, Record, Completion, DropParse, Go
  <2> QED BY <2>1, NoLegsFrame
<1>20. CASE WriteDone(d)
  <2>1. pc[d] # "legs" /\ pc'[d] # "legs" /\ legs'[d] = legs[d] /\ lease'[d] = lease[d]
    BY <1>20, LegTypes DEF WriteDone, Finish, Go
  <2> QED BY <2>1, NoLegsFrame
<1>21. CASE OnDone(d)
  <2>1. pc[d] # "legs" /\ pc'[d] # "legs" /\ legs'[d] = legs[d] /\ lease'[d] = lease[d]
    BY <1>21, LegTypes DEF OnDone, Streamed, Go
  <2> QED BY <2>1, NoLegsFrame
<1>22. ASSUME NEW i \in DOMAIN legs[d], LegStart(d, i) PROVE LegsKept(d)'
  <2>1. LegActive(d, i) /\ pc[d] = "legs" /\ pc' = pc /\ request' = request
    BY <1>22 DEF LegStart, LegActive, SetLeg, OnlyLegs
  <2>2. lease' = lease /\ legs[d][i] \notin {"leased", "recognizing"} BY <1>22 DEF LegStart,
      LegActive, SetLeg, OnlyLegs
  <2>3. lease'[d] # 0 <=> \E j \in DOMAIN legs[d] \ {i} : legs[d][j] \in {"leased",
      "recognizing"}
    BY <2>2 DEF LegsKept
  <2>4. PICK s \in {"cv", "CANCELLED", "FAILED_PRECONDITION", "dialed"} :
          SetLeg(d, i, s) /\ (s = "cv" => Plan(d)[i] = "cv")
    BY <1>22 DEF LegStart
  <2>5. s = "cv" => ~Native(d)
    <3>1. i \in DOMAIN Plan(d) /\ ~Unserved(d) BY <2>1 DEF LegsKept
    <3>2. s = "cv" => "cv" \in Range(Plan(d)) BY <2>4, <3>1 DEF Range
    <3> QED BY <3>1, <3>2 DEF Unserved
  <2> QED BY <2>1, <2>3, <2>4, <2>5, SetLegFrame DEF CvStates
<1>23. ASSUME NEW i \in DOMAIN legs[d], LegAnswer(d, i) PROVE LegsKept(d)'
  <2>1. LegActive(d, i) /\ pc[d] = "legs" /\ pc' = pc /\ request' = request
    BY <1>23 DEF LegAnswer, LegActive, SetLeg, RoutePdfLeg, OnlyLegs
  <2>2. lease' = lease /\ legs[d][i] \notin {"leased", "recognizing"} BY <1>23 DEF LegAnswer,
      LegActive, SetLeg, RoutePdfLeg, OnlyLegs
  <2>3. lease'[d] # 0 <=> \E j \in DOMAIN legs[d] \ {i} : legs[d][j] \in {"leased",
      "recognizing"}
    BY <2>2 DEF LegsKept
  <2>4. PICK s \in {"ok", "cv", "FAILED_PRECONDITION", "CANCELLED", "UNAVAILABLE"} :
          SetLeg(d, i, s) /\ (s = "cv" => PdfRouting(d) /\ ~Native(d))
    BY <1>23 DEF LegAnswer, RoutePdfLeg
  <2> QED BY <2>1, <2>3, <2>4, SetLegFrame DEF CvStates
<1>24. ASSUME NEW i \in DOMAIN legs[d], AcquireLease(d, i) PROVE LegsKept(d)'
  <2>1. LegActive(d, i) /\ pc[d] = "legs" /\ pc' = pc /\ request' = request
    BY <1>24 DEF AcquireLease, LegActive, SetLeg, OnlyLegs
  <2>2. legs[d][i] \in CvStates BY <1>24 DEF AcquireLease, LegActive, SetLeg, OnlyLegs, CvStates
  <2>3. /\ \A j \in DOMAIN legs[d] \ {i} : legs[d][j] \notin CvStates
        /\ lease[d] # 0 <=> legs[d][i] \in {"leased", "recognizing"}
    BY <2>1, <2>2, LeaseOfOne
  <2>4. ~Native(d) /\ (Plan(d)[i] = "cv" \/ PdfRouting(d)) BY <2>2 DEF LegsKept
  <2>5. SetLeg(d, i, "leased") /\ lease'[d] # 0
    <3>1. free_slots \in Seq(1..PoolSize) /\ free_slots # <<>> BY <1>24 DEF AcquireLease,
        CallTypes, TypeOK
    <3>4. Last(free_slots) \in 1..PoolSize BY <3>1, LastOfSlots
    <3>3. Last(free_slots) # 0 BY <3>4, ParseAssumption DEF ParseAssumption
    <3> QED BY <1>24, <3>3, LegTypes DEF AcquireLease
  <2> QED BY <2>1, <2>4, <2>5, SetLegFrame
<1>25. ASSUME NEW i \in DOMAIN legs[d], CvNotRun(d, i) PROVE LegsKept(d)'
  <2>1. LegActive(d, i) /\ pc[d] = "legs" /\ pc' = pc /\ request' = request
    BY <1>25 DEF CvNotRun, LegActive, SetLeg, OnlyLegs
  <2>2. legs[d][i] \in CvStates BY <1>25 DEF CvNotRun, LegActive, SetLeg, OnlyLegs, CvStates
  <2>3. /\ \A j \in DOMAIN legs[d] \ {i} : legs[d][j] \notin CvStates
        /\ lease[d] # 0 <=> legs[d][i] \in {"leased", "recognizing"}
    BY <2>1, <2>2, LeaseOfOne
  <2>4. ~Native(d) /\ (Plan(d)[i] = "cv" \/ PdfRouting(d)) BY <2>2 DEF LegsKept
  <2>5. PICK s \in {"CANCELLED", "RESOURCE_EXHAUSTED"} : SetLeg(d, i, s) /\ lease' = lease
    BY <1>25 DEF CvNotRun
  <2>6. lease'[d] = 0 BY <1>25, <2>3, <2>5 DEF CvNotRun
  <2> QED BY <2>1, <2>3, <2>5, <2>6, SetLegFrame DEF CvStates
<1>26. ASSUME NEW i \in DOMAIN legs[d], BuildEngine(d, i) PROVE LegsKept(d)'
  <2>1. LegActive(d, i) /\ pc[d] = "legs" /\ pc' = pc /\ request' = request
    BY <1>26 DEF BuildEngine, LegActive, SetLeg, ReleaseLease, OnlyLegs
  <2>2. legs[d][i] \in CvStates BY <1>26 DEF BuildEngine, LegActive, SetLeg, ReleaseLease,
      OnlyLegs, CvStates
  <2>3. /\ \A j \in DOMAIN legs[d] \ {i} : legs[d][j] \notin CvStates
        /\ lease[d] # 0 <=> legs[d][i] \in {"leased", "recognizing"}
    BY <2>1, <2>2, LeaseOfOne
  <2>4. ~Native(d) /\ (Plan(d)[i] = "cv" \/ PdfRouting(d)) BY <2>2 DEF LegsKept
  <2>5. CASE SetLeg(d, i, "recognizing") /\ lease' = lease
    <3>1. lease'[d] # 0 BY <1>26, <2>3, <2>5 DEF BuildEngine
    <3> QED BY <2>1, <2>4, <2>5, <3>1, SetLegFrame
  <2>6. CASE SetLeg(d, i, "INTERNAL") /\ ReleaseLease(d)
    <3>1. lease'[d] = 0 BY <2>6, LegTypes DEF ReleaseLease
    <3> QED BY <2>1, <2>3, <2>6, <3>1, SetLegFrame DEF CvStates
  <2> QED BY <1>26, <2>5, <2>6 DEF BuildEngine
<1>27. ASSUME NEW i \in DOMAIN legs[d], Recognized(d, i) PROVE LegsKept(d)'
  <2>1. LegActive(d, i) /\ pc[d] = "legs" /\ pc' = pc /\ request' = request
    BY <1>27 DEF Recognized, LegActive, SetLeg, ReleaseLease, OnlyLegs
  <2>2. legs[d][i] \in CvStates BY <1>27 DEF Recognized, LegActive, SetLeg, ReleaseLease,
      OnlyLegs, CvStates
  <2>3. /\ \A j \in DOMAIN legs[d] \ {i} : legs[d][j] \notin CvStates
        /\ lease[d] # 0 <=> legs[d][i] \in {"leased", "recognizing"}
    BY <2>1, <2>2, LeaseOfOne
  <2>4. ~Native(d) /\ (Plan(d)[i] = "cv" \/ PdfRouting(d)) BY <2>2 DEF LegsKept
  <2>5. PICK s \in {"ok_cv", "CANCELLED", "INTERNAL"} : SetLeg(d, i, s)
    BY <1>27 DEF Recognized
  <2>6. lease'[d] = 0 BY <1>27, LegTypes DEF Recognized, ReleaseLease
  <2> QED BY <2>1, <2>3, <2>4, <2>5, <2>6, SetLegFrame DEF CvStates
<1>28. ASSUME NEW w \in Workers, WorkerTake(w), Head(tasks) = d PROVE LegsKept(d)'
  <2>1. pc[d] = "queued" BY <1>28, HeadWaits DEF WorkerTake
  <2>2. pc'[d] = "dequeued" /\ legs'[d] = legs[d] /\ lease'[d] = lease[d]
    BY <1>28, LegTypes DEF WorkerTake, Go
  <2> QED BY <2>1, <2>2, NoLegsFrame
<1>29. ASSUME NEW w \in Workers, WorkerDone(w), running[w] = d PROVE LegsKept(d)'
  <2>1. pc'[d] = pc[d] /\ pc[d] # "legs" /\ legs'[d] = legs[d] /\ lease'[d] = lease[d]
    BY <1>29 DEF WorkerDone, TakenBack, Streamed
  <2> QED BY <2>1, NoLegsFrame
<1> QED BY OwnStep, <1>1, <1>2, <1>3, <1>4, <1>5, <1>6, <1>7, <1>8, <1>9, <1>10, <1>11, <1>12,
    <1>13, <1>14, <1>15, <1>16, <1>17, <1>18, <1>19, <1>20, <1>21, <1>22, <1>23, <1>24, <1>25,
    <1>26, <1>27, <1>28, <1>29

\* What the document's steps need of the types.
LEMMA DocTypes ==
  ASSUME CallTypes
  PROVE  /\ pc \in [Calls -> PCs] /\ DOMAIN legs = Calls /\ DOMAIN doc = Calls
         /\ DOMAIN failures = Calls /\ status \in [Calls -> Codes]
         /\ partial \in [Calls -> BOOLEAN] /\ cv_rows \in [Calls -> BOOLEAN]
         /\ overlaid \in [Calls -> BOOLEAN] /\ offsets \in [Calls -> BOOLEAN]
         /\ DOMAIN request = Calls
BY DEF CallTypes, TypeOK

\* A call without a document owes its plan nothing.
LEMMA NoDocument ==
  ASSUME NEW d \in Calls, ~HasDocument(d)'
  PROVE  PlanKept(d)'
BY DEF PlanKept, HasDocument

\* A call that keeps its document, and says so if it is partial, keeps its plan.
LEMMA PlanKeeps ==
  ASSUME NEW d \in Calls, PlanKept(d), HasDocument(d), request'[d] = request[d],
         doc'[d] = doc[d], failures'[d] = failures[d],
         \/ pc'[d] \in {"finalize", "shape", "engine", "infer"}
         \/ failures[d] # {} => partial'[d]
  PROVE  PlanKept(d)'
<1>1. Plan(d)' = Plan(d) /\ Native(d)' = Native(d) BY PlanFrame
<1> QED BY <1>1 DEF PlanKept

\* What a leg adds, as the field names say.
LEMMA ReadingFields ==
  ASSUME NEW c \in Calls, NEW i \in Succeeded(c)
  PROVE  /\ Reading(c, i).by = Plan(c)[i] /\ Reading(c, i).cv = (legs[c][i] = "ok_cv")
         /\ Reading(c, i).body <=> ~(/\ Fanout(request[c]) /\ Plan(c)[i] = "calamine"
                                     /\ \E j \in Succeeded(c) : j < i)
BY DEF Reading

\* The first leg of a plan is its first failure when all of them failed.
LEMMA FirstFailureFails ==
  ASSUME CallTypes, NEW c \in Calls, LegsKept(c), pc[c] = "legs"
  PROVE  /\ FirstFailure(c) # "OK"
         /\ \E i \in DOMAIN legs[c] : FirstFailure(c) = legs[c][i]
<1>1. DOMAIN legs[c] = DOMAIN Plan(c) BY DEF LegsKept
<1>2. 1 \in DOMAIN legs[c] /\ \A i \in DOMAIN legs[c] : 1 <= i
  BY <1>1, RequestTyped, PlanPlaces DEF Plan
<1>3. Min(DOMAIN legs[c]) \in DOMAIN legs[c] BY <1>2 DEF Min
<1> QED BY <1>3 DEF FirstFailure, LegsKept

\* What is merged is the plan, until the call is gone or failed.
LEMMA PlanStep ==
  ASSUME CallTypes, QueueKept, NEW d \in Calls, AnswerKept(d), LegsKept(d), PlanKept(d),
         [Next]_vars
  PROVE  PlanKept(d)'
<1>1. CASE Idle(d)
  <2>1. /\ pc'[d] = pc[d] /\ request'[d] = request[d] /\ doc'[d] = doc[d] /\ status'[d] = status[d]
        /\ failures'[d] = failures[d] /\ partial'[d] = partial[d]
    BY <1>1 DEF Idle
  <2>2. Plan(d)' = Plan(d) /\ Native(d)' = Native(d) BY <2>1, PlanFrame
  <2> QED BY <2>1, <2>2 DEF PlanKept, HasDocument
<1>2. ASSUME NEW r \in Requests, Call(d, r) PROVE PlanKept(d)'
  <2>1. ~HasDocument(d)' BY <1>2, DocTypes DEF Call, Go, HasDocument
  <2> QED BY <2>1, NoDocument
<1>3. ASSUME NEW r \in Requests, CallRefused(d, r) PROVE PlanKept(d)'
  <2>1. ~HasDocument(d)' BY <1>3, DocTypes DEF CallRefused, Finish, Record, Go, HasDocument
  <2> QED BY <2>1, NoDocument
<1>4. CASE Cancel(d)
  <2>1. /\ pc'[d] = pc[d] /\ request'[d] = request[d] /\ doc'[d] = doc[d] /\ status'[d] =
           status[d]
        /\ failures'[d] = failures[d] /\ partial'[d] = partial[d]
    BY <1>4 DEF Cancel
  <2>2. Plan(d)' = Plan(d) /\ Native(d)' = Native(d) BY <2>1, PlanFrame
  <2> QED BY <2>1, <2>2 DEF PlanKept, HasDocument
<1>5. CASE AdmitLoad(d)
  <2>1. ~HasDocument(d)' BY <1>5, DocTypes DEF AdmitLoad, Go, HasDocument
  <2> QED BY <2>1, NoDocument
<1>6. CASE AdmitCas(d)
  <2>1. ~HasDocument(d)' BY <1>6, DocTypes DEF AdmitCas, CompareExchange, Fits, Finish, Record,
      Go, HasDocument
  <2> QED BY <2>1, NoDocument
<1>7. CASE Submit(d)
  <2>1. ~HasDocument(d)' BY <1>7, DocTypes DEF Submit, TakenBack, Streamed, Finish, Record, Go,
      HasDocument
  <2> QED BY <2>1, NoDocument
<1>8. CASE Dequeued(d)
  <2>1. ~HasDocument(d)' BY <1>8, DocTypes DEF Dequeued, OptionsRefused, Return, Finish, Record,
      Go, HasDocument
  <2> QED BY <2>1, NoDocument
<1>9. CASE AcquireSlot(d)
  <2>1. ~HasDocument(d)' BY <1>9, DocTypes DEF AcquireSlot, Return, Go, HasDocument
  <2> QED BY <2>1, NoDocument
<1>10. CASE Fetch(d)
  <2>1. ~HasDocument(d)' BY <1>10, DocTypes DEF Fetch, ReleaseSlot, Return, Go, HasDocument
  <2> QED BY <2>1, NoDocument
<1>11. CASE ChargeLoad(d)
  <2>1. ~HasDocument(d)' BY <1>11, DocTypes DEF ChargeLoad, Go, HasDocument
  <2> QED BY <2>1, NoDocument
<1>12. CASE ChargeCas(d)
  <2>1. ~HasDocument(d)' BY <1>12, DocTypes DEF ChargeCas, CompareExchange, Fits, ReleaseSlot,
      Return, Go, HasDocument
  <2> QED BY <2>1, NoDocument
<1>13. CASE Decode(d)
  <2>1. ~HasDocument(d)' BY <1>13, DocTypes DEF Decode, Return, Go, HasDocument
  <2> QED BY <2>1, NoDocument
<1>14. CASE Gather(d)
  <2>1. /\ pc[d] = "legs" /\ doc'[d] = Merged(d) /\ request' = request
        /\ failures'[d] = {Plan(d)[i] : i \in DOMAIN legs[d] \ Succeeded(d)}
    BY <1>14, DocTypes DEF Gather
  <2>2. CASE pc'[d] = "finalize" /\ Succeeded(d) # {}
    <3>1. DOMAIN doc'[d] = Succeeded(d) /\ \A k \in Succeeded(d) : doc'[d][k] = Reading(d, k)
      BY <2>1 DEF Merged
    <3>2. Succeeded(d) \subseteq DOMAIN Plan(d) /\ DOMAIN legs[d] = DOMAIN Plan(d)
      BY <2>1 DEF LegsKept, Succeeded
    <3>3. Plan(d)' = Plan(d) /\ Native(d)' = Native(d) BY <2>1, PlanFrame
    <3>4. \A k \in Succeeded(d) : Native(d) => ~Reading(d, k).cv
      <4>1. \A k \in Succeeded(d) : legs[d][k] = "ok_cv" => ~Native(d)
        BY DEF LegsKept, CvStates, Succeeded
      <4> QED BY <4>1, ReadingFields
    <3>5. \A k \in Succeeded(d) :
            /\ Reading(d, k).by = Plan(d)[k]
            /\ Reading(d, k).body <=> ~(/\ Fanout(request[d]) /\ Plan(d)[k] = "calamine"
                                        /\ \E j \in Succeeded(d) : j < k)
      BY ReadingFields
    <3>6. Fanout(request[d])' = Fanout(request[d]) BY <2>1 DEF Fanout
    <3>7. \A k \in DOMAIN doc'[d] :
            /\ doc'[d][k].by = Plan(d)[k] /\ (Native(d) => ~doc'[d][k].cv)
            /\ doc'[d][k].body <=> ~(/\ Fanout(request[d]) /\ Plan(d)[k] = "calamine"
                                     /\ \E j \in DOMAIN doc'[d] : j < k)
      BY <3>1, <3>4, <3>5
    <3>8. failures'[d] = {Plan(d)[i] : i \in DOMAIN Plan(d) \ DOMAIN doc'[d]} BY <2>1, <3>1,
        <3>2
    <3> QED BY <2>2, <3>1, <3>2, <3>3, <3>6, <3>7, <3>8 DEF PlanKept
  <2>3. CASE pc'[d] = "returned" /\ status'[d] # "OK"
    <3>1. ~HasDocument(d)' BY <2>3 DEF HasDocument
    <3> QED BY <3>1, NoDocument
  <2> QED BY <1>14, <2>1, <2>2, <2>3, FirstFailureFails, DocTypes DEF Gather, Return, Go
<1>15. CASE Finalize(d)
  <2>1. /\ HasDocument(d) /\ doc'[d] = doc[d] /\ failures'[d] = failures[d]
        /\ request'[d] = request[d]
    BY <1>15 DEF Finalize, Return, Go, HasDocument
  <2>2. \/ pc'[d] \in {"shape", "engine", "infer"}
        \/ pc'[d] = "returned" /\ status'[d] # "OK"
        \/ pc'[d] = "returned" /\ (failures[d] # {} => partial'[d])
    BY <1>15, DocTypes DEF Finalize, Return, Go
  <2>3. CASE pc'[d] = "returned" /\ status'[d] # "OK"
    <3>1. ~HasDocument(d)' BY <2>3 DEF HasDocument
    <3> QED BY <3>1, NoDocument
  <2> QED BY <2>1, <2>2, <2>3, PlanKeeps
<1>16. CASE Shape(d)
  <2>1. /\ HasDocument(d) /\ doc'[d] = doc[d] /\ failures'[d] = failures[d]
        /\ request'[d] = request[d]
    BY <1>16 DEF Shape, Return, Go, HasDocument
  <2>2. \/ pc'[d] \in {"shape", "engine", "infer"}
        \/ pc'[d] = "returned" /\ status'[d] # "OK"
        \/ pc'[d] = "returned" /\ (failures[d] # {} => partial'[d])
    <3>1. pc \in [Calls -> PCs] /\ status \in [Calls -> Codes] /\ partial \in [Calls -> BOOLEAN]
      BY DocTypes
    <3>2. CASE Go(d, "engine")
      <4>1. pc'[d] = "engine" BY <3>1, <3>2 DEF Go
      <4> QED BY <4>1
    <3>3. CASE Return(d, "RESOURCE_EXHAUSTED")
      <4>1. pc'[d] = "returned" /\ status'[d] = "RESOURCE_EXHAUSTED"
        BY <3>1, <3>3 DEF Return, Go
      <4> QED BY <4>1
    <3>4. ASSUME Return(d, "OK"), NEW delivered,
                 partial' = [partial EXCEPT ![d] = failures[d] # {} \/ ~delivered]
          PROVE  pc'[d] = "returned" /\ (failures[d] # {} => partial'[d])
      <4>1. pc'[d] = "returned" BY <3>1, <3>4 DEF Return, Go
      <4>2. partial'[d] = (failures[d] # {} \/ ~delivered) BY Zenon, <3>1, <3>4
      <4> QED BY Zenon, <4>1, <4>2
    <3>5. \/ Go(d, "engine") \/ Return(d, "RESOURCE_EXHAUSTED")
          \/ Return(d, "OK")
             /\ \E delivered \in BOOLEAN :
                  partial' = [partial EXCEPT ![d] = failures[d] # {} \/ ~delivered]
      BY Zenon, <1>16 DEF Shape
    <3> QED BY Zenon, <3>2, <3>3, <3>4, <3>5
  <2>3. CASE pc'[d] = "returned" /\ status'[d] # "OK"
    <3>1. ~HasDocument(d)' BY <2>3 DEF HasDocument
    <3> QED BY <3>1, NoDocument
  <2> QED BY <2>1, <2>2, <2>3, PlanKeeps
<1>17. CASE AcquireEngine(d)
  <2>1. /\ HasDocument(d) /\ doc'[d] = doc[d] /\ failures'[d] = failures[d]
        /\ request'[d] = request[d]
    BY <1>17 DEF AcquireEngine, Return, Go, HasDocument
  <2>2. \/ pc'[d] \in {"shape", "engine", "infer"}
        \/ pc'[d] = "returned" /\ status'[d] # "OK"
        \/ pc'[d] = "returned" /\ (failures[d] # {} => partial'[d])
    BY <1>17, DocTypes DEF AcquireEngine, Return, Go
  <2>3. CASE pc'[d] = "returned" /\ status'[d] # "OK"
    <3>1. ~HasDocument(d)' BY <2>3 DEF HasDocument
    <3> QED BY <3>1, NoDocument
  <2> QED BY <2>1, <2>2, <2>3, PlanKeeps
<1>18. CASE Infer(d)
  <2>1. /\ HasDocument(d) /\ doc'[d] = doc[d] /\ failures'[d] = failures[d]
        /\ request'[d] = request[d]
    BY <1>18 DEF Infer, Return, Go, HasDocument
  <2>2. \/ pc'[d] \in {"shape", "engine", "infer"}
        \/ pc'[d] = "returned" /\ status'[d] # "OK"
        \/ pc'[d] = "returned" /\ (failures[d] # {} => partial'[d])
    BY <1>18, DocTypes DEF Infer, Return, Go
  <2>3. CASE pc'[d] = "returned" /\ status'[d] # "OK"
    <3>1. ~HasDocument(d)' BY <2>3 DEF HasDocument
    <3> QED BY <3>1, NoDocument
  <2> QED BY <2>1, <2>2, <2>3, PlanKeeps
<1>19. CASE Returned(d)
  <2>1. /\ pc[d] = "returned" /\ status'[d] = status[d] /\ partial'[d] = partial[d]
        /\ request'[d] = request[d] /\ DropParse(d)
    BY <1>19 DEF Returned
  <2>2. pc'[d] \in {"writing", "finished"} BY <1>19, DocTypes DEF Returned, Go
  <2>3. CASE status[d] = "OK"
    <3>1. doc'[d] = doc[d] /\ failures'[d] = failures[d] BY <2>1, <2>3 DEF DropParse
    <3>2. HasDocument(d) /\ (failures[d] # {} => partial[d])
      BY <2>1, <2>3 DEF HasDocument, PlanKept
    <3> QED BY <2>1, <3>1, <3>2, PlanKeeps
  <2>4. CASE status[d] # "OK"
    <3>1. ~HasDocument(d)' BY <2>1, <2>2, <2>4 DEF HasDocument
    <3> QED BY <3>1, NoDocument
  <2> QED BY <2>3, <2>4
<1>20. CASE WriteDone(d)
  <2>1. /\ pc[d] = "writing" /\ doc'[d] = doc[d] /\ failures'[d] = failures[d]
        /\ request'[d] = request[d] /\ partial'[d] = partial[d]
    BY <1>20 DEF WriteDone
  <2>2. status[d] = "OK" BY <2>1 DEF AnswerKept
  <2>3. HasDocument(d) /\ (failures[d] # {} => partial[d])
    BY <2>1, <2>2 DEF HasDocument, PlanKept
  <2> QED BY <2>1, <2>3, PlanKeeps
<1>21. CASE OnDone(d)
  <2>1. ~HasDocument(d)' BY <1>21, DocTypes DEF OnDone, Streamed, Go, HasDocument
  <2> QED BY <2>1, NoDocument
<1>22. ASSUME NEW i \in DOMAIN legs[d], LegStart(d, i) PROVE PlanKept(d)'
  <2>1. ~HasDocument(d)' BY <1>22, DocTypes DEF LegStart, LegActive, SetLeg, OnlyLegs,
      HasDocument
  <2> QED BY <2>1, NoDocument
<1>23. ASSUME NEW i \in DOMAIN legs[d], LegAnswer(d, i) PROVE PlanKept(d)'
  <2>1. ~HasDocument(d)' BY <1>23, DocTypes DEF LegAnswer, LegActive, SetLeg, RoutePdfLeg,
      OnlyLegs, HasDocument
  <2> QED BY <2>1, NoDocument
<1>24. ASSUME NEW i \in DOMAIN legs[d], AcquireLease(d, i) PROVE PlanKept(d)'
  <2>1. ~HasDocument(d)' BY <1>24, DocTypes DEF AcquireLease, LegActive, SetLeg, OnlyLegs,
      HasDocument
  <2> QED BY <2>1, NoDocument
<1>25. ASSUME NEW i \in DOMAIN legs[d], CvNotRun(d, i) PROVE PlanKept(d)'
  <2>1. ~HasDocument(d)' BY <1>25, DocTypes DEF CvNotRun, LegActive, SetLeg, OnlyLegs,
      HasDocument
  <2> QED BY <2>1, NoDocument
<1>26. ASSUME NEW i \in DOMAIN legs[d], BuildEngine(d, i) PROVE PlanKept(d)'
  <2>1. ~HasDocument(d)' BY <1>26, DocTypes DEF BuildEngine, LegActive, SetLeg, ReleaseLease,
      OnlyLegs, HasDocument
  <2> QED BY <2>1, NoDocument
<1>27. ASSUME NEW i \in DOMAIN legs[d], Recognized(d, i) PROVE PlanKept(d)'
  <2>1. ~HasDocument(d)' BY <1>27, DocTypes DEF Recognized, LegActive, SetLeg, ReleaseLease,
      OnlyLegs, HasDocument
  <2> QED BY <2>1, NoDocument
<1>28. ASSUME NEW w \in Workers, WorkerTake(w), Head(tasks) = d PROVE PlanKept(d)'
  <2>1. pc'[d] = "dequeued" BY <1>28, HeadWaits, DocTypes DEF WorkerTake, Go
  <2>2. ~HasDocument(d)' BY <2>1 DEF HasDocument
  <2> QED BY <2>2, NoDocument
<1>29. ASSUME NEW w \in Workers, WorkerDone(w), running[w] = d PROVE PlanKept(d)'
  <2>1. /\ pc'[d] = pc[d] /\ request'[d] = request[d] /\ doc'[d] = doc[d] /\ status'[d] =
           status[d]
        /\ failures'[d] = failures[d] /\ partial'[d] = partial[d]
    BY <1>29 DEF WorkerDone, TakenBack, Streamed
  <2>2. Plan(d)' = Plan(d) /\ Native(d)' = Native(d) BY <2>1, PlanFrame
  <2> QED BY <2>1, <2>2 DEF PlanKept, HasDocument
<1> QED BY OwnStep, <1>1, <1>2, <1>3, <1>4, <1>5, <1>6, <1>7, <1>8, <1>9, <1>10, <1>11, <1>12,
    <1>13, <1>14, <1>15, <1>16, <1>17, <1>18, <1>19, <1>20, <1>21, <1>22, <1>23, <1>24, <1>25,
    <1>26, <1>27, <1>28, <1>29

\* A call that goes on with the rows, document and legs it has keeps its rows.
LEMMA RowsFrame ==
  ASSUME NEW d \in Calls, RowsKept(d),
         cv_rows'[d] = cv_rows[d], doc'[d] = doc[d], overlaid'[d] = overlaid[d], legs'[d] = legs[d],
         pc'[d] \in EarlyPCs => pc[d] \in EarlyPCs,
         pc'[d] = "legs" => pc[d] \in EarlyPCs \cup {"legs"},
         pc'[d] = "finalize" => pc[d] \in EarlyPCs \cup {"legs", "finalize"}
  PROVE  RowsKept(d)'
BY DEF RowsKept, OneReading

\* A call without rows and document has nothing to keep.
LEMMA NoRows ==
  ASSUME NEW d \in Calls, ~cv_rows'[d], ~overlaid'[d], DOMAIN doc'[d] = {}
  PROVE  RowsKept(d)'
BY DEF RowsKept

\* A leg's step that is not yet, or just becomes, a recognition that succeeded.
LEMMA RowsLegFrame ==
  ASSUME CallTypes, NEW d \in Calls, RowsKept(d), pc[d] = "legs", NEW i \in DOMAIN legs[d], NEW s,
         SetLeg(d, i, s), legs[d][i] # "ok_cv", cv_rows'[d] => cv_rows[d] \/ s = "ok_cv",
         pc' = pc, doc' = doc, overlaid' = overlaid
  PROVE  RowsKept(d)'
<1>1. legs'[d] = [legs[d] EXCEPT ![i] = s] BY LegTypes DEF SetLeg
<1>2. /\ DOMAIN legs'[d] = DOMAIN legs[d] /\ legs'[d][i] = s
      /\ \A j \in DOMAIN legs[d] \ {i} : legs'[d][j] = legs[d][j]
  BY <1>1
<1>3. DOMAIN doc[d] = {} /\ ~overlaid[d] BY DEF RowsKept
<1>4. cv_rows'[d] => \E j \in DOMAIN legs'[d] : legs'[d][j] = "ok_cv"
  BY <1>2, <1>3 DEF RowsKept
<1>5. pc'[d] = "legs" OBVIOUS
<1> QED BY <1>3, <1>4, <1>5 DEF RowsKept, EarlyPCs

\* Rows are published with the reading they come from.
LEMMA RowsStep ==
  ASSUME CallTypes, QueueKept, NEW d \in Calls, LegsKept(d), RowsKept(d), [Next]_vars
  PROVE  RowsKept(d)'
<1>1. CASE Idle(d)
  <2>1. /\ cv_rows'[d] = cv_rows[d] /\ doc'[d] = doc[d] /\ overlaid'[d] = overlaid[d]
        /\ legs'[d] = legs[d] /\ pc'[d] = pc[d]
    BY <1>1 DEF Idle
  <2> QED BY <2>1, RowsFrame
<1>2. ASSUME NEW r \in Requests, Call(d, r) PROVE RowsKept(d)'
  <2>1. /\ cv_rows'[d] = cv_rows[d] /\ doc'[d] = doc[d] /\ overlaid'[d] = overlaid[d]
        /\ legs'[d] = legs[d]
    BY <1>2 DEF Call, Go
  <2>2. /\ pc'[d] \in EarlyPCs => pc[d] \in EarlyPCs
        /\ pc'[d] \notin {"legs", "finalize"}
    BY <1>2, DocTypes DEF Call, Go, EarlyPCs
  <2> QED BY <2>1, <2>2, RowsFrame
<1>3. ASSUME NEW r \in Requests, CallRefused(d, r) PROVE RowsKept(d)'
  <2>1. /\ cv_rows'[d] = cv_rows[d] /\ doc'[d] = doc[d] /\ overlaid'[d] = overlaid[d]
        /\ legs'[d] = legs[d]
    BY <1>3 DEF CallRefused, Finish, Record, Go
  <2>2. /\ pc'[d] \in EarlyPCs => pc[d] \in EarlyPCs
        /\ pc'[d] \notin {"legs", "finalize"}
    BY <1>3, DocTypes DEF CallRefused, Finish, Record, Go, EarlyPCs
  <2> QED BY <2>1, <2>2, RowsFrame
<1>4. CASE Cancel(d)
  <2>1. /\ cv_rows'[d] = cv_rows[d] /\ doc'[d] = doc[d] /\ overlaid'[d] = overlaid[d]
        /\ legs'[d] = legs[d] /\ pc'[d] = pc[d]
    BY <1>4 DEF Cancel
  <2> QED BY <2>1, RowsFrame
<1>5. CASE AdmitLoad(d)
  <2>1. /\ cv_rows'[d] = cv_rows[d] /\ doc'[d] = doc[d] /\ overlaid'[d] = overlaid[d]
        /\ legs'[d] = legs[d]
    BY <1>5 DEF AdmitLoad, Go
  <2>2. /\ pc'[d] \in EarlyPCs => pc[d] \in EarlyPCs
        /\ pc'[d] \notin {"legs", "finalize"}
    BY <1>5, DocTypes DEF AdmitLoad, Go, EarlyPCs
  <2> QED BY <2>1, <2>2, RowsFrame
<1>6. CASE AdmitCas(d)
  <2>1. /\ cv_rows'[d] = cv_rows[d] /\ doc'[d] = doc[d] /\ overlaid'[d] = overlaid[d]
        /\ legs'[d] = legs[d]
    BY <1>6 DEF AdmitCas, CompareExchange, Fits, Finish, Record, Go
  <2>2. /\ pc'[d] \in EarlyPCs => pc[d] \in EarlyPCs
        /\ pc'[d] \notin {"legs", "finalize"}
    BY <1>6, DocTypes DEF AdmitCas, CompareExchange, Fits, Finish, Record, Go, EarlyPCs
  <2> QED BY <2>1, <2>2, RowsFrame
<1>7. CASE Submit(d)
  <2>1. /\ cv_rows'[d] = cv_rows[d] /\ doc'[d] = doc[d] /\ overlaid'[d] = overlaid[d]
        /\ legs'[d] = legs[d]
    BY <1>7 DEF Submit, TakenBack, Streamed, Finish, Record, Go
  <2>2. /\ pc'[d] \in EarlyPCs => pc[d] \in EarlyPCs
        /\ pc'[d] \notin {"legs", "finalize"}
    BY <1>7, DocTypes DEF Submit, TakenBack, Streamed, Finish, Record, Go, EarlyPCs
  <2> QED BY <2>1, <2>2, RowsFrame
<1>8. CASE Dequeued(d)
  <2>1. /\ cv_rows'[d] = cv_rows[d] /\ doc'[d] = doc[d] /\ overlaid'[d] = overlaid[d]
        /\ legs'[d] = legs[d]
    BY <1>8 DEF Dequeued, OptionsRefused, Return, Finish, Record, Go
  <2>2. /\ pc'[d] \in EarlyPCs => pc[d] \in EarlyPCs
        /\ pc'[d] \notin {"legs", "finalize"}
    BY <1>8, DocTypes DEF Dequeued, OptionsRefused, Return, Finish, Record, Go, EarlyPCs
  <2> QED BY <2>1, <2>2, RowsFrame
<1>9. CASE AcquireSlot(d)
  <2>1. /\ cv_rows'[d] = cv_rows[d] /\ doc'[d] = doc[d] /\ overlaid'[d] = overlaid[d]
        /\ legs'[d] = legs[d]
    BY <1>9 DEF AcquireSlot, Return, Go
  <2>2. /\ pc'[d] \in EarlyPCs => pc[d] \in EarlyPCs
        /\ pc'[d] \notin {"legs", "finalize"}
    BY <1>9, DocTypes DEF AcquireSlot, Return, Go, EarlyPCs
  <2> QED BY <2>1, <2>2, RowsFrame
<1>10. CASE Fetch(d)
  <2>1. /\ cv_rows'[d] = cv_rows[d] /\ doc'[d] = doc[d] /\ overlaid'[d] = overlaid[d]
        /\ legs'[d] = legs[d]
    BY <1>10 DEF Fetch, ReleaseSlot, Return, Go
  <2>2. /\ pc'[d] \in EarlyPCs => pc[d] \in EarlyPCs
        /\ pc'[d] \notin {"legs", "finalize"}
    BY <1>10, DocTypes DEF Fetch, ReleaseSlot, Return, Go, EarlyPCs
  <2> QED BY <2>1, <2>2, RowsFrame
<1>11. CASE ChargeLoad(d)
  <2>1. /\ cv_rows'[d] = cv_rows[d] /\ doc'[d] = doc[d] /\ overlaid'[d] = overlaid[d]
        /\ legs'[d] = legs[d]
    BY <1>11 DEF ChargeLoad, Go
  <2>2. /\ pc'[d] \in EarlyPCs => pc[d] \in EarlyPCs
        /\ pc'[d] \notin {"legs", "finalize"}
    BY <1>11, DocTypes DEF ChargeLoad, Go, EarlyPCs
  <2> QED BY <2>1, <2>2, RowsFrame
<1>12. CASE ChargeCas(d)
  <2>1. /\ cv_rows'[d] = cv_rows[d] /\ doc'[d] = doc[d] /\ overlaid'[d] = overlaid[d]
        /\ legs'[d] = legs[d]
    BY <1>12 DEF ChargeCas, CompareExchange, Fits, ReleaseSlot, Return, Go
  <2>2. /\ pc'[d] \in EarlyPCs => pc[d] \in EarlyPCs
        /\ pc'[d] \notin {"legs", "finalize"}
    BY <1>12, DocTypes DEF ChargeCas, CompareExchange, Fits, ReleaseSlot, Return, Go, EarlyPCs
  <2> QED BY <2>1, <2>2, RowsFrame
<1>13. CASE Decode(d)
  <2>1. pc[d] = "decode" /\ cv_rows' = cv_rows /\ overlaid' = overlaid /\ doc' = doc
    BY <1>13 DEF Decode
  <2>2. ~cv_rows[d] /\ ~overlaid[d] /\ DOMAIN doc[d] = {} BY <2>1 DEF RowsKept, EarlyPCs
  <2> QED BY <2>1, <2>2, NoRows
<1>14. CASE Gather(d)
  <2>1. /\ pc[d] = "legs" /\ doc'[d] = Merged(d) /\ legs'[d] = <<>>
        /\ cv_rows' = cv_rows /\ overlaid' = overlaid
    BY <1>14, DocTypes DEF Gather
  <2>2. pc'[d] \in {"returned", "finalize"} BY <1>14, DocTypes DEF Gather, Return, Go
  <2>3. ~overlaid[d] /\ DOMAIN doc[d] = {} BY <2>1 DEF RowsKept
  <2>4. cv_rows[d] => \E k \in DOMAIN doc'[d] : doc'[d][k].cv
    <3>1. SUFFICES ASSUME cv_rows[d] PROVE \E k \in DOMAIN doc'[d] : doc'[d][k].cv OBVIOUS
    <3>2. PICK i \in DOMAIN legs[d] : legs[d][i] = "ok_cv" BY <2>3, <3>1 DEF RowsKept
    <3>3. i \in Succeeded(d) BY <3>2 DEF Succeeded, LegOk
    <3>4. i \in DOMAIN doc'[d] /\ doc'[d][i] = Reading(d, i) BY <2>1, <3>3 DEF Merged
    <3> QED BY <3>2, <3>3, <3>4, ReadingFields
  <2> QED BY <2>1, <2>2, <2>3, <2>4 DEF RowsKept, EarlyPCs
<1>15. CASE Finalize(d)
  <2>1. /\ pc[d] = "finalize" /\ cv_rows' = cv_rows /\ doc' = doc /\ legs' = legs
    BY <1>15 DEF Finalize
  <2>2. pc'[d] \in {"shape", "returned"} BY <1>15, DocTypes DEF Finalize, Return, Go
  <2>3. overlaid'[d] => OneReading(d) /\ cv_rows[d]
    BY <1>15, <2>1, DocTypes DEF Finalize, RowsKept
  <2>4. DOMAIN legs[d] = {} BY <2>1 DEF LegsKept
  <2>5. cv_rows[d] => \E k \in DOMAIN doc[d] : doc[d][k].cv BY <2>4 DEF RowsKept
  <2>6. overlaid'[d] => OneReading(d) /\ \A k \in DOMAIN doc[d] : doc[d][k].cv
    BY <2>3, <2>5 DEF OneReading
  <2>7. OneReading(d)' = OneReading(d) BY <2>1 DEF OneReading
  <2> QED BY <2>1, <2>2, <2>5, <2>6, <2>7 DEF RowsKept, EarlyPCs
<1>16. CASE Shape(d)
  <2>1. /\ cv_rows'[d] = cv_rows[d] /\ doc'[d] = doc[d] /\ overlaid'[d] = overlaid[d]
        /\ legs'[d] = legs[d]
    BY <1>16 DEF Shape, Return, Go
  <2>2. /\ pc'[d] \in EarlyPCs => pc[d] \in EarlyPCs
        /\ pc'[d] \notin {"legs", "finalize"}
    BY <1>16, DocTypes DEF Shape, Return, Go, EarlyPCs
  <2> QED BY <2>1, <2>2, RowsFrame
<1>17. CASE AcquireEngine(d)
  <2>1. /\ cv_rows'[d] = cv_rows[d] /\ doc'[d] = doc[d] /\ overlaid'[d] = overlaid[d]
        /\ legs'[d] = legs[d]
    BY <1>17 DEF AcquireEngine, Return, Go
  <2>2. /\ pc'[d] \in EarlyPCs => pc[d] \in EarlyPCs
        /\ pc'[d] \notin {"legs", "finalize"}
    BY <1>17, DocTypes DEF AcquireEngine, Return, Go, EarlyPCs
  <2> QED BY <2>1, <2>2, RowsFrame
<1>18. CASE Infer(d)
  <2>1. /\ cv_rows'[d] = cv_rows[d] /\ doc'[d] = doc[d] /\ overlaid'[d] = overlaid[d]
        /\ legs'[d] = legs[d]
    BY <1>18 DEF Infer, Return, Go
  <2>2. /\ pc'[d] \in EarlyPCs => pc[d] \in EarlyPCs
        /\ pc'[d] \notin {"legs", "finalize"}
    BY <1>18, DocTypes DEF Infer, Return, Go, EarlyPCs
  <2> QED BY <2>1, <2>2, RowsFrame
<1>19. CASE Returned(d)
  <2>1. pc[d] = "returned" /\ DropParse(d) /\ legs' = legs BY <1>19 DEF Returned
  <2>2. pc'[d] \in {"writing", "finished"} BY <1>19, DocTypes DEF Returned, Go
  <2>3. CASE status[d] = "OK"
    <3>1. cv_rows'[d] = cv_rows[d] /\ doc'[d] = doc[d] /\ overlaid'[d] = overlaid[d]
      BY <2>1, <2>3 DEF DropParse
    <3> QED BY <2>1, <2>2, <3>1, RowsFrame DEF EarlyPCs
  <2>4. CASE status[d] # "OK"
    <3>1. ~cv_rows'[d] /\ ~overlaid'[d] /\ doc'[d] = <<>> BY <2>1, <2>4, DocTypes DEF DropParse
    <3> QED BY <3>1, NoRows
  <2> QED BY <2>3, <2>4
<1>20. CASE WriteDone(d)
  <2>1. /\ cv_rows'[d] = cv_rows[d] /\ doc'[d] = doc[d] /\ overlaid'[d] = overlaid[d]
        /\ legs'[d] = legs[d]
    BY <1>20 DEF WriteDone, Finish, Go
  <2>2. /\ pc'[d] \in EarlyPCs => pc[d] \in EarlyPCs
        /\ pc'[d] \notin {"legs", "finalize"}
    BY <1>20, DocTypes DEF WriteDone, Finish, Go, EarlyPCs
  <2> QED BY <2>1, <2>2, RowsFrame
<1>21. CASE OnDone(d)
  <2>1. ~cv_rows'[d] /\ ~overlaid'[d] /\ doc'[d] = <<>> BY <1>21, DocTypes DEF OnDone
  <2> QED BY <2>1, NoRows
<1>22. ASSUME NEW i \in DOMAIN legs[d], LegStart(d, i) PROVE RowsKept(d)'
  <2>1. /\ LegActive(d, i) /\ pc[d] = "legs" /\ pc' = pc /\ doc' = doc /\ overlaid' = overlaid
        /\ legs[d][i] # "ok_cv"
    BY <1>22 DEF LegStart, LegActive, SetLeg, OnlyLegs
  <2>2. PICK s : SetLeg(d, i, s) /\ (cv_rows'[d] => cv_rows[d] \/ s = "ok_cv")
    BY <1>22, DocTypes DEF LegStart, LegActive, SetLeg, OnlyLegs
  <2> QED BY <2>1, <2>2, RowsLegFrame
<1>23. ASSUME NEW i \in DOMAIN legs[d], LegAnswer(d, i) PROVE RowsKept(d)'
  <2>1. /\ LegActive(d, i) /\ pc[d] = "legs" /\ pc' = pc /\ doc' = doc /\ overlaid' = overlaid
        /\ legs[d][i] # "ok_cv"
    BY <1>23 DEF LegAnswer, LegActive, SetLeg, RoutePdfLeg, OnlyLegs
  <2>2. PICK s : SetLeg(d, i, s) /\ (cv_rows'[d] => cv_rows[d] \/ s = "ok_cv")
    BY <1>23, DocTypes DEF LegAnswer, LegActive, SetLeg, RoutePdfLeg, OnlyLegs
  <2> QED BY <2>1, <2>2, RowsLegFrame
<1>24. ASSUME NEW i \in DOMAIN legs[d], AcquireLease(d, i) PROVE RowsKept(d)'
  <2>1. /\ LegActive(d, i) /\ pc[d] = "legs" /\ pc' = pc /\ doc' = doc /\ overlaid' = overlaid
        /\ legs[d][i] # "ok_cv"
    BY <1>24 DEF AcquireLease, LegActive, SetLeg, OnlyLegs
  <2>2. PICK s : SetLeg(d, i, s) /\ (cv_rows'[d] => cv_rows[d] \/ s = "ok_cv")
    BY <1>24, DocTypes DEF AcquireLease, LegActive, SetLeg, OnlyLegs
  <2> QED BY <2>1, <2>2, RowsLegFrame
<1>25. ASSUME NEW i \in DOMAIN legs[d], CvNotRun(d, i) PROVE RowsKept(d)'
  <2>1. /\ LegActive(d, i) /\ pc[d] = "legs" /\ pc' = pc /\ doc' = doc /\ overlaid' = overlaid
        /\ legs[d][i] # "ok_cv"
    BY <1>25 DEF CvNotRun, LegActive, SetLeg, OnlyLegs
  <2>2. PICK s : SetLeg(d, i, s) /\ (cv_rows'[d] => cv_rows[d] \/ s = "ok_cv")
    BY <1>25, DocTypes DEF CvNotRun, LegActive, SetLeg, OnlyLegs
  <2> QED BY <2>1, <2>2, RowsLegFrame
<1>26. ASSUME NEW i \in DOMAIN legs[d], BuildEngine(d, i) PROVE RowsKept(d)'
  <2>1. /\ LegActive(d, i) /\ pc[d] = "legs" /\ pc' = pc /\ doc' = doc /\ overlaid' = overlaid
        /\ legs[d][i] # "ok_cv"
    BY <1>26 DEF BuildEngine, LegActive, SetLeg, ReleaseLease, OnlyLegs
  <2>2. PICK s : SetLeg(d, i, s) /\ (cv_rows'[d] => cv_rows[d] \/ s = "ok_cv")
    BY <1>26, DocTypes DEF BuildEngine, LegActive, SetLeg, ReleaseLease, OnlyLegs
  <2> QED BY <2>1, <2>2, RowsLegFrame
<1>27. ASSUME NEW i \in DOMAIN legs[d], Recognized(d, i) PROVE RowsKept(d)'
  <2>1. /\ LegActive(d, i) /\ pc[d] = "legs" /\ pc' = pc /\ doc' = doc /\ overlaid' = overlaid
        /\ legs[d][i] # "ok_cv"
    BY <1>27 DEF Recognized, LegActive, SetLeg, ReleaseLease, OnlyLegs
  <2>2. PICK s : SetLeg(d, i, s) /\ (cv_rows'[d] => cv_rows[d] \/ s = "ok_cv")
    BY <1>27, DocTypes DEF Recognized, LegActive, SetLeg, ReleaseLease, OnlyLegs
  <2> QED BY <2>1, <2>2, RowsLegFrame
<1>28. ASSUME NEW w \in Workers, WorkerTake(w), Head(tasks) = d PROVE RowsKept(d)'
  <2>1. /\ cv_rows'[d] = cv_rows[d] /\ doc'[d] = doc[d] /\ overlaid'[d] = overlaid[d]
        /\ legs'[d] = legs[d]
    BY <1>28 DEF WorkerTake, Free, Go
  <2>2. /\ pc'[d] \in EarlyPCs => pc[d] \in EarlyPCs
        /\ pc'[d] \notin {"legs", "finalize"}
    BY <1>28, HeadWaits, DocTypes DEF WorkerTake, Free, Go, EarlyPCs
  <2> QED BY <2>1, <2>2, RowsFrame
<1>29. ASSUME NEW w \in Workers, WorkerDone(w), running[w] = d PROVE RowsKept(d)'
  <2>1. /\ cv_rows'[d] = cv_rows[d] /\ doc'[d] = doc[d] /\ overlaid'[d] = overlaid[d]
        /\ legs'[d] = legs[d] /\ pc'[d] = pc[d]
    BY <1>29 DEF WorkerDone, TakenBack, Streamed
  <2> QED BY <2>1, RowsFrame
<1> QED BY OwnStep, <1>1, <1>2, <1>3, <1>4, <1>5, <1>6, <1>7, <1>8, <1>9, <1>10, <1>11, <1>12,
    <1>13, <1>14, <1>15, <1>16, <1>17, <1>18, <1>19, <1>20, <1>21, <1>22, <1>23, <1>24, <1>25,
    <1>26, <1>27, <1>28, <1>29

\* What a unary task's end gives back: the whole charge, or nothing.
LEMMA GivenBack ==
  ASSUME CallTypes, NEW c \in Calls
  PROVE  /\ TakenBack(c) \in {0, charge[c]} /\ charge[c] - TakenBack(c) \in {0, RequestBytes}
         /\ charge[c] \in {0, RequestBytes} /\ fetched[c] \in {0, FetchedBytes}
         /\ charge[c] \in Nat /\ fetched[c] \in Nat /\ TakenBack(c) \in Nat
         /\ used \in Int
         /\ TakenBack(c) = charge[c] - (charge[c] - TakenBack(c))
<1>1. RequestBytes \in Nat /\ FetchedBytes \in Nat BY ParseAssumption DEF ParseAssumption
<1>2. charge[c] \in {0, RequestBytes} /\ fetched[c] \in {0, FetchedBytes}
  BY DEF CallTypes, TypeOK
<1>3. TakenBack(c) \in {0, charge[c]} BY DEF TakenBack
<1>5. used \in Int BY DEF CallTypes, TypeOK
<1>4. \A x, y \in Nat : x = x - 0 /\ x - x = 0 /\ y = x - (x - y) OBVIOUS
<1> QED BY <1>1, <1>2, <1>3, <1>4, <1>5

\* The types by groups: the executor, the pool, what a call is and holds, what
\* it parsed, what it answers.
ExecutorTypes ==
  /\ tasks \in Seq(Calls) /\ sleeping \subseteq Workers /\ stopping \in BOOLEAN
  /\ running \in [Workers -> Calls \cup {NoCall, "exited"}]
PoolTypes ==
  /\ free_slots \in Seq(1..PoolSize) /\ built \subseteq 1..PoolSize
  /\ lease \in [Calls -> 0..PoolSize] /\ engine \in Calls \cup {NoCall}
BytesTypes == used \in Int /\ seen \in [Calls -> Int]
ChargeTypes ==
  /\ charge \in [Calls -> {0, RequestBytes}] /\ fetched \in [Calls -> {0, FetchedBytes}]
InUseType == in_use \in Int
SlotTypes == slot \in [Calls -> BOOLEAN] /\ body \in [Calls -> BOOLEAN]
PlaceTypes ==
  /\ request \in [Calls -> Requests \cup {NoRequest}] /\ pc \in [Calls -> PCs]
  /\ cancelled \in [Calls -> BOOLEAN] /\ collectors_ran \in [Calls -> BOOLEAN]
LegTypesOK ==
  /\ DOMAIN legs = Calls /\ \A c \in Calls : \A i \in DOMAIN legs[c] : legs[c][i] \in LegStates
ParseTypes ==
  /\ DOMAIN doc = Calls /\ DOMAIN failures = Calls /\ cv_rows \in [Calls -> BOOLEAN]
  /\ offsets \in [Calls -> BOOLEAN] /\ overlaid \in [Calls -> BOOLEAN]
  /\ partial \in [Calls -> BOOLEAN]
StatusType == status \in [Calls -> Codes]
RecordedType == DOMAIN recorded = Calls
FinishedType == finished \in [Calls -> Nat]
NextType == next \in [Calls -> 0..Messages]

\* The types, in the groups the steps change.
LEMMA TypeGroups ==
  CallTypes <=> /\ ExecutorTypes /\ PoolTypes /\ BytesTypes /\ ChargeTypes /\ InUseType
                /\ SlotTypes /\ PlaceTypes /\ LegTypesOK /\ ParseTypes /\ StatusType
                /\ RecordedType /\ FinishedType /\ NextType
BY DEF CallTypes, TypeOK, ExecutorTypes, PoolTypes, BytesTypes, ChargeTypes, InUseType, SlotTypes,
       PlaceTypes, LegTypesOK, ParseTypes, StatusType, RecordedType, FinishedType, NextType

\* The executor keeps its types.
LEMMA ExecutorTypesStep ==
  ASSUME CallTypes, [Next]_vars
  PROVE  ExecutorTypes'
<1>1. ASSUME NEW c \in Calls, NEW r \in Requests, Call(c, r) PROVE ExecutorTypes'
  BY <1>1, TypeGroups DEF Call, Go, ExecutorTypes
<1>2. ASSUME NEW c \in Calls, NEW r \in Requests, CallRefused(c, r) PROVE ExecutorTypes'
  BY <1>2, TypeGroups DEF CallRefused, Finish, Record, Go, ExecutorTypes
<1>3. ASSUME NEW c \in Calls, Cancel(c) PROVE ExecutorTypes'
  BY <1>3, TypeGroups DEF Cancel, ExecutorTypes
<1>4. ASSUME NEW c \in Calls, AdmitLoad(c) PROVE ExecutorTypes'
  BY <1>4, TypeGroups DEF AdmitLoad, Go, ExecutorTypes
<1>5. ASSUME NEW c \in Calls, AdmitCas(c) PROVE ExecutorTypes'
  BY <1>5, TypeGroups DEF AdmitCas, CompareExchange, Fits, Finish, Record, Go, ExecutorTypes
<1>6. ASSUME NEW c \in Calls, Submit(c) PROVE ExecutorTypes'
  BY <1>6, TypeGroups DEF Submit, TakenBack, Streamed, Finish, Record, Go, ExecutorTypes
<1>7. ASSUME NEW c \in Calls, Dequeued(c) PROVE ExecutorTypes'
  BY <1>7, TypeGroups DEF Dequeued, OptionsRefused, Return, Finish, Record, Go, ExecutorTypes
<1>8. ASSUME NEW c \in Calls, AcquireSlot(c) PROVE ExecutorTypes'
  BY <1>8, TypeGroups DEF AcquireSlot, Return, Go, ExecutorTypes
<1>9. ASSUME NEW c \in Calls, Fetch(c) PROVE ExecutorTypes'
  BY <1>9, TypeGroups DEF Fetch, ReleaseSlot, Return, Go, ExecutorTypes
<1>10. ASSUME NEW c \in Calls, ChargeLoad(c) PROVE ExecutorTypes'
  BY <1>10, TypeGroups DEF ChargeLoad, Go, ExecutorTypes
<1>11. ASSUME NEW c \in Calls, ChargeCas(c) PROVE ExecutorTypes'
  BY <1>11, TypeGroups DEF ChargeCas, CompareExchange, Fits, ReleaseSlot, Return, Go,
     ExecutorTypes
<1>12. ASSUME NEW c \in Calls, Decode(c) PROVE ExecutorTypes'
  BY <1>12, TypeGroups DEF Decode, Return, Go, ExecutorTypes
<1>13. ASSUME NEW c \in Calls, Gather(c) PROVE ExecutorTypes'
  BY <1>13, TypeGroups DEF Gather, Return, Go, ExecutorTypes
<1>14. ASSUME NEW c \in Calls, Finalize(c) PROVE ExecutorTypes'
  BY <1>14, TypeGroups DEF Finalize, Return, Go, ExecutorTypes
<1>15. ASSUME NEW c \in Calls, Shape(c) PROVE ExecutorTypes'
  BY <1>15, TypeGroups DEF Shape, Return, Go, ExecutorTypes
<1>16. ASSUME NEW c \in Calls, AcquireEngine(c) PROVE ExecutorTypes'
  BY <1>16, TypeGroups DEF AcquireEngine, Return, Go, ExecutorTypes
<1>17. ASSUME NEW c \in Calls, Infer(c) PROVE ExecutorTypes'
  BY <1>17, TypeGroups DEF Infer, Return, Go, ExecutorTypes
<1>18. ASSUME NEW c \in Calls, Returned(c) PROVE ExecutorTypes'
  BY <1>18, TypeGroups DEF Returned, Streamed, Record, Completion, DropParse, Go, ExecutorTypes
<1>19. ASSUME NEW c \in Calls, WriteDone(c) PROVE ExecutorTypes'
  BY <1>19, TypeGroups DEF WriteDone, Finish, Go, ExecutorTypes
<1>20. ASSUME NEW c \in Calls, OnDone(c) PROVE ExecutorTypes'
  BY <1>20, TypeGroups DEF OnDone, Streamed, Go, ExecutorTypes
<1>21. ASSUME NEW c \in Calls, NEW i \in DOMAIN legs[c], LegStart(c, i) PROVE ExecutorTypes'
  BY <1>21, TypeGroups DEF LegStart, LegActive, SetLeg, OnlyLegs, ExecutorTypes
<1>22. ASSUME NEW c \in Calls, NEW i \in DOMAIN legs[c], LegAnswer(c, i) PROVE ExecutorTypes'
  BY <1>22, TypeGroups DEF LegAnswer, LegActive, SetLeg, RoutePdfLeg, OnlyLegs, ExecutorTypes
<1>23. ASSUME NEW c \in Calls, NEW i \in DOMAIN legs[c], AcquireLease(c, i) PROVE ExecutorTypes'
  BY <1>23, TypeGroups DEF AcquireLease, LegActive, SetLeg, OnlyLegs, ExecutorTypes
<1>24. ASSUME NEW c \in Calls, NEW i \in DOMAIN legs[c], CvNotRun(c, i) PROVE ExecutorTypes'
  BY <1>24, TypeGroups DEF CvNotRun, LegActive, SetLeg, OnlyLegs, ExecutorTypes
<1>25. ASSUME NEW c \in Calls, NEW i \in DOMAIN legs[c], BuildEngine(c, i) PROVE ExecutorTypes'
  BY <1>25, TypeGroups DEF BuildEngine, LegActive, SetLeg, ReleaseLease, OnlyLegs, ExecutorTypes
<1>26. ASSUME NEW c \in Calls, NEW i \in DOMAIN legs[c], Recognized(c, i) PROVE ExecutorTypes'
  BY <1>26, TypeGroups DEF Recognized, LegActive, SetLeg, ReleaseLease, OnlyLegs, ExecutorTypes
<1>27. ASSUME NEW w \in Workers, WorkerWait(w) PROVE ExecutorTypes'
  BY <1>27, TypeGroups DEF WorkerWait, Free, ExecutorTypes
<1>28. ASSUME NEW w \in Workers, WorkerTake(w) PROVE ExecutorTypes'
  <2>1. tasks \in Seq(Calls) /\ tasks # <<>> BY <1>28, TypeGroups DEF WorkerTake, ExecutorTypes
  <2>2. Head(tasks) \in Calls /\ Tail(tasks) \in Seq(Calls) BY <2>1
  <2> QED BY <1>28, <2>2, TypeGroups DEF WorkerTake, ExecutorTypes
<1>29. ASSUME NEW w \in Workers, WorkerDone(w) PROVE ExecutorTypes'
  BY <1>29, TypeGroups DEF WorkerDone, TakenBack, Streamed, ExecutorTypes
<1>30. CASE Stop
  BY <1>30, TypeGroups DEF Stop, ExecutorTypes
<1>31. CASE UNCHANGED vars
  BY <1>31, TypeGroups DEF vars, ExecutorTypes
<1> QED BY StepCases, <1>1, <1>2, <1>3, <1>4, <1>5, <1>6, <1>7, <1>8, <1>9, <1>10, <1>11, <1>12,
    <1>13, <1>14, <1>15, <1>16, <1>17, <1>18, <1>19, <1>20, <1>21, <1>22, <1>23, <1>24, <1>25,
    <1>26, <1>27, <1>28, <1>29, <1>30, <1>31

\* A leg that leased an engine, or runs it, holds one of the pool.
LEMMA LeasedNow ==
  ASSUME CallTypes, NEW c \in Calls, LegsKept(c), NEW i \in DOMAIN legs[c],
         legs[c][i] \in {"leased", "recognizing"}
  PROVE  lease[c] \in 1..PoolSize
<1>1. lease[c] # 0 BY DEF LegsKept
<1>2. PoolSize \in Nat BY ParseAssumption DEF ParseAssumption
<1>3. lease[c] \in 0..PoolSize BY DEF CallTypes, TypeOK
<1> QED BY <1>1, <1>2, <1>3

\* The pool keeps its types.
LEMMA PoolTypesStep ==
  ASSUME CallTypes, \A c \in Calls : LegsKept(c), [Next]_vars
  PROVE  PoolTypes'
<1>1. ASSUME NEW c \in Calls, NEW r \in Requests, Call(c, r) PROVE PoolTypes'
  BY <1>1, TypeGroups DEF Call, Go, PoolTypes
<1>2. ASSUME NEW c \in Calls, NEW r \in Requests, CallRefused(c, r) PROVE PoolTypes'
  BY <1>2, TypeGroups DEF CallRefused, Finish, Record, Go, PoolTypes
<1>3. ASSUME NEW c \in Calls, Cancel(c) PROVE PoolTypes'
  BY <1>3, TypeGroups DEF Cancel, PoolTypes
<1>4. ASSUME NEW c \in Calls, AdmitLoad(c) PROVE PoolTypes'
  BY <1>4, TypeGroups DEF AdmitLoad, Go, PoolTypes
<1>5. ASSUME NEW c \in Calls, AdmitCas(c) PROVE PoolTypes'
  BY <1>5, TypeGroups DEF AdmitCas, CompareExchange, Fits, Finish, Record, Go, PoolTypes
<1>6. ASSUME NEW c \in Calls, Submit(c) PROVE PoolTypes'
  BY <1>6, TypeGroups DEF Submit, TakenBack, Streamed, Finish, Record, Go, PoolTypes
<1>7. ASSUME NEW c \in Calls, Dequeued(c) PROVE PoolTypes'
  BY <1>7, TypeGroups DEF Dequeued, OptionsRefused, Return, Finish, Record, Go, PoolTypes
<1>8. ASSUME NEW c \in Calls, AcquireSlot(c) PROVE PoolTypes'
  BY <1>8, TypeGroups DEF AcquireSlot, Return, Go, PoolTypes
<1>9. ASSUME NEW c \in Calls, Fetch(c) PROVE PoolTypes'
  BY <1>9, TypeGroups DEF Fetch, ReleaseSlot, Return, Go, PoolTypes
<1>10. ASSUME NEW c \in Calls, ChargeLoad(c) PROVE PoolTypes'
  BY <1>10, TypeGroups DEF ChargeLoad, Go, PoolTypes
<1>11. ASSUME NEW c \in Calls, ChargeCas(c) PROVE PoolTypes'
  BY <1>11, TypeGroups DEF ChargeCas, CompareExchange, Fits, ReleaseSlot, Return, Go, PoolTypes
<1>12. ASSUME NEW c \in Calls, Decode(c) PROVE PoolTypes'
  BY <1>12, TypeGroups DEF Decode, Return, Go, PoolTypes
<1>13. ASSUME NEW c \in Calls, Gather(c) PROVE PoolTypes'
  BY <1>13, TypeGroups DEF Gather, Return, Go, PoolTypes
<1>14. ASSUME NEW c \in Calls, Finalize(c) PROVE PoolTypes'
  BY <1>14, TypeGroups DEF Finalize, Return, Go, PoolTypes
<1>15. ASSUME NEW c \in Calls, Shape(c) PROVE PoolTypes'
  BY <1>15, TypeGroups DEF Shape, Return, Go, PoolTypes
<1>16. ASSUME NEW c \in Calls, AcquireEngine(c) PROVE PoolTypes'
  BY <1>16, TypeGroups DEF AcquireEngine, Return, Go, PoolTypes
<1>17. ASSUME NEW c \in Calls, Infer(c) PROVE PoolTypes'
  BY <1>17, TypeGroups DEF Infer, Return, Go, PoolTypes
<1>18. ASSUME NEW c \in Calls, Returned(c) PROVE PoolTypes'
  BY <1>18, TypeGroups DEF Returned, Streamed, Record, Completion, DropParse, Go, PoolTypes
<1>19. ASSUME NEW c \in Calls, WriteDone(c) PROVE PoolTypes'
  BY <1>19, TypeGroups DEF WriteDone, Finish, Go, PoolTypes
<1>20. ASSUME NEW c \in Calls, OnDone(c) PROVE PoolTypes'
  BY <1>20, TypeGroups DEF OnDone, Streamed, Go, PoolTypes
<1>21. ASSUME NEW c \in Calls, NEW i \in DOMAIN legs[c], LegStart(c, i) PROVE PoolTypes'
  BY <1>21, TypeGroups DEF LegStart, LegActive, SetLeg, OnlyLegs, PoolTypes
<1>22. ASSUME NEW c \in Calls, NEW i \in DOMAIN legs[c], LegAnswer(c, i) PROVE PoolTypes'
  BY <1>22, TypeGroups DEF LegAnswer, LegActive, SetLeg, RoutePdfLeg, OnlyLegs, PoolTypes
<1>23. ASSUME NEW c \in Calls, NEW i \in DOMAIN legs[c], AcquireLease(c, i) PROVE PoolTypes'
  <2>1. free_slots \in Seq(1..PoolSize) /\ free_slots # <<>>
    BY <1>23, TypeGroups DEF AcquireLease, PoolTypes
  <2>2. Last(free_slots) \in 1..PoolSize /\ Front(free_slots) \in Seq(1..PoolSize)
    BY <2>1, LastOfSlots
  <2>3. Last(free_slots) \in 0..PoolSize BY <2>2, ParseAssumption DEF ParseAssumption
  <2> QED BY <1>23, <2>2, <2>3, TypeGroups DEF AcquireLease, LegActive, SetLeg, OnlyLegs,
      PoolTypes
<1>24. ASSUME NEW c \in Calls, NEW i \in DOMAIN legs[c], CvNotRun(c, i) PROVE PoolTypes'
  BY <1>24, TypeGroups DEF CvNotRun, LegActive, SetLeg, OnlyLegs, PoolTypes
<1>25. ASSUME NEW c \in Calls, NEW i \in DOMAIN legs[c], BuildEngine(c, i) PROVE PoolTypes'
  <2>1. free_slots \in Seq(1..PoolSize) /\ lease \in [Calls -> 0..PoolSize] BY TypeGroups DEF
      PoolTypes
  <2>2. lease[c] \in 1..PoolSize
    BY <1>25, <2>1, LeasedNow, ParseAssumption DEF BuildEngine, LegActive, SetLeg, ReleaseLease,
        OnlyLegs, ParseAssumption
  <2>3. Append(free_slots, lease[c]) \in Seq(1..PoolSize) BY <2>1, <2>2
  <2>4. built \subseteq 1..PoolSize /\ engine \in Calls \cup {NoCall} BY TypeGroups DEF
      PoolTypes
  <2>5. free_slots' = free_slots \/ free_slots' = Append(free_slots, lease[c])
    BY <1>25 DEF BuildEngine, LegActive, SetLeg, ReleaseLease, OnlyLegs
  <2>6. lease' = lease \/ lease' = [lease EXCEPT ![c] = 0] BY <1>25 DEF BuildEngine, LegActive,
      SetLeg, ReleaseLease, OnlyLegs
  <2>7. built' \subseteq built \cup {lease[c]} /\ engine' = engine BY <1>25 DEF BuildEngine,
      LegActive, SetLeg, ReleaseLease, OnlyLegs
  <2>8. 0 \in 0..PoolSize BY ParseAssumption DEF ParseAssumption
  <2>9. lease' \in [Calls -> 0..PoolSize] BY <2>1, <2>6, <2>8
  <2> QED BY <2>1, <2>2, <2>3, <2>4, <2>5, <2>7, <2>9 DEF PoolTypes
<1>26. ASSUME NEW c \in Calls, NEW i \in DOMAIN legs[c], Recognized(c, i) PROVE PoolTypes'
  <2>1. free_slots \in Seq(1..PoolSize) /\ lease \in [Calls -> 0..PoolSize] BY TypeGroups DEF
      PoolTypes
  <2>2. lease[c] \in 1..PoolSize
    BY <1>26, <2>1, LeasedNow, ParseAssumption DEF Recognized, LegActive, SetLeg, ReleaseLease,
        OnlyLegs, ParseAssumption
  <2>3. Append(free_slots, lease[c]) \in Seq(1..PoolSize) BY <2>1, <2>2
  <2>4. built \subseteq 1..PoolSize /\ engine \in Calls \cup {NoCall} BY TypeGroups DEF
      PoolTypes
  <2>5. free_slots' = free_slots \/ free_slots' = Append(free_slots, lease[c])
    BY <1>26 DEF Recognized, LegActive, SetLeg, ReleaseLease, OnlyLegs
  <2>6. lease' = lease \/ lease' = [lease EXCEPT ![c] = 0] BY <1>26 DEF Recognized, LegActive,
      SetLeg, ReleaseLease, OnlyLegs
  <2>7. built' \subseteq built \cup {lease[c]} /\ engine' = engine BY <1>26 DEF Recognized,
      LegActive, SetLeg, ReleaseLease, OnlyLegs
  <2>8. 0 \in 0..PoolSize BY ParseAssumption DEF ParseAssumption
  <2>9. lease' \in [Calls -> 0..PoolSize] BY <2>1, <2>6, <2>8
  <2> QED BY <2>1, <2>2, <2>3, <2>4, <2>5, <2>7, <2>9 DEF PoolTypes
<1>27. ASSUME NEW w \in Workers, WorkerWait(w) PROVE PoolTypes'
  BY <1>27, TypeGroups DEF WorkerWait, Free, PoolTypes
<1>28. ASSUME NEW w \in Workers, WorkerTake(w) PROVE PoolTypes'
  BY <1>28, TypeGroups DEF WorkerTake, Free, Go, PoolTypes
<1>29. ASSUME NEW w \in Workers, WorkerDone(w) PROVE PoolTypes'
  BY <1>29, TypeGroups DEF WorkerDone, TakenBack, Streamed, PoolTypes
<1>30. CASE Stop
  BY <1>30, TypeGroups DEF Stop, PoolTypes
<1>31. CASE UNCHANGED vars
  BY <1>31, TypeGroups DEF vars, PoolTypes
<1> QED BY StepCases, <1>1, <1>2, <1>3, <1>4, <1>5, <1>6, <1>7, <1>8, <1>9, <1>10, <1>11, <1>12,
    <1>13, <1>14, <1>15, <1>16, <1>17, <1>18, <1>19, <1>20, <1>21, <1>22, <1>23, <1>24, <1>25,
    <1>26, <1>27, <1>28, <1>29, <1>30, <1>31

\* Bytes are counted in integers.
LEMMA BytesTypesStep ==
  ASSUME CallTypes, [Next]_vars
  PROVE  BytesTypes'
<1>1. ASSUME NEW c \in Calls, NEW r \in Requests, Call(c, r) PROVE BytesTypes'
  BY <1>1, TypeGroups DEF Call, Go, BytesTypes
<1>2. ASSUME NEW c \in Calls, NEW r \in Requests, CallRefused(c, r) PROVE BytesTypes'
  BY <1>2, TypeGroups DEF CallRefused, Finish, Record, Go, BytesTypes
<1>3. ASSUME NEW c \in Calls, Cancel(c) PROVE BytesTypes'
  BY <1>3, TypeGroups DEF Cancel, BytesTypes
<1>4. ASSUME NEW c \in Calls, AdmitLoad(c) PROVE BytesTypes'
  BY <1>4, TypeGroups DEF AdmitLoad, Go, BytesTypes
<1>5. ASSUME NEW c \in Calls, AdmitCas(c) PROVE BytesTypes'
  BY <1>5, TypeGroups, ParseAssumption DEF AdmitCas, CompareExchange, Fits, Finish, Record, Go,
     BytesTypes, ParseAssumption
<1>6. ASSUME NEW c \in Calls, Submit(c) PROVE BytesTypes'
  BY <1>6, TypeGroups, GivenBack DEF Submit, TakenBack, Streamed, Finish, Record, Go, BytesTypes
<1>7. ASSUME NEW c \in Calls, Dequeued(c) PROVE BytesTypes'
  BY <1>7, TypeGroups DEF Dequeued, OptionsRefused, Return, Finish, Record, Go, BytesTypes
<1>8. ASSUME NEW c \in Calls, AcquireSlot(c) PROVE BytesTypes'
  BY <1>8, TypeGroups DEF AcquireSlot, Return, Go, BytesTypes
<1>9. ASSUME NEW c \in Calls, Fetch(c) PROVE BytesTypes'
  BY <1>9, TypeGroups DEF Fetch, ReleaseSlot, Return, Go, BytesTypes
<1>10. ASSUME NEW c \in Calls, ChargeLoad(c) PROVE BytesTypes'
  BY <1>10, TypeGroups DEF ChargeLoad, Go, BytesTypes
<1>11. ASSUME NEW c \in Calls, ChargeCas(c) PROVE BytesTypes'
  BY <1>11, TypeGroups, ParseAssumption DEF ChargeCas, CompareExchange, Fits, ReleaseSlot, Return,
     Go, BytesTypes, ParseAssumption
<1>12. ASSUME NEW c \in Calls, Decode(c) PROVE BytesTypes'
  BY <1>12, TypeGroups DEF Decode, Return, Go, BytesTypes
<1>13. ASSUME NEW c \in Calls, Gather(c) PROVE BytesTypes'
  BY <1>13, TypeGroups DEF Gather, Return, Go, BytesTypes
<1>14. ASSUME NEW c \in Calls, Finalize(c) PROVE BytesTypes'
  BY <1>14, TypeGroups DEF Finalize, Return, Go, BytesTypes
<1>15. ASSUME NEW c \in Calls, Shape(c) PROVE BytesTypes'
  BY <1>15, TypeGroups DEF Shape, Return, Go, BytesTypes
<1>16. ASSUME NEW c \in Calls, AcquireEngine(c) PROVE BytesTypes'
  BY <1>16, TypeGroups DEF AcquireEngine, Return, Go, BytesTypes
<1>17. ASSUME NEW c \in Calls, Infer(c) PROVE BytesTypes'
  BY <1>17, TypeGroups DEF Infer, Return, Go, BytesTypes
<1>18. ASSUME NEW c \in Calls, Returned(c) PROVE BytesTypes'
  BY <1>18, TypeGroups, GivenBack DEF Returned, Streamed, Record, Completion, DropParse, Go,
     BytesTypes
<1>19. ASSUME NEW c \in Calls, WriteDone(c) PROVE BytesTypes'
  BY <1>19, TypeGroups DEF WriteDone, Finish, Go, BytesTypes
<1>20. ASSUME NEW c \in Calls, OnDone(c) PROVE BytesTypes'
  BY <1>20, TypeGroups, GivenBack DEF OnDone, Streamed, Go, BytesTypes
<1>21. ASSUME NEW c \in Calls, NEW i \in DOMAIN legs[c], LegStart(c, i) PROVE BytesTypes'
  BY <1>21, TypeGroups DEF LegStart, LegActive, SetLeg, OnlyLegs, BytesTypes
<1>22. ASSUME NEW c \in Calls, NEW i \in DOMAIN legs[c], LegAnswer(c, i) PROVE BytesTypes'
  BY <1>22, TypeGroups DEF LegAnswer, LegActive, SetLeg, RoutePdfLeg, OnlyLegs, BytesTypes
<1>23. ASSUME NEW c \in Calls, NEW i \in DOMAIN legs[c], AcquireLease(c, i) PROVE BytesTypes'
  BY <1>23, TypeGroups DEF AcquireLease, LegActive, SetLeg, OnlyLegs, BytesTypes
<1>24. ASSUME NEW c \in Calls, NEW i \in DOMAIN legs[c], CvNotRun(c, i) PROVE BytesTypes'
  BY <1>24, TypeGroups DEF CvNotRun, LegActive, SetLeg, OnlyLegs, BytesTypes
<1>25. ASSUME NEW c \in Calls, NEW i \in DOMAIN legs[c], BuildEngine(c, i) PROVE BytesTypes'
  BY <1>25, TypeGroups DEF BuildEngine, LegActive, SetLeg, ReleaseLease, OnlyLegs, BytesTypes
<1>26. ASSUME NEW c \in Calls, NEW i \in DOMAIN legs[c], Recognized(c, i) PROVE BytesTypes'
  BY <1>26, TypeGroups DEF Recognized, LegActive, SetLeg, ReleaseLease, OnlyLegs, BytesTypes
<1>27. ASSUME NEW w \in Workers, WorkerWait(w) PROVE BytesTypes'
  BY <1>27, TypeGroups DEF WorkerWait, Free, BytesTypes
<1>28. ASSUME NEW w \in Workers, WorkerTake(w) PROVE BytesTypes'
  BY <1>28, TypeGroups DEF WorkerTake, Free, Go, BytesTypes
<1>29. ASSUME NEW w \in Workers, WorkerDone(w) PROVE BytesTypes'
  <2>1. running[w] \in Calls BY <1>29 DEF WorkerDone
  <2> QED BY <1>29, <2>1, TypeGroups, GivenBack DEF WorkerDone, BytesTypes
<1>30. CASE Stop
  BY <1>30, TypeGroups DEF Stop, BytesTypes
<1>31. CASE UNCHANGED vars
  BY <1>31, TypeGroups DEF vars, BytesTypes
<1> QED BY StepCases, <1>1, <1>2, <1>3, <1>4, <1>5, <1>6, <1>7, <1>8, <1>9, <1>10, <1>11, <1>12,
    <1>13, <1>14, <1>15, <1>16, <1>17, <1>18, <1>19, <1>20, <1>21, <1>22, <1>23, <1>24, <1>25,
    <1>26, <1>27, <1>28, <1>29, <1>30, <1>31

\* A call holds its charge or none.
LEMMA ChargeTypesStep ==
  ASSUME CallTypes, [Next]_vars
  PROVE  ChargeTypes'
<1>1. ASSUME NEW c \in Calls, NEW r \in Requests, Call(c, r) PROVE ChargeTypes'
  BY <1>1, TypeGroups DEF Call, Go, ChargeTypes
<1>2. ASSUME NEW c \in Calls, NEW r \in Requests, CallRefused(c, r) PROVE ChargeTypes'
  BY <1>2, TypeGroups DEF CallRefused, Finish, Record, Go, ChargeTypes
<1>3. ASSUME NEW c \in Calls, Cancel(c) PROVE ChargeTypes'
  BY <1>3, TypeGroups DEF Cancel, ChargeTypes
<1>4. ASSUME NEW c \in Calls, AdmitLoad(c) PROVE ChargeTypes'
  BY <1>4, TypeGroups DEF AdmitLoad, Go, ChargeTypes
<1>5. ASSUME NEW c \in Calls, AdmitCas(c) PROVE ChargeTypes'
  BY <1>5, TypeGroups DEF AdmitCas, CompareExchange, Fits, Finish, Record, Go, ChargeTypes
<1>6. ASSUME NEW c \in Calls, Submit(c) PROVE ChargeTypes'
  BY <1>6, TypeGroups, GivenBack DEF Submit, TakenBack, Streamed, Finish, Record, Go, ChargeTypes
<1>7. ASSUME NEW c \in Calls, Dequeued(c) PROVE ChargeTypes'
  BY <1>7, TypeGroups DEF Dequeued, OptionsRefused, Return, Finish, Record, Go, ChargeTypes
<1>8. ASSUME NEW c \in Calls, AcquireSlot(c) PROVE ChargeTypes'
  BY <1>8, TypeGroups DEF AcquireSlot, Return, Go, ChargeTypes
<1>9. ASSUME NEW c \in Calls, Fetch(c) PROVE ChargeTypes'
  BY <1>9, TypeGroups DEF Fetch, ReleaseSlot, Return, Go, ChargeTypes
<1>10. ASSUME NEW c \in Calls, ChargeLoad(c) PROVE ChargeTypes'
  BY <1>10, TypeGroups DEF ChargeLoad, Go, ChargeTypes
<1>11. ASSUME NEW c \in Calls, ChargeCas(c) PROVE ChargeTypes'
  BY <1>11, TypeGroups DEF ChargeCas, CompareExchange, Fits, ReleaseSlot, Return, Go, ChargeTypes
<1>12. ASSUME NEW c \in Calls, Decode(c) PROVE ChargeTypes'
  BY <1>12, TypeGroups DEF Decode, Return, Go, ChargeTypes
<1>13. ASSUME NEW c \in Calls, Gather(c) PROVE ChargeTypes'
  BY <1>13, TypeGroups DEF Gather, Return, Go, ChargeTypes
<1>14. ASSUME NEW c \in Calls, Finalize(c) PROVE ChargeTypes'
  BY <1>14, TypeGroups DEF Finalize, Return, Go, ChargeTypes
<1>15. ASSUME NEW c \in Calls, Shape(c) PROVE ChargeTypes'
  BY <1>15, TypeGroups DEF Shape, Return, Go, ChargeTypes
<1>16. ASSUME NEW c \in Calls, AcquireEngine(c) PROVE ChargeTypes'
  BY <1>16, TypeGroups DEF AcquireEngine, Return, Go, ChargeTypes
<1>17. ASSUME NEW c \in Calls, Infer(c) PROVE ChargeTypes'
  BY <1>17, TypeGroups DEF Infer, Return, Go, ChargeTypes
<1>18. ASSUME NEW c \in Calls, Returned(c) PROVE ChargeTypes'
  BY <1>18, TypeGroups, GivenBack DEF Returned, Streamed, Record, Completion, DropParse, Go,
     ChargeTypes
<1>19. ASSUME NEW c \in Calls, WriteDone(c) PROVE ChargeTypes'
  BY <1>19, TypeGroups DEF WriteDone, Finish, Go, ChargeTypes
<1>20. ASSUME NEW c \in Calls, OnDone(c) PROVE ChargeTypes'
  BY <1>20, TypeGroups, GivenBack DEF OnDone, Streamed, Go, ChargeTypes
<1>21. ASSUME NEW c \in Calls, NEW i \in DOMAIN legs[c], LegStart(c, i) PROVE ChargeTypes'
  BY <1>21, TypeGroups DEF LegStart, LegActive, SetLeg, OnlyLegs, ChargeTypes
<1>22. ASSUME NEW c \in Calls, NEW i \in DOMAIN legs[c], LegAnswer(c, i) PROVE ChargeTypes'
  BY <1>22, TypeGroups DEF LegAnswer, LegActive, SetLeg, RoutePdfLeg, OnlyLegs, ChargeTypes
<1>23. ASSUME NEW c \in Calls, NEW i \in DOMAIN legs[c], AcquireLease(c, i) PROVE ChargeTypes'
  BY <1>23, TypeGroups DEF AcquireLease, LegActive, SetLeg, OnlyLegs, ChargeTypes
<1>24. ASSUME NEW c \in Calls, NEW i \in DOMAIN legs[c], CvNotRun(c, i) PROVE ChargeTypes'
  BY <1>24, TypeGroups DEF CvNotRun, LegActive, SetLeg, OnlyLegs, ChargeTypes
<1>25. ASSUME NEW c \in Calls, NEW i \in DOMAIN legs[c], BuildEngine(c, i) PROVE ChargeTypes'
  BY <1>25, TypeGroups DEF BuildEngine, LegActive, SetLeg, ReleaseLease, OnlyLegs, ChargeTypes
<1>26. ASSUME NEW c \in Calls, NEW i \in DOMAIN legs[c], Recognized(c, i) PROVE ChargeTypes'
  BY <1>26, TypeGroups DEF Recognized, LegActive, SetLeg, ReleaseLease, OnlyLegs, ChargeTypes
<1>27. ASSUME NEW w \in Workers, WorkerWait(w) PROVE ChargeTypes'
  BY <1>27, TypeGroups DEF WorkerWait, Free, ChargeTypes
<1>28. ASSUME NEW w \in Workers, WorkerTake(w) PROVE ChargeTypes'
  BY <1>28, TypeGroups DEF WorkerTake, Free, Go, ChargeTypes
<1>29. ASSUME NEW w \in Workers, WorkerDone(w) PROVE ChargeTypes'
  <2>1. running[w] \in Calls BY <1>29 DEF WorkerDone
  <2> QED BY <1>29, <2>1, TypeGroups, GivenBack DEF WorkerDone, ChargeTypes
<1>30. CASE Stop
  BY <1>30, TypeGroups DEF Stop, ChargeTypes
<1>31. CASE UNCHANGED vars
  BY <1>31, TypeGroups DEF vars, ChargeTypes
<1> QED BY StepCases, <1>1, <1>2, <1>3, <1>4, <1>5, <1>6, <1>7, <1>8, <1>9, <1>10, <1>11, <1>12,
    <1>13, <1>14, <1>15, <1>16, <1>17, <1>18, <1>19, <1>20, <1>21, <1>22, <1>23, <1>24, <1>25,
    <1>26, <1>27, <1>28, <1>29, <1>30, <1>31

\* Slots in use are counted in integers.
LEMMA InUseTypeStep ==
  ASSUME CallTypes, [Next]_vars
  PROVE  InUseType'
<1>1. ASSUME NEW c \in Calls, NEW r \in Requests, Call(c, r) PROVE InUseType'
  BY <1>1, TypeGroups DEF Call, Go, InUseType
<1>2. ASSUME NEW c \in Calls, NEW r \in Requests, CallRefused(c, r) PROVE InUseType'
  BY <1>2, TypeGroups DEF CallRefused, Finish, Record, Go, InUseType
<1>3. ASSUME NEW c \in Calls, Cancel(c) PROVE InUseType'
  BY <1>3, TypeGroups DEF Cancel, InUseType
<1>4. ASSUME NEW c \in Calls, AdmitLoad(c) PROVE InUseType'
  BY <1>4, TypeGroups DEF AdmitLoad, Go, InUseType
<1>5. ASSUME NEW c \in Calls, AdmitCas(c) PROVE InUseType'
  BY <1>5, TypeGroups DEF AdmitCas, CompareExchange, Fits, Finish, Record, Go, InUseType
<1>6. ASSUME NEW c \in Calls, Submit(c) PROVE InUseType'
  BY <1>6, TypeGroups DEF Submit, TakenBack, Streamed, Finish, Record, Go, InUseType
<1>7. ASSUME NEW c \in Calls, Dequeued(c) PROVE InUseType'
  BY <1>7, TypeGroups DEF Dequeued, OptionsRefused, Return, Finish, Record, Go, InUseType
<1>8. ASSUME NEW c \in Calls, AcquireSlot(c) PROVE InUseType'
  BY <1>8, TypeGroups DEF AcquireSlot, Return, Go, InUseType
<1>9. ASSUME NEW c \in Calls, Fetch(c) PROVE InUseType'
  BY <1>9, TypeGroups DEF Fetch, ReleaseSlot, Return, Go, InUseType
<1>10. ASSUME NEW c \in Calls, ChargeLoad(c) PROVE InUseType'
  BY <1>10, TypeGroups DEF ChargeLoad, Go, InUseType
<1>11. ASSUME NEW c \in Calls, ChargeCas(c) PROVE InUseType'
  BY <1>11, TypeGroups DEF ChargeCas, CompareExchange, Fits, ReleaseSlot, Return, Go, InUseType
<1>12. ASSUME NEW c \in Calls, Decode(c) PROVE InUseType'
  BY <1>12, TypeGroups DEF Decode, Return, Go, InUseType
<1>13. ASSUME NEW c \in Calls, Gather(c) PROVE InUseType'
  BY <1>13, TypeGroups DEF Gather, Return, Go, InUseType
<1>14. ASSUME NEW c \in Calls, Finalize(c) PROVE InUseType'
  BY <1>14, TypeGroups DEF Finalize, Return, Go, InUseType
<1>15. ASSUME NEW c \in Calls, Shape(c) PROVE InUseType'
  BY <1>15, TypeGroups DEF Shape, Return, Go, InUseType
<1>16. ASSUME NEW c \in Calls, AcquireEngine(c) PROVE InUseType'
  BY <1>16, TypeGroups DEF AcquireEngine, Return, Go, InUseType
<1>17. ASSUME NEW c \in Calls, Infer(c) PROVE InUseType'
  BY <1>17, TypeGroups DEF Infer, Return, Go, InUseType
<1>18. ASSUME NEW c \in Calls, Returned(c) PROVE InUseType'
  BY <1>18, TypeGroups DEF Returned, Streamed, Record, Completion, DropParse, Go, InUseType
<1>19. ASSUME NEW c \in Calls, WriteDone(c) PROVE InUseType'
  BY <1>19, TypeGroups DEF WriteDone, Finish, Go, InUseType
<1>20. ASSUME NEW c \in Calls, OnDone(c) PROVE InUseType'
  BY <1>20, TypeGroups DEF OnDone, Streamed, Go, InUseType
<1>21. ASSUME NEW c \in Calls, NEW i \in DOMAIN legs[c], LegStart(c, i) PROVE InUseType'
  BY <1>21, TypeGroups DEF LegStart, LegActive, SetLeg, OnlyLegs, InUseType
<1>22. ASSUME NEW c \in Calls, NEW i \in DOMAIN legs[c], LegAnswer(c, i) PROVE InUseType'
  BY <1>22, TypeGroups DEF LegAnswer, LegActive, SetLeg, RoutePdfLeg, OnlyLegs, InUseType
<1>23. ASSUME NEW c \in Calls, NEW i \in DOMAIN legs[c], AcquireLease(c, i) PROVE InUseType'
  BY <1>23, TypeGroups DEF AcquireLease, LegActive, SetLeg, OnlyLegs, InUseType
<1>24. ASSUME NEW c \in Calls, NEW i \in DOMAIN legs[c], CvNotRun(c, i) PROVE InUseType'
  BY <1>24, TypeGroups DEF CvNotRun, LegActive, SetLeg, OnlyLegs, InUseType
<1>25. ASSUME NEW c \in Calls, NEW i \in DOMAIN legs[c], BuildEngine(c, i) PROVE InUseType'
  BY <1>25, TypeGroups DEF BuildEngine, LegActive, SetLeg, ReleaseLease, OnlyLegs, InUseType
<1>26. ASSUME NEW c \in Calls, NEW i \in DOMAIN legs[c], Recognized(c, i) PROVE InUseType'
  BY <1>26, TypeGroups DEF Recognized, LegActive, SetLeg, ReleaseLease, OnlyLegs, InUseType
<1>27. ASSUME NEW w \in Workers, WorkerWait(w) PROVE InUseType'
  BY <1>27, TypeGroups DEF WorkerWait, Free, InUseType
<1>28. ASSUME NEW w \in Workers, WorkerTake(w) PROVE InUseType'
  BY <1>28, TypeGroups DEF WorkerTake, Free, Go, InUseType
<1>29. ASSUME NEW w \in Workers, WorkerDone(w) PROVE InUseType'
  BY <1>29, TypeGroups DEF WorkerDone, TakenBack, Streamed, InUseType
<1>30. CASE Stop
  BY <1>30, TypeGroups DEF Stop, InUseType
<1>31. CASE UNCHANGED vars
  BY <1>31, TypeGroups DEF vars, InUseType
<1> QED BY StepCases, <1>1, <1>2, <1>3, <1>4, <1>5, <1>6, <1>7, <1>8, <1>9, <1>10, <1>11, <1>12,
    <1>13, <1>14, <1>15, <1>16, <1>17, <1>18, <1>19, <1>20, <1>21, <1>22, <1>23, <1>24, <1>25,
    <1>26, <1>27, <1>28, <1>29, <1>30, <1>31

\* Slots keep their types.
LEMMA SlotTypesStep ==
  ASSUME CallTypes, [Next]_vars
  PROVE  SlotTypes'
<1>1. ASSUME NEW c \in Calls, NEW r \in Requests, Call(c, r) PROVE SlotTypes'
  BY <1>1, TypeGroups DEF Call, Go, SlotTypes
<1>2. ASSUME NEW c \in Calls, NEW r \in Requests, CallRefused(c, r) PROVE SlotTypes'
  BY <1>2, TypeGroups DEF CallRefused, Finish, Record, Go, SlotTypes
<1>3. ASSUME NEW c \in Calls, Cancel(c) PROVE SlotTypes'
  BY <1>3, TypeGroups DEF Cancel, SlotTypes
<1>4. ASSUME NEW c \in Calls, AdmitLoad(c) PROVE SlotTypes'
  BY <1>4, TypeGroups DEF AdmitLoad, Go, SlotTypes
<1>5. ASSUME NEW c \in Calls, AdmitCas(c) PROVE SlotTypes'
  BY <1>5, TypeGroups DEF AdmitCas, CompareExchange, Fits, Finish, Record, Go, SlotTypes
<1>6. ASSUME NEW c \in Calls, Submit(c) PROVE SlotTypes'
  BY <1>6, TypeGroups DEF Submit, TakenBack, Streamed, Finish, Record, Go, SlotTypes
<1>7. ASSUME NEW c \in Calls, Dequeued(c) PROVE SlotTypes'
  BY <1>7, TypeGroups DEF Dequeued, OptionsRefused, Return, Finish, Record, Go, SlotTypes
<1>8. ASSUME NEW c \in Calls, AcquireSlot(c) PROVE SlotTypes'
  BY <1>8, TypeGroups DEF AcquireSlot, Return, Go, SlotTypes
<1>9. ASSUME NEW c \in Calls, Fetch(c) PROVE SlotTypes'
  BY <1>9, TypeGroups DEF Fetch, ReleaseSlot, Return, Go, SlotTypes
<1>10. ASSUME NEW c \in Calls, ChargeLoad(c) PROVE SlotTypes'
  BY <1>10, TypeGroups DEF ChargeLoad, Go, SlotTypes
<1>11. ASSUME NEW c \in Calls, ChargeCas(c) PROVE SlotTypes'
  BY <1>11, TypeGroups DEF ChargeCas, CompareExchange, Fits, ReleaseSlot, Return, Go, SlotTypes
<1>12. ASSUME NEW c \in Calls, Decode(c) PROVE SlotTypes'
  BY <1>12, TypeGroups DEF Decode, Return, Go, SlotTypes
<1>13. ASSUME NEW c \in Calls, Gather(c) PROVE SlotTypes'
  BY <1>13, TypeGroups DEF Gather, Return, Go, SlotTypes
<1>14. ASSUME NEW c \in Calls, Finalize(c) PROVE SlotTypes'
  BY <1>14, TypeGroups DEF Finalize, Return, Go, SlotTypes
<1>15. ASSUME NEW c \in Calls, Shape(c) PROVE SlotTypes'
  BY <1>15, TypeGroups DEF Shape, Return, Go, SlotTypes
<1>16. ASSUME NEW c \in Calls, AcquireEngine(c) PROVE SlotTypes'
  BY <1>16, TypeGroups DEF AcquireEngine, Return, Go, SlotTypes
<1>17. ASSUME NEW c \in Calls, Infer(c) PROVE SlotTypes'
  BY <1>17, TypeGroups DEF Infer, Return, Go, SlotTypes
<1>18. ASSUME NEW c \in Calls, Returned(c) PROVE SlotTypes'
  BY <1>18, TypeGroups DEF Returned, Streamed, Record, Completion, DropParse, Go, SlotTypes
<1>19. ASSUME NEW c \in Calls, WriteDone(c) PROVE SlotTypes'
  BY <1>19, TypeGroups DEF WriteDone, Finish, Go, SlotTypes
<1>20. ASSUME NEW c \in Calls, OnDone(c) PROVE SlotTypes'
  BY <1>20, TypeGroups DEF OnDone, Streamed, Go, SlotTypes
<1>21. ASSUME NEW c \in Calls, NEW i \in DOMAIN legs[c], LegStart(c, i) PROVE SlotTypes'
  BY <1>21, TypeGroups DEF LegStart, LegActive, SetLeg, OnlyLegs, SlotTypes
<1>22. ASSUME NEW c \in Calls, NEW i \in DOMAIN legs[c], LegAnswer(c, i) PROVE SlotTypes'
  BY <1>22, TypeGroups DEF LegAnswer, LegActive, SetLeg, RoutePdfLeg, OnlyLegs, SlotTypes
<1>23. ASSUME NEW c \in Calls, NEW i \in DOMAIN legs[c], AcquireLease(c, i) PROVE SlotTypes'
  BY <1>23, TypeGroups DEF AcquireLease, LegActive, SetLeg, OnlyLegs, SlotTypes
<1>24. ASSUME NEW c \in Calls, NEW i \in DOMAIN legs[c], CvNotRun(c, i) PROVE SlotTypes'
  BY <1>24, TypeGroups DEF CvNotRun, LegActive, SetLeg, OnlyLegs, SlotTypes
<1>25. ASSUME NEW c \in Calls, NEW i \in DOMAIN legs[c], BuildEngine(c, i) PROVE SlotTypes'
  BY <1>25, TypeGroups DEF BuildEngine, LegActive, SetLeg, ReleaseLease, OnlyLegs, SlotTypes
<1>26. ASSUME NEW c \in Calls, NEW i \in DOMAIN legs[c], Recognized(c, i) PROVE SlotTypes'
  BY <1>26, TypeGroups DEF Recognized, LegActive, SetLeg, ReleaseLease, OnlyLegs, SlotTypes
<1>27. ASSUME NEW w \in Workers, WorkerWait(w) PROVE SlotTypes'
  BY <1>27, TypeGroups DEF WorkerWait, Free, SlotTypes
<1>28. ASSUME NEW w \in Workers, WorkerTake(w) PROVE SlotTypes'
  BY <1>28, TypeGroups DEF WorkerTake, Free, Go, SlotTypes
<1>29. ASSUME NEW w \in Workers, WorkerDone(w) PROVE SlotTypes'
  BY <1>29, TypeGroups DEF WorkerDone, TakenBack, Streamed, SlotTypes
<1>30. CASE Stop
  BY <1>30, TypeGroups DEF Stop, SlotTypes
<1>31. CASE UNCHANGED vars
  BY <1>31, TypeGroups DEF vars, SlotTypes
<1> QED BY StepCases, <1>1, <1>2, <1>3, <1>4, <1>5, <1>6, <1>7, <1>8, <1>9, <1>10, <1>11, <1>12,
    <1>13, <1>14, <1>15, <1>16, <1>17, <1>18, <1>19, <1>20, <1>21, <1>22, <1>23, <1>24, <1>25,
    <1>26, <1>27, <1>28, <1>29, <1>30, <1>31

\* Calls keep their places.
LEMMA PlaceTypesStep ==
  ASSUME CallTypes, [Next]_vars
  PROVE  PlaceTypes'
<1>1. ASSUME NEW c \in Calls, NEW r \in Requests, Call(c, r) PROVE PlaceTypes'
  BY <1>1, TypeGroups DEF Call, Go, PCs, PlaceTypes
<1>2. ASSUME NEW c \in Calls, NEW r \in Requests, CallRefused(c, r) PROVE PlaceTypes'
  BY <1>2, TypeGroups DEF CallRefused, Finish, Record, Go, PCs, PlaceTypes
<1>3. ASSUME NEW c \in Calls, Cancel(c) PROVE PlaceTypes'
  BY <1>3, TypeGroups DEF Cancel, PCs, PlaceTypes
<1>4. ASSUME NEW c \in Calls, AdmitLoad(c) PROVE PlaceTypes'
  BY <1>4, TypeGroups DEF AdmitLoad, Go, PCs, PlaceTypes
<1>5. ASSUME NEW c \in Calls, AdmitCas(c) PROVE PlaceTypes'
  BY <1>5, TypeGroups DEF AdmitCas, CompareExchange, Fits, Finish, Record, Go, PCs, PlaceTypes
<1>6. ASSUME NEW c \in Calls, Submit(c) PROVE PlaceTypes'
  BY <1>6, TypeGroups DEF Submit, TakenBack, Streamed, Finish, Record, Go, PCs, PlaceTypes
<1>7. ASSUME NEW c \in Calls, Dequeued(c) PROVE PlaceTypes'
  BY <1>7, TypeGroups DEF Dequeued, OptionsRefused, Return, Finish, Record, Go, PCs, PlaceTypes
<1>8. ASSUME NEW c \in Calls, AcquireSlot(c) PROVE PlaceTypes'
  BY <1>8, TypeGroups DEF AcquireSlot, Return, Go, PCs, PlaceTypes
<1>9. ASSUME NEW c \in Calls, Fetch(c) PROVE PlaceTypes'
  BY <1>9, TypeGroups DEF Fetch, ReleaseSlot, Return, Go, PCs, PlaceTypes
<1>10. ASSUME NEW c \in Calls, ChargeLoad(c) PROVE PlaceTypes'
  BY <1>10, TypeGroups DEF ChargeLoad, Go, PCs, PlaceTypes
<1>11. ASSUME NEW c \in Calls, ChargeCas(c) PROVE PlaceTypes'
  BY <1>11, TypeGroups DEF ChargeCas, CompareExchange, Fits, ReleaseSlot, Return, Go, PCs,
     PlaceTypes
<1>12. ASSUME NEW c \in Calls, Decode(c) PROVE PlaceTypes'
  BY <1>12, TypeGroups DEF Decode, Return, Go, PCs, PlaceTypes
<1>13. ASSUME NEW c \in Calls, Gather(c) PROVE PlaceTypes'
  BY <1>13, TypeGroups DEF Gather, Return, Go, PCs, PlaceTypes
<1>14. ASSUME NEW c \in Calls, Finalize(c) PROVE PlaceTypes'
  BY <1>14, TypeGroups DEF Finalize, Return, Go, PCs, PlaceTypes
<1>15. ASSUME NEW c \in Calls, Shape(c) PROVE PlaceTypes'
  BY <1>15, TypeGroups DEF Shape, Return, Go, PCs, PlaceTypes
<1>16. ASSUME NEW c \in Calls, AcquireEngine(c) PROVE PlaceTypes'
  BY <1>16, TypeGroups DEF AcquireEngine, Return, Go, PCs, PlaceTypes
<1>17. ASSUME NEW c \in Calls, Infer(c) PROVE PlaceTypes'
  BY <1>17, TypeGroups DEF Infer, Return, Go, PCs, PlaceTypes
<1>18. ASSUME NEW c \in Calls, Returned(c) PROVE PlaceTypes'
  BY <1>18, TypeGroups DEF Returned, Streamed, Record, Completion, DropParse, Go, PCs, PlaceTypes
<1>19. ASSUME NEW c \in Calls, WriteDone(c) PROVE PlaceTypes'
  BY <1>19, TypeGroups DEF WriteDone, Finish, Go, PCs, PlaceTypes
<1>20. ASSUME NEW c \in Calls, OnDone(c) PROVE PlaceTypes'
  BY <1>20, TypeGroups DEF OnDone, Streamed, Go, PCs, PlaceTypes
<1>21. ASSUME NEW c \in Calls, NEW i \in DOMAIN legs[c], LegStart(c, i) PROVE PlaceTypes'
  BY <1>21, TypeGroups DEF LegStart, LegActive, SetLeg, OnlyLegs, PCs, PlaceTypes
<1>22. ASSUME NEW c \in Calls, NEW i \in DOMAIN legs[c], LegAnswer(c, i) PROVE PlaceTypes'
  BY <1>22, TypeGroups DEF LegAnswer, LegActive, SetLeg, RoutePdfLeg, OnlyLegs, PCs, PlaceTypes
<1>23. ASSUME NEW c \in Calls, NEW i \in DOMAIN legs[c], AcquireLease(c, i) PROVE PlaceTypes'
  BY <1>23, TypeGroups DEF AcquireLease, LegActive, SetLeg, OnlyLegs, PCs, PlaceTypes
<1>24. ASSUME NEW c \in Calls, NEW i \in DOMAIN legs[c], CvNotRun(c, i) PROVE PlaceTypes'
  BY <1>24, TypeGroups DEF CvNotRun, LegActive, SetLeg, OnlyLegs, PCs, PlaceTypes
<1>25. ASSUME NEW c \in Calls, NEW i \in DOMAIN legs[c], BuildEngine(c, i) PROVE PlaceTypes'
  BY <1>25, TypeGroups DEF BuildEngine, LegActive, SetLeg, ReleaseLease, OnlyLegs, PCs, PlaceTypes
<1>26. ASSUME NEW c \in Calls, NEW i \in DOMAIN legs[c], Recognized(c, i) PROVE PlaceTypes'
  BY <1>26, TypeGroups DEF Recognized, LegActive, SetLeg, ReleaseLease, OnlyLegs, PCs, PlaceTypes
<1>27. ASSUME NEW w \in Workers, WorkerWait(w) PROVE PlaceTypes'
  BY <1>27, TypeGroups DEF WorkerWait, Free, PCs, PlaceTypes
<1>28. ASSUME NEW w \in Workers, WorkerTake(w) PROVE PlaceTypes'
  BY <1>28, TypeGroups DEF WorkerTake, Free, Go, PCs, PlaceTypes
<1>29. ASSUME NEW w \in Workers, WorkerDone(w) PROVE PlaceTypes'
  BY <1>29, TypeGroups DEF WorkerDone, TakenBack, Streamed, PCs, PlaceTypes
<1>30. CASE Stop
  BY <1>30, TypeGroups DEF Stop, PCs, PlaceTypes
<1>31. CASE UNCHANGED vars
  BY <1>31, TypeGroups DEF vars, PlaceTypes
<1> QED BY StepCases, <1>1, <1>2, <1>3, <1>4, <1>5, <1>6, <1>7, <1>8, <1>9, <1>10, <1>11, <1>12,
    <1>13, <1>14, <1>15, <1>16, <1>17, <1>18, <1>19, <1>20, <1>21, <1>22, <1>23, <1>24, <1>25,
    <1>26, <1>27, <1>28, <1>29, <1>30, <1>31

\* Legs keep their states.
LEMMA LegTypesStep ==
  ASSUME CallTypes, [Next]_vars
  PROVE  LegTypesOK'
<1>1. ASSUME NEW c \in Calls, NEW r \in Requests, Call(c, r) PROVE LegTypesOK'
  BY <1>1, TypeGroups DEF Call, Go, LegStates, Codes, LegTypesOK
<1>2. ASSUME NEW c \in Calls, NEW r \in Requests, CallRefused(c, r) PROVE LegTypesOK'
  BY <1>2, TypeGroups DEF CallRefused, Finish, Record, Go, LegStates, Codes, LegTypesOK
<1>3. ASSUME NEW c \in Calls, Cancel(c) PROVE LegTypesOK'
  BY <1>3, TypeGroups DEF Cancel, LegStates, Codes, LegTypesOK
<1>4. ASSUME NEW c \in Calls, AdmitLoad(c) PROVE LegTypesOK'
  BY <1>4, TypeGroups DEF AdmitLoad, Go, LegStates, Codes, LegTypesOK
<1>5. ASSUME NEW c \in Calls, AdmitCas(c) PROVE LegTypesOK'
  BY <1>5, TypeGroups DEF AdmitCas, CompareExchange, Fits, Finish, Record, Go, LegStates, Codes,
     LegTypesOK
<1>6. ASSUME NEW c \in Calls, Submit(c) PROVE LegTypesOK'
  BY <1>6, TypeGroups DEF Submit, TakenBack, Streamed, Finish, Record, Go, LegStates, Codes,
     LegTypesOK
<1>7. ASSUME NEW c \in Calls, Dequeued(c) PROVE LegTypesOK'
  BY <1>7, TypeGroups DEF Dequeued, OptionsRefused, Return, Finish, Record, Go, LegStates, Codes,
     LegTypesOK
<1>8. ASSUME NEW c \in Calls, AcquireSlot(c) PROVE LegTypesOK'
  BY <1>8, TypeGroups DEF AcquireSlot, Return, Go, LegStates, Codes, LegTypesOK
<1>9. ASSUME NEW c \in Calls, Fetch(c) PROVE LegTypesOK'
  BY <1>9, TypeGroups DEF Fetch, ReleaseSlot, Return, Go, LegStates, Codes, LegTypesOK
<1>10. ASSUME NEW c \in Calls, ChargeLoad(c) PROVE LegTypesOK'
  BY <1>10, TypeGroups DEF ChargeLoad, Go, LegStates, Codes, LegTypesOK
<1>11. ASSUME NEW c \in Calls, ChargeCas(c) PROVE LegTypesOK'
  BY <1>11, TypeGroups DEF ChargeCas, CompareExchange, Fits, ReleaseSlot, Return, Go, LegStates,
     Codes, LegTypesOK
<1>12. ASSUME NEW c \in Calls, Decode(c) PROVE LegTypesOK'
  BY <1>12, TypeGroups DEF Decode, Return, Go, LegStates, Codes, LegTypesOK
<1>13. ASSUME NEW c \in Calls, Gather(c) PROVE LegTypesOK'
  BY <1>13, TypeGroups DEF Gather, Return, Go, LegStates, Codes, LegTypesOK
<1>14. ASSUME NEW c \in Calls, Finalize(c) PROVE LegTypesOK'
  BY <1>14, TypeGroups DEF Finalize, Return, Go, LegStates, Codes, LegTypesOK
<1>15. ASSUME NEW c \in Calls, Shape(c) PROVE LegTypesOK'
  BY <1>15, TypeGroups DEF Shape, Return, Go, LegStates, Codes, LegTypesOK
<1>16. ASSUME NEW c \in Calls, AcquireEngine(c) PROVE LegTypesOK'
  BY <1>16, TypeGroups DEF AcquireEngine, Return, Go, LegStates, Codes, LegTypesOK
<1>17. ASSUME NEW c \in Calls, Infer(c) PROVE LegTypesOK'
  BY <1>17, TypeGroups DEF Infer, Return, Go, LegStates, Codes, LegTypesOK
<1>18. ASSUME NEW c \in Calls, Returned(c) PROVE LegTypesOK'
  BY <1>18, TypeGroups DEF Returned, Streamed, Record, Completion, DropParse, Go, LegStates,
     Codes, LegTypesOK
<1>19. ASSUME NEW c \in Calls, WriteDone(c) PROVE LegTypesOK'
  BY <1>19, TypeGroups DEF WriteDone, Finish, Go, LegStates, Codes, LegTypesOK
<1>20. ASSUME NEW c \in Calls, OnDone(c) PROVE LegTypesOK'
  BY <1>20, TypeGroups DEF OnDone, Streamed, Go, LegStates, Codes, LegTypesOK
<1>21. ASSUME NEW c \in Calls, NEW i \in DOMAIN legs[c], LegStart(c, i) PROVE LegTypesOK'
  BY <1>21, TypeGroups DEF LegStart, LegActive, SetLeg, OnlyLegs, LegStates, Codes, LegTypesOK
<1>22. ASSUME NEW c \in Calls, NEW i \in DOMAIN legs[c], LegAnswer(c, i) PROVE LegTypesOK'
  BY <1>22, TypeGroups DEF LegAnswer, LegActive, SetLeg, RoutePdfLeg, OnlyLegs, LegStates, Codes,
     LegTypesOK
<1>23. ASSUME NEW c \in Calls, NEW i \in DOMAIN legs[c], AcquireLease(c, i) PROVE LegTypesOK'
  BY <1>23, TypeGroups DEF AcquireLease, LegActive, SetLeg, OnlyLegs, LegStates, Codes, LegTypesOK
<1>24. ASSUME NEW c \in Calls, NEW i \in DOMAIN legs[c], CvNotRun(c, i) PROVE LegTypesOK'
  BY <1>24, TypeGroups DEF CvNotRun, LegActive, SetLeg, OnlyLegs, LegStates, Codes, LegTypesOK
<1>25. ASSUME NEW c \in Calls, NEW i \in DOMAIN legs[c], BuildEngine(c, i) PROVE LegTypesOK'
  BY <1>25, TypeGroups DEF BuildEngine, LegActive, SetLeg, ReleaseLease, OnlyLegs, LegStates,
     Codes, LegTypesOK
<1>26. ASSUME NEW c \in Calls, NEW i \in DOMAIN legs[c], Recognized(c, i) PROVE LegTypesOK'
  BY <1>26, TypeGroups DEF Recognized, LegActive, SetLeg, ReleaseLease, OnlyLegs, LegStates,
     Codes, LegTypesOK
<1>27. ASSUME NEW w \in Workers, WorkerWait(w) PROVE LegTypesOK'
  BY <1>27, TypeGroups DEF WorkerWait, Free, LegStates, Codes, LegTypesOK
<1>28. ASSUME NEW w \in Workers, WorkerTake(w) PROVE LegTypesOK'
  BY <1>28, TypeGroups DEF WorkerTake, Free, Go, LegStates, Codes, LegTypesOK
<1>29. ASSUME NEW w \in Workers, WorkerDone(w) PROVE LegTypesOK'
  BY <1>29, TypeGroups DEF WorkerDone, TakenBack, Streamed, LegStates, Codes, LegTypesOK
<1>30. CASE Stop
  BY <1>30, TypeGroups DEF Stop, LegStates, Codes, LegTypesOK
<1>31. CASE UNCHANGED vars
  BY <1>31, TypeGroups DEF vars, LegTypesOK
<1> QED BY StepCases, <1>1, <1>2, <1>3, <1>4, <1>5, <1>6, <1>7, <1>8, <1>9, <1>10, <1>11, <1>12,
    <1>13, <1>14, <1>15, <1>16, <1>17, <1>18, <1>19, <1>20, <1>21, <1>22, <1>23, <1>24, <1>25,
    <1>26, <1>27, <1>28, <1>29, <1>30, <1>31

\* What was parsed keeps its types.
LEMMA ParseTypesStep ==
  ASSUME CallTypes, [Next]_vars
  PROVE  ParseTypes'
<1>1. ASSUME NEW c \in Calls, NEW r \in Requests, Call(c, r) PROVE ParseTypes'
  BY <1>1, TypeGroups DEF Call, Go, ParseTypes
<1>2. ASSUME NEW c \in Calls, NEW r \in Requests, CallRefused(c, r) PROVE ParseTypes'
  BY <1>2, TypeGroups DEF CallRefused, Finish, Record, Go, ParseTypes
<1>3. ASSUME NEW c \in Calls, Cancel(c) PROVE ParseTypes'
  BY <1>3, TypeGroups DEF Cancel, ParseTypes
<1>4. ASSUME NEW c \in Calls, AdmitLoad(c) PROVE ParseTypes'
  BY <1>4, TypeGroups DEF AdmitLoad, Go, ParseTypes
<1>5. ASSUME NEW c \in Calls, AdmitCas(c) PROVE ParseTypes'
  BY <1>5, TypeGroups DEF AdmitCas, CompareExchange, Fits, Finish, Record, Go, ParseTypes
<1>6. ASSUME NEW c \in Calls, Submit(c) PROVE ParseTypes'
  BY <1>6, TypeGroups DEF Submit, TakenBack, Streamed, Finish, Record, Go, ParseTypes
<1>7. ASSUME NEW c \in Calls, Dequeued(c) PROVE ParseTypes'
  BY <1>7, TypeGroups DEF Dequeued, OptionsRefused, Return, Finish, Record, Go, ParseTypes
<1>8. ASSUME NEW c \in Calls, AcquireSlot(c) PROVE ParseTypes'
  BY <1>8, TypeGroups DEF AcquireSlot, Return, Go, ParseTypes
<1>9. ASSUME NEW c \in Calls, Fetch(c) PROVE ParseTypes'
  BY <1>9, TypeGroups DEF Fetch, ReleaseSlot, Return, Go, ParseTypes
<1>10. ASSUME NEW c \in Calls, ChargeLoad(c) PROVE ParseTypes'
  BY <1>10, TypeGroups DEF ChargeLoad, Go, ParseTypes
<1>11. ASSUME NEW c \in Calls, ChargeCas(c) PROVE ParseTypes'
  BY <1>11, TypeGroups DEF ChargeCas, CompareExchange, Fits, ReleaseSlot, Return, Go, ParseTypes
<1>12. ASSUME NEW c \in Calls, Decode(c) PROVE ParseTypes'
  BY <1>12, TypeGroups DEF Decode, Return, Go, ParseTypes
<1>13. ASSUME NEW c \in Calls, Gather(c) PROVE ParseTypes'
  BY <1>13, TypeGroups DEF Gather, Return, Go, ParseTypes
<1>14. ASSUME NEW c \in Calls, Finalize(c) PROVE ParseTypes'
  BY <1>14, TypeGroups DEF Finalize, Return, Go, ParseTypes
<1>15. ASSUME NEW c \in Calls, Shape(c) PROVE ParseTypes'
  BY <1>15, TypeGroups DEF Shape, Return, Go, ParseTypes
<1>16. ASSUME NEW c \in Calls, AcquireEngine(c) PROVE ParseTypes'
  BY <1>16, TypeGroups DEF AcquireEngine, Return, Go, ParseTypes
<1>17. ASSUME NEW c \in Calls, Infer(c) PROVE ParseTypes'
  BY <1>17, TypeGroups DEF Infer, Return, Go, ParseTypes
<1>18. ASSUME NEW c \in Calls, Returned(c) PROVE ParseTypes'
  BY <1>18, TypeGroups DEF Returned, Streamed, Record, Completion, DropParse, Go, ParseTypes
<1>19. ASSUME NEW c \in Calls, WriteDone(c) PROVE ParseTypes'
  BY <1>19, TypeGroups DEF WriteDone, Finish, Go, ParseTypes
<1>20. ASSUME NEW c \in Calls, OnDone(c) PROVE ParseTypes'
  BY <1>20, TypeGroups DEF OnDone, Streamed, Go, ParseTypes
<1>21. ASSUME NEW c \in Calls, NEW i \in DOMAIN legs[c], LegStart(c, i) PROVE ParseTypes'
  BY <1>21, TypeGroups DEF LegStart, LegActive, SetLeg, OnlyLegs, ParseTypes
<1>22. ASSUME NEW c \in Calls, NEW i \in DOMAIN legs[c], LegAnswer(c, i) PROVE ParseTypes'
  BY <1>22, TypeGroups DEF LegAnswer, LegActive, SetLeg, RoutePdfLeg, OnlyLegs, ParseTypes
<1>23. ASSUME NEW c \in Calls, NEW i \in DOMAIN legs[c], AcquireLease(c, i) PROVE ParseTypes'
  BY <1>23, TypeGroups DEF AcquireLease, LegActive, SetLeg, OnlyLegs, ParseTypes
<1>24. ASSUME NEW c \in Calls, NEW i \in DOMAIN legs[c], CvNotRun(c, i) PROVE ParseTypes'
  BY <1>24, TypeGroups DEF CvNotRun, LegActive, SetLeg, OnlyLegs, ParseTypes
<1>25. ASSUME NEW c \in Calls, NEW i \in DOMAIN legs[c], BuildEngine(c, i) PROVE ParseTypes'
  BY <1>25, TypeGroups DEF BuildEngine, LegActive, SetLeg, ReleaseLease, OnlyLegs, ParseTypes
<1>26. ASSUME NEW c \in Calls, NEW i \in DOMAIN legs[c], Recognized(c, i) PROVE ParseTypes'
  BY <1>26, TypeGroups DEF Recognized, LegActive, SetLeg, ReleaseLease, OnlyLegs, ParseTypes
<1>27. ASSUME NEW w \in Workers, WorkerWait(w) PROVE ParseTypes'
  BY <1>27, TypeGroups DEF WorkerWait, Free, ParseTypes
<1>28. ASSUME NEW w \in Workers, WorkerTake(w) PROVE ParseTypes'
  BY <1>28, TypeGroups DEF WorkerTake, Free, Go, ParseTypes
<1>29. ASSUME NEW w \in Workers, WorkerDone(w) PROVE ParseTypes'
  BY <1>29, TypeGroups DEF WorkerDone, TakenBack, Streamed, ParseTypes
<1>30. CASE Stop
  BY <1>30, TypeGroups DEF Stop, ParseTypes
<1>31. CASE UNCHANGED vars
  BY <1>31, TypeGroups DEF vars, ParseTypes
<1> QED BY StepCases, <1>1, <1>2, <1>3, <1>4, <1>5, <1>6, <1>7, <1>8, <1>9, <1>10, <1>11, <1>12,
    <1>13, <1>14, <1>15, <1>16, <1>17, <1>18, <1>19, <1>20, <1>21, <1>22, <1>23, <1>24, <1>25,
    <1>26, <1>27, <1>28, <1>29, <1>30, <1>31

\* Statuses keep their type.
LEMMA StatusTypeStep ==
  ASSUME CallTypes, \A c \in Calls : LegsKept(c), [Next]_vars
  PROVE  StatusType'
<1>1. ASSUME NEW c \in Calls, NEW r \in Requests, Call(c, r) PROVE StatusType'
  BY <1>1, TypeGroups DEF Call, Go, Codes, StatusType
<1>2. ASSUME NEW c \in Calls, NEW r \in Requests, CallRefused(c, r) PROVE StatusType'
  BY <1>2, TypeGroups DEF CallRefused, Finish, Record, Go, Codes, StatusType
<1>3. ASSUME NEW c \in Calls, Cancel(c) PROVE StatusType'
  BY <1>3, TypeGroups DEF Cancel, Codes, StatusType
<1>4. ASSUME NEW c \in Calls, AdmitLoad(c) PROVE StatusType'
  BY <1>4, TypeGroups DEF AdmitLoad, Go, Codes, StatusType
<1>5. ASSUME NEW c \in Calls, AdmitCas(c) PROVE StatusType'
  BY <1>5, TypeGroups DEF AdmitCas, CompareExchange, Fits, Finish, Record, Go, Codes, StatusType
<1>6. ASSUME NEW c \in Calls, Submit(c) PROVE StatusType'
  BY <1>6, TypeGroups DEF Submit, TakenBack, Streamed, Finish, Record, Go, Codes, StatusType
<1>7. ASSUME NEW c \in Calls, Dequeued(c) PROVE StatusType'
  BY <1>7, TypeGroups DEF Dequeued, OptionsRefused, Return, Finish, Record, Go, Codes, StatusType
<1>8. ASSUME NEW c \in Calls, AcquireSlot(c) PROVE StatusType'
  BY <1>8, TypeGroups DEF AcquireSlot, Return, Go, Codes, StatusType
<1>9. ASSUME NEW c \in Calls, Fetch(c) PROVE StatusType'
  BY <1>9, TypeGroups DEF Fetch, ReleaseSlot, Return, Go, Codes, StatusType
<1>10. ASSUME NEW c \in Calls, ChargeLoad(c) PROVE StatusType'
  BY <1>10, TypeGroups DEF ChargeLoad, Go, Codes, StatusType
<1>11. ASSUME NEW c \in Calls, ChargeCas(c) PROVE StatusType'
  BY <1>11, TypeGroups DEF ChargeCas, CompareExchange, Fits, ReleaseSlot, Return, Go, Codes,
     StatusType
<1>12. ASSUME NEW c \in Calls, Decode(c) PROVE StatusType'
  BY <1>12, TypeGroups DEF Decode, Return, Go, Codes, StatusType
<1>13. ASSUME NEW c \in Calls, Gather(c) PROVE StatusType'
  <2>1. pc[c] = "legs" /\ \A i \in DOMAIN legs[c] : legs[c][i] \in Codes \cup {"ok", "ok_cv"}
    BY <1>13 DEF Gather
  <2>2. PICK i \in DOMAIN legs[c] : FirstFailure(c) = legs[c][i] BY <2>1, FirstFailureFails
  <2>3. Succeeded(c) = {} => FirstFailure(c) \in Codes BY <2>1, <2>2 DEF Succeeded, LegOk
  <2>4. status' = status \/ \E code \in Codes : status' = [status EXCEPT ![c] = code]
    BY <1>13, <2>3 DEF Gather, Return, Codes
  <2> QED BY <2>4, TypeGroups DEF StatusType
<1>14. ASSUME NEW c \in Calls, Finalize(c) PROVE StatusType'
  BY <1>14, TypeGroups DEF Finalize, Return, Go, Codes, StatusType
<1>15. ASSUME NEW c \in Calls, Shape(c) PROVE StatusType'
  BY <1>15, TypeGroups DEF Shape, Return, Go, Codes, StatusType
<1>16. ASSUME NEW c \in Calls, AcquireEngine(c) PROVE StatusType'
  BY <1>16, TypeGroups DEF AcquireEngine, Return, Go, Codes, StatusType
<1>17. ASSUME NEW c \in Calls, Infer(c) PROVE StatusType'
  BY <1>17, TypeGroups DEF Infer, Return, Go, Codes, StatusType
<1>18. ASSUME NEW c \in Calls, Returned(c) PROVE StatusType'
  BY <1>18, TypeGroups DEF Returned, Streamed, Record, Completion, DropParse, Go, Codes,
     StatusType
<1>19. ASSUME NEW c \in Calls, WriteDone(c) PROVE StatusType'
  BY <1>19, TypeGroups DEF WriteDone, Finish, Go, Codes, StatusType
<1>20. ASSUME NEW c \in Calls, OnDone(c) PROVE StatusType'
  BY <1>20, TypeGroups DEF OnDone, Streamed, Go, Codes, StatusType
<1>21. ASSUME NEW c \in Calls, NEW i \in DOMAIN legs[c], LegStart(c, i) PROVE StatusType'
  BY <1>21, TypeGroups DEF LegStart, LegActive, SetLeg, OnlyLegs, Codes, StatusType
<1>22. ASSUME NEW c \in Calls, NEW i \in DOMAIN legs[c], LegAnswer(c, i) PROVE StatusType'
  BY <1>22, TypeGroups DEF LegAnswer, LegActive, SetLeg, RoutePdfLeg, OnlyLegs, Codes, StatusType
<1>23. ASSUME NEW c \in Calls, NEW i \in DOMAIN legs[c], AcquireLease(c, i) PROVE StatusType'
  BY <1>23, TypeGroups DEF AcquireLease, LegActive, SetLeg, OnlyLegs, Codes, StatusType
<1>24. ASSUME NEW c \in Calls, NEW i \in DOMAIN legs[c], CvNotRun(c, i) PROVE StatusType'
  BY <1>24, TypeGroups DEF CvNotRun, LegActive, SetLeg, OnlyLegs, Codes, StatusType
<1>25. ASSUME NEW c \in Calls, NEW i \in DOMAIN legs[c], BuildEngine(c, i) PROVE StatusType'
  BY <1>25, TypeGroups DEF BuildEngine, LegActive, SetLeg, ReleaseLease, OnlyLegs, Codes,
     StatusType
<1>26. ASSUME NEW c \in Calls, NEW i \in DOMAIN legs[c], Recognized(c, i) PROVE StatusType'
  BY <1>26, TypeGroups DEF Recognized, LegActive, SetLeg, ReleaseLease, OnlyLegs, Codes,
     StatusType
<1>27. ASSUME NEW w \in Workers, WorkerWait(w) PROVE StatusType'
  BY <1>27, TypeGroups DEF WorkerWait, Free, Codes, StatusType
<1>28. ASSUME NEW w \in Workers, WorkerTake(w) PROVE StatusType'
  BY <1>28, TypeGroups DEF WorkerTake, Free, Go, Codes, StatusType
<1>29. ASSUME NEW w \in Workers, WorkerDone(w) PROVE StatusType'
  BY <1>29, TypeGroups DEF WorkerDone, TakenBack, Streamed, Codes, StatusType
<1>30. CASE Stop
  BY <1>30, TypeGroups DEF Stop, Codes, StatusType
<1>31. CASE UNCHANGED vars
  BY <1>31, TypeGroups DEF vars, StatusType
<1> QED BY StepCases, <1>1, <1>2, <1>3, <1>4, <1>5, <1>6, <1>7, <1>8, <1>9, <1>10, <1>11, <1>12,
    <1>13, <1>14, <1>15, <1>16, <1>17, <1>18, <1>19, <1>20, <1>21, <1>22, <1>23, <1>24, <1>25,
    <1>26, <1>27, <1>28, <1>29, <1>30, <1>31

\* Completions are recorded by call.
LEMMA RecordedTypeStep ==
  ASSUME CallTypes, [Next]_vars
  PROVE  RecordedType'
<1>1. ASSUME NEW c \in Calls, NEW r \in Requests, Call(c, r) PROVE RecordedType'
  BY <1>1, TypeGroups DEF Call, Go, RecordedType
<1>2. ASSUME NEW c \in Calls, NEW r \in Requests, CallRefused(c, r) PROVE RecordedType'
  BY <1>2, TypeGroups DEF CallRefused, Finish, Record, Go, RecordedType
<1>3. ASSUME NEW c \in Calls, Cancel(c) PROVE RecordedType'
  BY <1>3, TypeGroups DEF Cancel, RecordedType
<1>4. ASSUME NEW c \in Calls, AdmitLoad(c) PROVE RecordedType'
  BY <1>4, TypeGroups DEF AdmitLoad, Go, RecordedType
<1>5. ASSUME NEW c \in Calls, AdmitCas(c) PROVE RecordedType'
  BY <1>5, TypeGroups DEF AdmitCas, CompareExchange, Fits, Finish, Record, Go, RecordedType
<1>6. ASSUME NEW c \in Calls, Submit(c) PROVE RecordedType'
  BY <1>6, TypeGroups DEF Submit, TakenBack, Streamed, Finish, Record, Go, RecordedType
<1>7. ASSUME NEW c \in Calls, Dequeued(c) PROVE RecordedType'
  BY <1>7, TypeGroups DEF Dequeued, OptionsRefused, Return, Finish, Record, Go, RecordedType
<1>8. ASSUME NEW c \in Calls, AcquireSlot(c) PROVE RecordedType'
  BY <1>8, TypeGroups DEF AcquireSlot, Return, Go, RecordedType
<1>9. ASSUME NEW c \in Calls, Fetch(c) PROVE RecordedType'
  BY <1>9, TypeGroups DEF Fetch, ReleaseSlot, Return, Go, RecordedType
<1>10. ASSUME NEW c \in Calls, ChargeLoad(c) PROVE RecordedType'
  BY <1>10, TypeGroups DEF ChargeLoad, Go, RecordedType
<1>11. ASSUME NEW c \in Calls, ChargeCas(c) PROVE RecordedType'
  BY <1>11, TypeGroups DEF ChargeCas, CompareExchange, Fits, ReleaseSlot, Return, Go, RecordedType
<1>12. ASSUME NEW c \in Calls, Decode(c) PROVE RecordedType'
  BY <1>12, TypeGroups DEF Decode, Return, Go, RecordedType
<1>13. ASSUME NEW c \in Calls, Gather(c) PROVE RecordedType'
  BY <1>13, TypeGroups DEF Gather, Return, Go, RecordedType
<1>14. ASSUME NEW c \in Calls, Finalize(c) PROVE RecordedType'
  BY <1>14, TypeGroups DEF Finalize, Return, Go, RecordedType
<1>15. ASSUME NEW c \in Calls, Shape(c) PROVE RecordedType'
  BY <1>15, TypeGroups DEF Shape, Return, Go, RecordedType
<1>16. ASSUME NEW c \in Calls, AcquireEngine(c) PROVE RecordedType'
  BY <1>16, TypeGroups DEF AcquireEngine, Return, Go, RecordedType
<1>17. ASSUME NEW c \in Calls, Infer(c) PROVE RecordedType'
  BY <1>17, TypeGroups DEF Infer, Return, Go, RecordedType
<1>18. ASSUME NEW c \in Calls, Returned(c) PROVE RecordedType'
  BY <1>18, TypeGroups DEF Returned, Streamed, Record, Completion, DropParse, Go, RecordedType
<1>19. ASSUME NEW c \in Calls, WriteDone(c) PROVE RecordedType'
  BY <1>19, TypeGroups DEF WriteDone, Finish, Go, RecordedType
<1>20. ASSUME NEW c \in Calls, OnDone(c) PROVE RecordedType'
  BY <1>20, TypeGroups DEF OnDone, Streamed, Go, RecordedType
<1>21. ASSUME NEW c \in Calls, NEW i \in DOMAIN legs[c], LegStart(c, i) PROVE RecordedType'
  BY <1>21, TypeGroups DEF LegStart, LegActive, SetLeg, OnlyLegs, RecordedType
<1>22. ASSUME NEW c \in Calls, NEW i \in DOMAIN legs[c], LegAnswer(c, i) PROVE RecordedType'
  BY <1>22, TypeGroups DEF LegAnswer, LegActive, SetLeg, RoutePdfLeg, OnlyLegs, RecordedType
<1>23. ASSUME NEW c \in Calls, NEW i \in DOMAIN legs[c], AcquireLease(c, i) PROVE RecordedType'
  BY <1>23, TypeGroups DEF AcquireLease, LegActive, SetLeg, OnlyLegs, RecordedType
<1>24. ASSUME NEW c \in Calls, NEW i \in DOMAIN legs[c], CvNotRun(c, i) PROVE RecordedType'
  BY <1>24, TypeGroups DEF CvNotRun, LegActive, SetLeg, OnlyLegs, RecordedType
<1>25. ASSUME NEW c \in Calls, NEW i \in DOMAIN legs[c], BuildEngine(c, i) PROVE RecordedType'
  BY <1>25, TypeGroups DEF BuildEngine, LegActive, SetLeg, ReleaseLease, OnlyLegs, RecordedType
<1>26. ASSUME NEW c \in Calls, NEW i \in DOMAIN legs[c], Recognized(c, i) PROVE RecordedType'
  BY <1>26, TypeGroups DEF Recognized, LegActive, SetLeg, ReleaseLease, OnlyLegs, RecordedType
<1>27. ASSUME NEW w \in Workers, WorkerWait(w) PROVE RecordedType'
  BY <1>27, TypeGroups DEF WorkerWait, Free, RecordedType
<1>28. ASSUME NEW w \in Workers, WorkerTake(w) PROVE RecordedType'
  BY <1>28, TypeGroups DEF WorkerTake, Free, Go, RecordedType
<1>29. ASSUME NEW w \in Workers, WorkerDone(w) PROVE RecordedType'
  BY <1>29, TypeGroups DEF WorkerDone, TakenBack, Streamed, RecordedType
<1>30. CASE Stop
  BY <1>30, TypeGroups DEF Stop, RecordedType
<1>31. CASE UNCHANGED vars
  BY <1>31, TypeGroups DEF vars, RecordedType
<1> QED BY StepCases, <1>1, <1>2, <1>3, <1>4, <1>5, <1>6, <1>7, <1>8, <1>9, <1>10, <1>11, <1>12,
    <1>13, <1>14, <1>15, <1>16, <1>17, <1>18, <1>19, <1>20, <1>21, <1>22, <1>23, <1>24, <1>25,
    <1>26, <1>27, <1>28, <1>29, <1>30, <1>31

\* Answers are counted in numbers.
LEMMA FinishedTypeStep ==
  ASSUME CallTypes, [Next]_vars
  PROVE  FinishedType'
<1>1. ASSUME NEW c \in Calls, NEW r \in Requests, Call(c, r) PROVE FinishedType'
  BY <1>1, TypeGroups DEF Call, Go, FinishedType
<1>2. ASSUME NEW c \in Calls, NEW r \in Requests, CallRefused(c, r) PROVE FinishedType'
  BY <1>2, TypeGroups DEF CallRefused, Finish, Record, Go, FinishedType
<1>3. ASSUME NEW c \in Calls, Cancel(c) PROVE FinishedType'
  BY <1>3, TypeGroups DEF Cancel, FinishedType
<1>4. ASSUME NEW c \in Calls, AdmitLoad(c) PROVE FinishedType'
  BY <1>4, TypeGroups DEF AdmitLoad, Go, FinishedType
<1>5. ASSUME NEW c \in Calls, AdmitCas(c) PROVE FinishedType'
  BY <1>5, TypeGroups DEF AdmitCas, CompareExchange, Fits, Finish, Record, Go, FinishedType
<1>6. ASSUME NEW c \in Calls, Submit(c) PROVE FinishedType'
  BY <1>6, TypeGroups DEF Submit, TakenBack, Streamed, Finish, Record, Go, FinishedType
<1>7. ASSUME NEW c \in Calls, Dequeued(c) PROVE FinishedType'
  BY <1>7, TypeGroups DEF Dequeued, OptionsRefused, Return, Finish, Record, Go, FinishedType
<1>8. ASSUME NEW c \in Calls, AcquireSlot(c) PROVE FinishedType'
  BY <1>8, TypeGroups DEF AcquireSlot, Return, Go, FinishedType
<1>9. ASSUME NEW c \in Calls, Fetch(c) PROVE FinishedType'
  BY <1>9, TypeGroups DEF Fetch, ReleaseSlot, Return, Go, FinishedType
<1>10. ASSUME NEW c \in Calls, ChargeLoad(c) PROVE FinishedType'
  BY <1>10, TypeGroups DEF ChargeLoad, Go, FinishedType
<1>11. ASSUME NEW c \in Calls, ChargeCas(c) PROVE FinishedType'
  BY <1>11, TypeGroups DEF ChargeCas, CompareExchange, Fits, ReleaseSlot, Return, Go, FinishedType
<1>12. ASSUME NEW c \in Calls, Decode(c) PROVE FinishedType'
  BY <1>12, TypeGroups DEF Decode, Return, Go, FinishedType
<1>13. ASSUME NEW c \in Calls, Gather(c) PROVE FinishedType'
  BY <1>13, TypeGroups DEF Gather, Return, Go, FinishedType
<1>14. ASSUME NEW c \in Calls, Finalize(c) PROVE FinishedType'
  BY <1>14, TypeGroups DEF Finalize, Return, Go, FinishedType
<1>15. ASSUME NEW c \in Calls, Shape(c) PROVE FinishedType'
  BY <1>15, TypeGroups DEF Shape, Return, Go, FinishedType
<1>16. ASSUME NEW c \in Calls, AcquireEngine(c) PROVE FinishedType'
  BY <1>16, TypeGroups DEF AcquireEngine, Return, Go, FinishedType
<1>17. ASSUME NEW c \in Calls, Infer(c) PROVE FinishedType'
  BY <1>17, TypeGroups DEF Infer, Return, Go, FinishedType
<1>18. ASSUME NEW c \in Calls, Returned(c) PROVE FinishedType'
  BY <1>18, TypeGroups DEF Returned, Streamed, Record, Completion, DropParse, Go, FinishedType
<1>19. ASSUME NEW c \in Calls, WriteDone(c) PROVE FinishedType'
  BY <1>19, TypeGroups DEF WriteDone, Finish, Go, FinishedType
<1>20. ASSUME NEW c \in Calls, OnDone(c) PROVE FinishedType'
  BY <1>20, TypeGroups DEF OnDone, Streamed, Go, FinishedType
<1>21. ASSUME NEW c \in Calls, NEW i \in DOMAIN legs[c], LegStart(c, i) PROVE FinishedType'
  BY <1>21, TypeGroups DEF LegStart, LegActive, SetLeg, OnlyLegs, FinishedType
<1>22. ASSUME NEW c \in Calls, NEW i \in DOMAIN legs[c], LegAnswer(c, i) PROVE FinishedType'
  BY <1>22, TypeGroups DEF LegAnswer, LegActive, SetLeg, RoutePdfLeg, OnlyLegs, FinishedType
<1>23. ASSUME NEW c \in Calls, NEW i \in DOMAIN legs[c], AcquireLease(c, i) PROVE FinishedType'
  BY <1>23, TypeGroups DEF AcquireLease, LegActive, SetLeg, OnlyLegs, FinishedType
<1>24. ASSUME NEW c \in Calls, NEW i \in DOMAIN legs[c], CvNotRun(c, i) PROVE FinishedType'
  BY <1>24, TypeGroups DEF CvNotRun, LegActive, SetLeg, OnlyLegs, FinishedType
<1>25. ASSUME NEW c \in Calls, NEW i \in DOMAIN legs[c], BuildEngine(c, i) PROVE FinishedType'
  BY <1>25, TypeGroups DEF BuildEngine, LegActive, SetLeg, ReleaseLease, OnlyLegs, FinishedType
<1>26. ASSUME NEW c \in Calls, NEW i \in DOMAIN legs[c], Recognized(c, i) PROVE FinishedType'
  BY <1>26, TypeGroups DEF Recognized, LegActive, SetLeg, ReleaseLease, OnlyLegs, FinishedType
<1>27. ASSUME NEW w \in Workers, WorkerWait(w) PROVE FinishedType'
  BY <1>27, TypeGroups DEF WorkerWait, Free, FinishedType
<1>28. ASSUME NEW w \in Workers, WorkerTake(w) PROVE FinishedType'
  BY <1>28, TypeGroups DEF WorkerTake, Free, Go, FinishedType
<1>29. ASSUME NEW w \in Workers, WorkerDone(w) PROVE FinishedType'
  BY <1>29, TypeGroups DEF WorkerDone, TakenBack, Streamed, FinishedType
<1>30. CASE Stop
  BY <1>30, TypeGroups DEF Stop, FinishedType
<1>31. CASE UNCHANGED vars
  BY <1>31, TypeGroups DEF vars, FinishedType
<1> QED BY StepCases, <1>1, <1>2, <1>3, <1>4, <1>5, <1>6, <1>7, <1>8, <1>9, <1>10, <1>11, <1>12,
    <1>13, <1>14, <1>15, <1>16, <1>17, <1>18, <1>19, <1>20, <1>21, <1>22, <1>23, <1>24, <1>25,
    <1>26, <1>27, <1>28, <1>29, <1>30, <1>31

\* A stream writes at most its messages.
LEMMA NextTypeStep ==
  ASSUME CallTypes, [Next]_vars
  PROVE  NextType'
<1>1. ASSUME NEW c \in Calls, NEW r \in Requests, Call(c, r) PROVE NextType'
  BY <1>1, TypeGroups DEF Call, Go, NextType
<1>2. ASSUME NEW c \in Calls, NEW r \in Requests, CallRefused(c, r) PROVE NextType'
  BY <1>2, TypeGroups DEF CallRefused, Finish, Record, Go, NextType
<1>3. ASSUME NEW c \in Calls, Cancel(c) PROVE NextType'
  BY <1>3, TypeGroups DEF Cancel, NextType
<1>4. ASSUME NEW c \in Calls, AdmitLoad(c) PROVE NextType'
  BY <1>4, TypeGroups DEF AdmitLoad, Go, NextType
<1>5. ASSUME NEW c \in Calls, AdmitCas(c) PROVE NextType'
  BY <1>5, TypeGroups DEF AdmitCas, CompareExchange, Fits, Finish, Record, Go, NextType
<1>6. ASSUME NEW c \in Calls, Submit(c) PROVE NextType'
  BY <1>6, TypeGroups DEF Submit, TakenBack, Streamed, Finish, Record, Go, NextType
<1>7. ASSUME NEW c \in Calls, Dequeued(c) PROVE NextType'
  BY <1>7, TypeGroups DEF Dequeued, OptionsRefused, Return, Finish, Record, Go, NextType
<1>8. ASSUME NEW c \in Calls, AcquireSlot(c) PROVE NextType'
  BY <1>8, TypeGroups DEF AcquireSlot, Return, Go, NextType
<1>9. ASSUME NEW c \in Calls, Fetch(c) PROVE NextType'
  BY <1>9, TypeGroups DEF Fetch, ReleaseSlot, Return, Go, NextType
<1>10. ASSUME NEW c \in Calls, ChargeLoad(c) PROVE NextType'
  BY <1>10, TypeGroups DEF ChargeLoad, Go, NextType
<1>11. ASSUME NEW c \in Calls, ChargeCas(c) PROVE NextType'
  BY <1>11, TypeGroups DEF ChargeCas, CompareExchange, Fits, ReleaseSlot, Return, Go, NextType
<1>12. ASSUME NEW c \in Calls, Decode(c) PROVE NextType'
  BY <1>12, TypeGroups DEF Decode, Return, Go, NextType
<1>13. ASSUME NEW c \in Calls, Gather(c) PROVE NextType'
  BY <1>13, TypeGroups DEF Gather, Return, Go, NextType
<1>14. ASSUME NEW c \in Calls, Finalize(c) PROVE NextType'
  BY <1>14, TypeGroups DEF Finalize, Return, Go, NextType
<1>15. ASSUME NEW c \in Calls, Shape(c) PROVE NextType'
  BY <1>15, TypeGroups DEF Shape, Return, Go, NextType
<1>16. ASSUME NEW c \in Calls, AcquireEngine(c) PROVE NextType'
  BY <1>16, TypeGroups DEF AcquireEngine, Return, Go, NextType
<1>17. ASSUME NEW c \in Calls, Infer(c) PROVE NextType'
  BY <1>17, TypeGroups DEF Infer, Return, Go, NextType
<1>18. ASSUME NEW c \in Calls, Returned(c) PROVE NextType'
  BY <1>18, TypeGroups DEF Returned, Streamed, Record, Completion, DropParse, Go, NextType
<1>19. ASSUME NEW c \in Calls, WriteDone(c) PROVE NextType'
  BY <1>19, TypeGroups, ParseAssumption DEF WriteDone, Finish, Go, NextType, ParseAssumption
<1>20. ASSUME NEW c \in Calls, OnDone(c) PROVE NextType'
  BY <1>20, TypeGroups, ParseAssumption DEF OnDone, Streamed, Go, NextType, ParseAssumption
<1>21. ASSUME NEW c \in Calls, NEW i \in DOMAIN legs[c], LegStart(c, i) PROVE NextType'
  BY <1>21, TypeGroups DEF LegStart, LegActive, SetLeg, OnlyLegs, NextType
<1>22. ASSUME NEW c \in Calls, NEW i \in DOMAIN legs[c], LegAnswer(c, i) PROVE NextType'
  BY <1>22, TypeGroups DEF LegAnswer, LegActive, SetLeg, RoutePdfLeg, OnlyLegs, NextType
<1>23. ASSUME NEW c \in Calls, NEW i \in DOMAIN legs[c], AcquireLease(c, i) PROVE NextType'
  BY <1>23, TypeGroups DEF AcquireLease, LegActive, SetLeg, OnlyLegs, NextType
<1>24. ASSUME NEW c \in Calls, NEW i \in DOMAIN legs[c], CvNotRun(c, i) PROVE NextType'
  BY <1>24, TypeGroups DEF CvNotRun, LegActive, SetLeg, OnlyLegs, NextType
<1>25. ASSUME NEW c \in Calls, NEW i \in DOMAIN legs[c], BuildEngine(c, i) PROVE NextType'
  BY <1>25, TypeGroups DEF BuildEngine, LegActive, SetLeg, ReleaseLease, OnlyLegs, NextType
<1>26. ASSUME NEW c \in Calls, NEW i \in DOMAIN legs[c], Recognized(c, i) PROVE NextType'
  BY <1>26, TypeGroups DEF Recognized, LegActive, SetLeg, ReleaseLease, OnlyLegs, NextType
<1>27. ASSUME NEW w \in Workers, WorkerWait(w) PROVE NextType'
  BY <1>27, TypeGroups DEF WorkerWait, Free, NextType
<1>28. ASSUME NEW w \in Workers, WorkerTake(w) PROVE NextType'
  BY <1>28, TypeGroups DEF WorkerTake, Free, Go, NextType
<1>29. ASSUME NEW w \in Workers, WorkerDone(w) PROVE NextType'
  BY <1>29, TypeGroups DEF WorkerDone, TakenBack, Streamed, NextType
<1>30. CASE Stop
  BY <1>30, TypeGroups DEF Stop, NextType
<1>31. CASE UNCHANGED vars
  BY <1>31, TypeGroups DEF vars, NextType
<1> QED BY StepCases, <1>1, <1>2, <1>3, <1>4, <1>5, <1>6, <1>7, <1>8, <1>9, <1>10, <1>11, <1>12,
    <1>13, <1>14, <1>15, <1>16, <1>17, <1>18, <1>19, <1>20, <1>21, <1>22, <1>23, <1>24, <1>25,
    <1>26, <1>27, <1>28, <1>29, <1>30, <1>31

\* Every step keeps the types.
LEMMA TypeStep ==
  ASSUME CallTypes, \A c \in Calls : LegsKept(c), [Next]_vars
  PROVE  CallTypes'
<1>1. /\ ExecutorTypes' /\ PoolTypes' /\ BytesTypes' /\ ChargeTypes' /\ InUseType' /\ SlotTypes'
      /\ PlaceTypes' /\ LegTypesOK' /\ ParseTypes' /\ StatusType' /\ RecordedType'
      /\ FinishedType' /\ NextType'
  BY ExecutorTypesStep, PoolTypesStep, BytesTypesStep, ChargeTypesStep, InUseTypeStep,
     SlotTypesStep, PlaceTypesStep, LegTypesStep, ParseTypesStep, StatusTypeStep,
     RecordedTypeStep, FinishedTypeStep, NextTypeStep
<1> QED BY <1>1 DEF CallTypes, TypeOK, ExecutorTypes, PoolTypes, BytesTypes, ChargeTypes, InUseType,
               SlotTypes, PlaceTypes, LegTypesOK, ParseTypes, StatusType, RecordedType,
               FinishedType, NextType

\* What call c holds by where it is: no charge before it is admitted, none for a
\* fetched body before the body is charged, and a slot while it fetches.
ChargesKept(c) ==
  /\ pc[c] \in {"idle", "admit", "admit_cas"} => charge[c] = 0
  /\ pc[c] \in EarlyPCs \ {"decode"} => fetched[c] = 0
  /\ slot[c] <=> pc[c] \in {"fetch", "charge", "charge_cas"}
  /\ body[c] => slot[c]

\* The budget counts what the calls hold.
Charged == {c \in Calls : charge[c] # 0}
Billed == {c \in Calls : fetched[c] # 0}
BudgetKept ==
  /\ used = RequestBytes * Cardinality(Charged) + FetchedBytes * Cardinality(Billed)
  /\ used <= BudgetLimit

\* The slots count the calls that fetch.
Fetching == {c \in Calls : slot[c]}
SlotsKept == in_use = Cardinality(Fetching) /\ in_use <= FetchLimit

\* Every engine is on the free stack or leased, and there are as many places.
Leased == {c \in Calls : lease[c] # 0}
PoolKept ==
  /\ \A p \in 1..PoolSize : \/ \E k \in DOMAIN free_slots : free_slots[k] = p
                            \/ \E c \in Calls : lease[c] = p
  /\ Len(free_slots) + Cardinality(Leased) = PoolSize

\* What the charges' steps need of the types.
LEMMA HeldTypes ==
  ASSUME CallTypes
  PROVE  /\ pc \in [Calls -> PCs] /\ slot \in [Calls -> BOOLEAN] /\ body \in [Calls -> BOOLEAN]
         /\ charge \in [Calls -> {0, RequestBytes}] /\ fetched \in [Calls -> {0, FetchedBytes}]
BY DEF CallTypes, TypeOK

\* What a call holds follows it.
LEMMA ChargesStep ==
  ASSUME CallTypes, QueueKept, NEW d \in Calls, ChargesKept(d), [Next]_vars
  PROVE  ChargesKept(d)'
<1>1. CASE Idle(d)
  BY <1>1, HeldTypes DEF Idle, ChargesKept, EarlyPCs
<1>2. ASSUME NEW r \in Requests, Call(d, r) PROVE ChargesKept(d)'
  <2>1. slot'[d] = slot[d] /\ body'[d] = body[d] BY <1>2, HeldTypes DEF Call, Go
  <2>2. /\ charge'[d] # charge[d] => pc'[d] \notin {"idle", "admit", "admit_cas"}
        /\ fetched'[d] # fetched[d] => pc'[d] \notin EarlyPCs
    BY <1>2, HeldTypes DEF Call, Go, EarlyPCs
  <2>3. /\ pc'[d] \in {"idle", "admit", "admit_cas"} => pc[d] \in {"idle", "admit", "admit_cas"}
        /\ pc'[d] \in EarlyPCs \ {"decode"} => pc[d] \in EarlyPCs \ {"decode"}
        /\ {pc[d], pc'[d]} \cap {"fetch", "charge", "charge_cas"} = {} \/ pc'[d] = pc[d]
           \/ {pc[d], pc'[d]} \subseteq {"fetch", "charge", "charge_cas"}
    BY <1>2, HeldTypes DEF Call, Go, EarlyPCs
  <2> QED BY <2>1, <2>2, <2>3 DEF ChargesKept
<1>3. ASSUME NEW r \in Requests, CallRefused(d, r) PROVE ChargesKept(d)'
  <2>1. slot'[d] = slot[d] /\ body'[d] = body[d] BY <1>3, HeldTypes DEF CallRefused, Finish,
      Record, Go
  <2>2. /\ charge'[d] # charge[d] => pc'[d] \notin {"idle", "admit", "admit_cas"}
        /\ fetched'[d] # fetched[d] => pc'[d] \notin EarlyPCs
    BY <1>3, HeldTypes DEF CallRefused, Finish, Record, Go, EarlyPCs
  <2>3. /\ pc'[d] \in {"idle", "admit", "admit_cas"} => pc[d] \in {"idle", "admit", "admit_cas"}
        /\ pc'[d] \in EarlyPCs \ {"decode"} => pc[d] \in EarlyPCs \ {"decode"}
        /\ {pc[d], pc'[d]} \cap {"fetch", "charge", "charge_cas"} = {} \/ pc'[d] = pc[d]
           \/ {pc[d], pc'[d]} \subseteq {"fetch", "charge", "charge_cas"}
    BY <1>3, HeldTypes DEF CallRefused, Finish, Record, Go, EarlyPCs
  <2> QED BY <2>1, <2>2, <2>3 DEF ChargesKept
<1>4. CASE Cancel(d)
  <2>1. slot'[d] = slot[d] /\ body'[d] = body[d] BY <1>4, HeldTypes DEF Cancel
  <2>2. /\ charge'[d] # charge[d] => pc'[d] \notin {"idle", "admit", "admit_cas"}
        /\ fetched'[d] # fetched[d] => pc'[d] \notin EarlyPCs
    BY <1>4, HeldTypes DEF Cancel, EarlyPCs
  <2>3. /\ pc'[d] \in {"idle", "admit", "admit_cas"} => pc[d] \in {"idle", "admit", "admit_cas"}
        /\ pc'[d] \in EarlyPCs \ {"decode"} => pc[d] \in EarlyPCs \ {"decode"}
        /\ {pc[d], pc'[d]} \cap {"fetch", "charge", "charge_cas"} = {} \/ pc'[d] = pc[d]
           \/ {pc[d], pc'[d]} \subseteq {"fetch", "charge", "charge_cas"}
    BY <1>4, HeldTypes DEF Cancel, EarlyPCs
  <2> QED BY <2>1, <2>2, <2>3 DEF ChargesKept
<1>5. CASE AdmitLoad(d)
  <2>1. slot'[d] = slot[d] /\ body'[d] = body[d] BY <1>5, HeldTypes DEF AdmitLoad, Go
  <2>2. /\ charge'[d] # charge[d] => pc'[d] \notin {"idle", "admit", "admit_cas"}
        /\ fetched'[d] # fetched[d] => pc'[d] \notin EarlyPCs
    BY <1>5, HeldTypes DEF AdmitLoad, Go, EarlyPCs
  <2>3. /\ pc'[d] \in {"idle", "admit", "admit_cas"} => pc[d] \in {"idle", "admit", "admit_cas"}
        /\ pc'[d] \in EarlyPCs \ {"decode"} => pc[d] \in EarlyPCs \ {"decode"}
        /\ {pc[d], pc'[d]} \cap {"fetch", "charge", "charge_cas"} = {} \/ pc'[d] = pc[d]
           \/ {pc[d], pc'[d]} \subseteq {"fetch", "charge", "charge_cas"}
    BY <1>5, HeldTypes DEF AdmitLoad, Go, EarlyPCs
  <2> QED BY <2>1, <2>2, <2>3 DEF ChargesKept
<1>6. CASE AdmitCas(d)
  <2>1. slot'[d] = slot[d] /\ body'[d] = body[d] BY <1>6, HeldTypes DEF AdmitCas,
      CompareExchange, Fits, Finish, Record, Go
  <2>2. /\ charge'[d] # charge[d] => pc'[d] \notin {"idle", "admit", "admit_cas"}
        /\ fetched'[d] # fetched[d] => pc'[d] \notin EarlyPCs
    BY <1>6, HeldTypes DEF AdmitCas, CompareExchange, Fits, Finish, Record, Go, EarlyPCs
  <2>3. /\ pc'[d] \in {"idle", "admit", "admit_cas"} => pc[d] \in {"idle", "admit", "admit_cas"}
        /\ pc'[d] \in EarlyPCs \ {"decode"} => pc[d] \in EarlyPCs \ {"decode"}
        /\ {pc[d], pc'[d]} \cap {"fetch", "charge", "charge_cas"} = {} \/ pc'[d] = pc[d]
           \/ {pc[d], pc'[d]} \subseteq {"fetch", "charge", "charge_cas"}
    BY <1>6, HeldTypes DEF AdmitCas, CompareExchange, Fits, Finish, Record, Go, EarlyPCs
  <2> QED BY <2>1, <2>2, <2>3 DEF ChargesKept
<1>7. CASE Submit(d)
  <2>1. slot'[d] = slot[d] /\ body'[d] = body[d] BY <1>7, HeldTypes DEF Submit, TakenBack,
      Streamed, Finish, Record, Go
  <2>2. /\ charge'[d] # charge[d] => pc'[d] \notin {"idle", "admit", "admit_cas"}
        /\ fetched'[d] # fetched[d] => pc'[d] \notin EarlyPCs
    BY <1>7, HeldTypes DEF Submit, TakenBack, Streamed, Finish, Record, Go, EarlyPCs
  <2>3. /\ pc'[d] \in {"idle", "admit", "admit_cas"} => pc[d] \in {"idle", "admit", "admit_cas"}
        /\ pc'[d] \in EarlyPCs \ {"decode"} => pc[d] \in EarlyPCs \ {"decode"}
        /\ {pc[d], pc'[d]} \cap {"fetch", "charge", "charge_cas"} = {} \/ pc'[d] = pc[d]
           \/ {pc[d], pc'[d]} \subseteq {"fetch", "charge", "charge_cas"}
    BY <1>7, HeldTypes DEF Submit, TakenBack, Streamed, Finish, Record, Go, EarlyPCs
  <2> QED BY <2>1, <2>2, <2>3 DEF ChargesKept
<1>8. CASE Dequeued(d)
  <2>1. slot'[d] = slot[d] /\ body'[d] = body[d] BY <1>8, HeldTypes DEF Dequeued,
      OptionsRefused, Return, Finish, Record, Go
  <2>2. /\ charge'[d] # charge[d] => pc'[d] \notin {"idle", "admit", "admit_cas"}
        /\ fetched'[d] # fetched[d] => pc'[d] \notin EarlyPCs
    BY <1>8, HeldTypes DEF Dequeued, OptionsRefused, Return, Finish, Record, Go, EarlyPCs
  <2>3. /\ pc'[d] \in {"idle", "admit", "admit_cas"} => pc[d] \in {"idle", "admit", "admit_cas"}
        /\ pc'[d] \in EarlyPCs \ {"decode"} => pc[d] \in EarlyPCs \ {"decode"}
        /\ {pc[d], pc'[d]} \cap {"fetch", "charge", "charge_cas"} = {} \/ pc'[d] = pc[d]
           \/ {pc[d], pc'[d]} \subseteq {"fetch", "charge", "charge_cas"}
    BY <1>8, HeldTypes DEF Dequeued, OptionsRefused, Return, Finish, Record, Go, EarlyPCs
  <2> QED BY <2>1, <2>2, <2>3 DEF ChargesKept
<1>9. CASE AcquireSlot(d)
  BY <1>9, HeldTypes DEF AcquireSlot, Return, Go, ChargesKept, EarlyPCs
<1>10. CASE Fetch(d)
  BY <1>10, HeldTypes DEF Fetch, ReleaseSlot, Return, Go, ChargesKept, EarlyPCs
<1>11. CASE ChargeLoad(d)
  <2>1. slot'[d] = slot[d] /\ body'[d] = body[d] BY <1>11, HeldTypes DEF ChargeLoad, Go
  <2>2. /\ charge'[d] # charge[d] => pc'[d] \notin {"idle", "admit", "admit_cas"}
        /\ fetched'[d] # fetched[d] => pc'[d] \notin EarlyPCs
    BY <1>11, HeldTypes DEF ChargeLoad, Go, EarlyPCs
  <2>3. /\ pc'[d] \in {"idle", "admit", "admit_cas"} => pc[d] \in {"idle", "admit", "admit_cas"}
        /\ pc'[d] \in EarlyPCs \ {"decode"} => pc[d] \in EarlyPCs \ {"decode"}
        /\ {pc[d], pc'[d]} \cap {"fetch", "charge", "charge_cas"} = {} \/ pc'[d] = pc[d]
           \/ {pc[d], pc'[d]} \subseteq {"fetch", "charge", "charge_cas"}
    BY <1>11, HeldTypes DEF ChargeLoad, Go, EarlyPCs
  <2> QED BY <2>1, <2>2, <2>3 DEF ChargesKept
<1>12. CASE ChargeCas(d)
  BY <1>12, HeldTypes DEF ChargeCas, CompareExchange, Fits, ReleaseSlot, Return, Go, ChargesKept,
     EarlyPCs
<1>13. CASE Decode(d)
  <2>1. slot'[d] = slot[d] /\ body'[d] = body[d] BY <1>13, HeldTypes DEF Decode, Return, Go
  <2>2. /\ charge'[d] # charge[d] => pc'[d] \notin {"idle", "admit", "admit_cas"}
        /\ fetched'[d] # fetched[d] => pc'[d] \notin EarlyPCs
    BY <1>13, HeldTypes DEF Decode, Return, Go, EarlyPCs
  <2>3. /\ pc'[d] \in {"idle", "admit", "admit_cas"} => pc[d] \in {"idle", "admit", "admit_cas"}
        /\ pc'[d] \in EarlyPCs \ {"decode"} => pc[d] \in EarlyPCs \ {"decode"}
        /\ {pc[d], pc'[d]} \cap {"fetch", "charge", "charge_cas"} = {} \/ pc'[d] = pc[d]
           \/ {pc[d], pc'[d]} \subseteq {"fetch", "charge", "charge_cas"}
    BY <1>13, HeldTypes DEF Decode, Return, Go, EarlyPCs
  <2> QED BY <2>1, <2>2, <2>3 DEF ChargesKept
<1>14. CASE Gather(d)
  <2>1. slot'[d] = slot[d] /\ body'[d] = body[d] BY <1>14, HeldTypes DEF Gather, Return, Go
  <2>2. /\ charge'[d] # charge[d] => pc'[d] \notin {"idle", "admit", "admit_cas"}
        /\ fetched'[d] # fetched[d] => pc'[d] \notin EarlyPCs
    BY <1>14, HeldTypes DEF Gather, Return, Go, EarlyPCs
  <2>3. /\ pc'[d] \in {"idle", "admit", "admit_cas"} => pc[d] \in {"idle", "admit", "admit_cas"}
        /\ pc'[d] \in EarlyPCs \ {"decode"} => pc[d] \in EarlyPCs \ {"decode"}
        /\ {pc[d], pc'[d]} \cap {"fetch", "charge", "charge_cas"} = {} \/ pc'[d] = pc[d]
           \/ {pc[d], pc'[d]} \subseteq {"fetch", "charge", "charge_cas"}
    BY <1>14, HeldTypes DEF Gather, Return, Go, EarlyPCs
  <2> QED BY <2>1, <2>2, <2>3 DEF ChargesKept
<1>15. CASE Finalize(d)
  <2>1. slot'[d] = slot[d] /\ body'[d] = body[d] BY <1>15, HeldTypes DEF Finalize, Return, Go
  <2>2. /\ charge'[d] # charge[d] => pc'[d] \notin {"idle", "admit", "admit_cas"}
        /\ fetched'[d] # fetched[d] => pc'[d] \notin EarlyPCs
    BY <1>15, HeldTypes DEF Finalize, Return, Go, EarlyPCs
  <2>3. /\ pc'[d] \in {"idle", "admit", "admit_cas"} => pc[d] \in {"idle", "admit", "admit_cas"}
        /\ pc'[d] \in EarlyPCs \ {"decode"} => pc[d] \in EarlyPCs \ {"decode"}
        /\ {pc[d], pc'[d]} \cap {"fetch", "charge", "charge_cas"} = {} \/ pc'[d] = pc[d]
           \/ {pc[d], pc'[d]} \subseteq {"fetch", "charge", "charge_cas"}
    BY <1>15, HeldTypes DEF Finalize, Return, Go, EarlyPCs
  <2> QED BY <2>1, <2>2, <2>3 DEF ChargesKept
<1>16. CASE Shape(d)
  <2>1. slot'[d] = slot[d] /\ body'[d] = body[d] BY <1>16, HeldTypes DEF Shape, Return, Go
  <2>2. /\ charge'[d] # charge[d] => pc'[d] \notin {"idle", "admit", "admit_cas"}
        /\ fetched'[d] # fetched[d] => pc'[d] \notin EarlyPCs
    BY <1>16, HeldTypes DEF Shape, Return, Go, EarlyPCs
  <2>3. /\ pc'[d] \in {"idle", "admit", "admit_cas"} => pc[d] \in {"idle", "admit", "admit_cas"}
        /\ pc'[d] \in EarlyPCs \ {"decode"} => pc[d] \in EarlyPCs \ {"decode"}
        /\ {pc[d], pc'[d]} \cap {"fetch", "charge", "charge_cas"} = {} \/ pc'[d] = pc[d]
           \/ {pc[d], pc'[d]} \subseteq {"fetch", "charge", "charge_cas"}
    BY <1>16, HeldTypes DEF Shape, Return, Go, EarlyPCs
  <2> QED BY <2>1, <2>2, <2>3 DEF ChargesKept
<1>17. CASE AcquireEngine(d)
  <2>1. slot'[d] = slot[d] /\ body'[d] = body[d] BY <1>17, HeldTypes DEF AcquireEngine, Return,
      Go
  <2>2. /\ charge'[d] # charge[d] => pc'[d] \notin {"idle", "admit", "admit_cas"}
        /\ fetched'[d] # fetched[d] => pc'[d] \notin EarlyPCs
    BY <1>17, HeldTypes DEF AcquireEngine, Return, Go, EarlyPCs
  <2>3. /\ pc'[d] \in {"idle", "admit", "admit_cas"} => pc[d] \in {"idle", "admit", "admit_cas"}
        /\ pc'[d] \in EarlyPCs \ {"decode"} => pc[d] \in EarlyPCs \ {"decode"}
        /\ {pc[d], pc'[d]} \cap {"fetch", "charge", "charge_cas"} = {} \/ pc'[d] = pc[d]
           \/ {pc[d], pc'[d]} \subseteq {"fetch", "charge", "charge_cas"}
    BY <1>17, HeldTypes DEF AcquireEngine, Return, Go, EarlyPCs
  <2> QED BY <2>1, <2>2, <2>3 DEF ChargesKept
<1>18. CASE Infer(d)
  <2>1. slot'[d] = slot[d] /\ body'[d] = body[d] BY <1>18, HeldTypes DEF Infer, Return, Go
  <2>2. /\ charge'[d] # charge[d] => pc'[d] \notin {"idle", "admit", "admit_cas"}
        /\ fetched'[d] # fetched[d] => pc'[d] \notin EarlyPCs
    BY <1>18, HeldTypes DEF Infer, Return, Go, EarlyPCs
  <2>3. /\ pc'[d] \in {"idle", "admit", "admit_cas"} => pc[d] \in {"idle", "admit", "admit_cas"}
        /\ pc'[d] \in EarlyPCs \ {"decode"} => pc[d] \in EarlyPCs \ {"decode"}
        /\ {pc[d], pc'[d]} \cap {"fetch", "charge", "charge_cas"} = {} \/ pc'[d] = pc[d]
           \/ {pc[d], pc'[d]} \subseteq {"fetch", "charge", "charge_cas"}
    BY <1>18, HeldTypes DEF Infer, Return, Go, EarlyPCs
  <2> QED BY <2>1, <2>2, <2>3 DEF ChargesKept
<1>19. CASE Returned(d)
  <2>1. slot'[d] = slot[d] /\ body'[d] = body[d] BY <1>19, HeldTypes DEF Returned, Streamed,
      Record, Completion, DropParse, Go
  <2>2. /\ charge'[d] # charge[d] => pc'[d] \notin {"idle", "admit", "admit_cas"}
        /\ fetched'[d] # fetched[d] => pc'[d] \notin EarlyPCs
    BY <1>19, HeldTypes DEF Returned, Streamed, Record, Completion, DropParse, Go, EarlyPCs
  <2>3. /\ pc'[d] \in {"idle", "admit", "admit_cas"} => pc[d] \in {"idle", "admit", "admit_cas"}
        /\ pc'[d] \in EarlyPCs \ {"decode"} => pc[d] \in EarlyPCs \ {"decode"}
        /\ {pc[d], pc'[d]} \cap {"fetch", "charge", "charge_cas"} = {} \/ pc'[d] = pc[d]
           \/ {pc[d], pc'[d]} \subseteq {"fetch", "charge", "charge_cas"}
    BY <1>19, HeldTypes DEF Returned, Streamed, Record, Completion, DropParse, Go, EarlyPCs
  <2> QED BY <2>1, <2>2, <2>3 DEF ChargesKept
<1>20. CASE WriteDone(d)
  <2>1. slot'[d] = slot[d] /\ body'[d] = body[d] BY <1>20, HeldTypes DEF WriteDone, Finish, Go
  <2>2. /\ charge'[d] # charge[d] => pc'[d] \notin {"idle", "admit", "admit_cas"}
        /\ fetched'[d] # fetched[d] => pc'[d] \notin EarlyPCs
    BY <1>20, HeldTypes DEF WriteDone, Finish, Go, EarlyPCs
  <2>3. /\ pc'[d] \in {"idle", "admit", "admit_cas"} => pc[d] \in {"idle", "admit", "admit_cas"}
        /\ pc'[d] \in EarlyPCs \ {"decode"} => pc[d] \in EarlyPCs \ {"decode"}
        /\ {pc[d], pc'[d]} \cap {"fetch", "charge", "charge_cas"} = {} \/ pc'[d] = pc[d]
           \/ {pc[d], pc'[d]} \subseteq {"fetch", "charge", "charge_cas"}
    BY <1>20, HeldTypes DEF WriteDone, Finish, Go, EarlyPCs
  <2> QED BY <2>1, <2>2, <2>3 DEF ChargesKept
<1>21. CASE OnDone(d)
  <2>1. slot'[d] = slot[d] /\ body'[d] = body[d] BY <1>21, HeldTypes DEF OnDone, Streamed, Go
  <2>2. /\ charge'[d] # charge[d] => pc'[d] \notin {"idle", "admit", "admit_cas"}
        /\ fetched'[d] # fetched[d] => pc'[d] \notin EarlyPCs
    BY <1>21, HeldTypes DEF OnDone, Streamed, Go, EarlyPCs
  <2>3. /\ pc'[d] \in {"idle", "admit", "admit_cas"} => pc[d] \in {"idle", "admit", "admit_cas"}
        /\ pc'[d] \in EarlyPCs \ {"decode"} => pc[d] \in EarlyPCs \ {"decode"}
        /\ {pc[d], pc'[d]} \cap {"fetch", "charge", "charge_cas"} = {} \/ pc'[d] = pc[d]
           \/ {pc[d], pc'[d]} \subseteq {"fetch", "charge", "charge_cas"}
    BY <1>21, HeldTypes DEF OnDone, Streamed, Go, EarlyPCs
  <2> QED BY <2>1, <2>2, <2>3 DEF ChargesKept
<1>22. ASSUME NEW i \in DOMAIN legs[d], LegStart(d, i) PROVE ChargesKept(d)'
  BY <1>22, HeldTypes DEF LegStart, LegActive, SetLeg, OnlyLegs, ChargesKept, EarlyPCs
<1>23. ASSUME NEW i \in DOMAIN legs[d], LegAnswer(d, i) PROVE ChargesKept(d)'
  BY <1>23, HeldTypes DEF LegAnswer, LegActive, SetLeg, RoutePdfLeg, OnlyLegs, ChargesKept,
     EarlyPCs
<1>24. ASSUME NEW i \in DOMAIN legs[d], AcquireLease(d, i) PROVE ChargesKept(d)'
  BY <1>24, HeldTypes DEF AcquireLease, LegActive, SetLeg, OnlyLegs, ChargesKept, EarlyPCs
<1>25. ASSUME NEW i \in DOMAIN legs[d], CvNotRun(d, i) PROVE ChargesKept(d)'
  BY <1>25, HeldTypes DEF CvNotRun, LegActive, SetLeg, OnlyLegs, ChargesKept, EarlyPCs
<1>26. ASSUME NEW i \in DOMAIN legs[d], BuildEngine(d, i) PROVE ChargesKept(d)'
  BY <1>26, HeldTypes DEF BuildEngine, LegActive, SetLeg, ReleaseLease, OnlyLegs, ChargesKept,
     EarlyPCs
<1>27. ASSUME NEW i \in DOMAIN legs[d], Recognized(d, i) PROVE ChargesKept(d)'
  BY <1>27, HeldTypes DEF Recognized, LegActive, SetLeg, ReleaseLease, OnlyLegs, ChargesKept,
     EarlyPCs
<1>28. ASSUME NEW w \in Workers, WorkerTake(w), Head(tasks) = d PROVE ChargesKept(d)'
  <2>1. pc[d] = "queued" /\ pc'[d] = "dequeued" BY <1>28, HeadWaits, HeldTypes DEF WorkerTake,
      Go
  <2>2. charge' = charge /\ fetched' = fetched /\ slot' = slot /\ body' = body BY <1>28 DEF
      WorkerTake
  <2> QED BY <2>1, <2>2 DEF ChargesKept, EarlyPCs
<1>29. ASSUME NEW w \in Workers, WorkerDone(w), running[w] = d PROVE ChargesKept(d)'
  BY <1>29, HeldTypes DEF WorkerDone, TakenBack, Streamed, ChargesKept, EarlyPCs
<1> QED BY OwnStep, <1>1, <1>2, <1>3, <1>4, <1>5, <1>6, <1>7, <1>8, <1>9, <1>10, <1>11, <1>12,
    <1>13, <1>14, <1>15, <1>16, <1>17, <1>18, <1>19, <1>20, <1>21, <1>22, <1>23, <1>24, <1>25,
    <1>26, <1>27, <1>28, <1>29

\* A number of equal charges changes by the one that changes.
LEMMA ChangeOne ==
  ASSUME NEW u \in Nat, NEW f \in [Calls -> {0, u}], NEW g \in [Calls -> {0, u}], NEW c \in Calls,
         \A d \in Calls \ {c} : g[d] = f[d],
         NEW F \in SUBSET Calls, \A d \in Calls : d \in F <=> f[d] # 0,
         NEW G \in SUBSET Calls, \A d \in Calls : d \in G <=> g[d] # 0
  PROVE  /\ Cardinality(F) \in Nat /\ Cardinality(G) \in Nat
         /\ u * Cardinality(G) = u * Cardinality(F) - f[c] + g[c]
<1>1. IsFiniteSet(F) /\ IsFiniteSet(G) BY ParseAssumption, FS_Subset DEF ParseAssumption
<1>2. Cardinality(F) \in Nat /\ Cardinality(G) \in Nat BY <1>1, FS_CardinalityType
<1> DEFINE v == g[c]
<1>3. v \in {0, u} OBVIOUS
<1>4. f[c] \in {0, u} OBVIOUS
<1>5. \A m \in Nat : /\ u * (m + 1) = u * m - 0 + u /\ u * m = u * (m + 1) - u + 0
                      /\ u * m = u * m - 0 + 0 /\ u * m = u * m - u + u
  <2>1. \A m \in Nat : u * m \in Nat /\ u * (m + 1) = u * m + u BY SMT
  <2>2. \A a, b \in Nat : a + b = a - 0 + b /\ a = a + b - b + 0 /\ a = a - 0 + 0 /\ a = a - b + b
    OBVIOUS
  <2> QED BY <2>1, <2>2
<1>6. CASE v = f[c]
  <2>1. F = G BY <1>6
  <2> QED BY <1>2, <1>4, <1>5, <1>6, <2>1
<1>7. CASE v # f[c] /\ v # 0
  <2>1. v = u /\ f[c] = 0 /\ c \notin F /\ G = F \cup {c} BY <1>3, <1>4, <1>7
  <2>2. Cardinality(G) = Cardinality(F) + 1 BY <1>1, <2>1, FS_AddElement
  <2> QED BY <1>2, <1>5, <2>1, <2>2
<1>8. CASE v # f[c] /\ v = 0
  <2>1. f[c] = u /\ c \notin G /\ F = G \cup {c} BY <1>3, <1>4, <1>8
  <2>2. Cardinality(F) = Cardinality(G) + 1 BY <1>1, <2>1, FS_AddElement
  <2> QED BY <1>2, <1>5, <1>8, <2>1, <2>2
<1> QED BY <1>6, <1>7, <1>8

\* A step that changes what one call holds, and the budget with it.
LEMMA BudgetFrame ==
  ASSUME CallTypes, BudgetKept, NEW c \in Calls,
         NEW v \in {0, RequestBytes}, NEW w \in {0, FetchedBytes},
         charge' = [charge EXCEPT ![c] = v], fetched' = [fetched EXCEPT ![c] = w],
         used' = used - charge[c] + v - fetched[c] + w, used' <= BudgetLimit
  PROVE  BudgetKept'
<1>1. RequestBytes \in Nat /\ FetchedBytes \in Nat BY ParseAssumption DEF ParseAssumption
<1> DEFINE a == RequestBytes * Cardinality(Charged)
           b == FetchedBytes * Cardinality(Billed)
<1>0. /\ Charged = {d \in Calls : charge[d] # 0} /\ Charged' = {d \in Calls : charge'[d] # 0}
      /\ Billed = {d \in Calls : fetched[d] # 0} /\ Billed' = {d \in Calls : fetched'[d] # 0}
  BY DEF Charged, Billed
<1>2. /\ RequestBytes * Cardinality(Charged') = a - charge[c] + v
      /\ Cardinality(Charged) \in Nat
  <2>1. /\ charge \in [Calls -> {0, RequestBytes}] /\ charge' \in [Calls -> {0, RequestBytes}]
        /\ charge'[c] = v /\ \A d \in Calls \ {c} : charge'[d] = charge[d]
    BY HeldTypes
  <2>2. /\ Charged \in SUBSET Calls /\ \A d \in Calls : d \in Charged <=> charge[d] # 0
        /\ Charged' \in SUBSET Calls /\ \A d \in Calls : d \in Charged' <=> charge'[d] # 0
    BY <1>0
  <2>3. PICK f, g, F, G : f = charge /\ g = charge' /\ F = Charged /\ G = Charged' OBVIOUS
  <2>4. /\ f \in [Calls -> {0, RequestBytes}] /\ g \in [Calls -> {0, RequestBytes}]
        /\ \A d \in Calls \ {c} : g[d] = f[d]
        /\ F \in SUBSET Calls /\ G \in SUBSET Calls
        /\ \A d \in Calls : d \in F <=> f[d] # 0
        /\ \A d \in Calls : d \in G <=> g[d] # 0
    BY <2>1, <2>2, <2>3
  <2>5. /\ Cardinality(F) \in Nat
        /\ RequestBytes * Cardinality(G) = RequestBytes * Cardinality(F) - f[c] + g[c]
    BY <1>1, <2>4, ChangeOne
  <2> QED BY <2>1, <2>3, <2>5
<1>3. /\ FetchedBytes * Cardinality(Billed') = b - fetched[c] + w
      /\ Cardinality(Billed) \in Nat
  <2>1. /\ fetched \in [Calls -> {0, FetchedBytes}] /\ fetched' \in [Calls -> {0, FetchedBytes}]
        /\ fetched'[c] = w /\ \A d \in Calls \ {c} : fetched'[d] = fetched[d]
    BY HeldTypes
  <2>2. /\ Billed \in SUBSET Calls /\ \A d \in Calls : d \in Billed <=> fetched[d] # 0
        /\ Billed' \in SUBSET Calls /\ \A d \in Calls : d \in Billed' <=> fetched'[d] # 0
    BY <1>0
  <2>3. PICK f, g, F, G : f = fetched /\ g = fetched' /\ F = Billed /\ G = Billed' OBVIOUS
  <2>4. /\ f \in [Calls -> {0, FetchedBytes}] /\ g \in [Calls -> {0, FetchedBytes}]
        /\ \A d \in Calls \ {c} : g[d] = f[d]
        /\ F \in SUBSET Calls /\ G \in SUBSET Calls
        /\ \A d \in Calls : d \in F <=> f[d] # 0
        /\ \A d \in Calls : d \in G <=> g[d] # 0
    BY <2>1, <2>2, <2>3
  <2>5. /\ Cardinality(F) \in Nat
        /\ FetchedBytes * Cardinality(G) = FetchedBytes * Cardinality(F) - f[c] + g[c]
    BY <1>1, <2>4, ChangeOne
  <2> QED BY <2>1, <2>3, <2>5
<1>4. a \in Nat /\ b \in Nat /\ charge[c] \in Nat /\ fetched[c] \in Nat /\ v \in Nat /\ w \in Nat
  BY <1>1, <1>2, <1>3, HeldTypes
<1>5. used = a + b BY DEF BudgetKept
<1> HIDE DEF a, b
<1>6. \A x, y, z \in Nat : \A p, q, r \in Nat :
        p + q - x + y - z + r = (p - x + y) + (q - z + r) OBVIOUS
<1>7. used' = (a - charge[c] + v) + (b - fetched[c] + w) BY <1>4, <1>5, <1>6
<1> QED BY <1>2, <1>3, <1>7 DEF BudgetKept

\* A function is itself with a value put where it is.
LEMMA SameFunction ==
  ASSUME CallTypes, NEW c \in Calls
  PROVE  /\ charge = [charge EXCEPT ![c] = charge[c]]
         /\ fetched = [fetched EXCEPT ![c] = fetched[c]]
BY HeldTypes

\* A step that leaves the bytes alone leaves the budget alone.
LEMMA BudgetSame ==
  ASSUME BudgetKept, used' = used, charge' = charge, fetched' = fetched
  PROVE  BudgetKept'
BY DEF BudgetKept, Charged, Billed

\* What the budget's steps need of the constants.
LEMMA Limits ==
  /\ RequestBytes \in Nat /\ FetchedBytes \in Nat /\ BudgetLimit \in Nat
  /\ FetchLimit \in Nat \ {0} /\ PoolSize \in Nat \ {0} /\ IsFiniteSet(Calls)
BY ParseAssumption DEF ParseAssumption

\* A charge that fits, stored by a compare_exchange that found what it had read.
LEMMA ChargeFits ==
  ASSUME CallTypes, NEW c \in Calls, NEW bytes \in Nat, Fits(c, bytes), used = seen[c]
  PROVE  used + bytes <= BudgetLimit
<1>1. used \in Int /\ BudgetLimit \in Nat BY Limits DEF CallTypes, TypeOK
<1>2. bytes <= BudgetLimit /\ used <= BudgetLimit - bytes BY DEF Fits
<1> QED BY <1>1, <1>2

\* Arithmetic of a charge taken, and of one given back.
LEMMA TakeAndGive ==
  ASSUME NEW a \in Int, NEW x \in Nat, NEW y \in Nat, NEW z \in Nat
  PROVE  /\ a + y = a - 0 + y - z + z /\ a + y = a - z + z - 0 + y
         /\ a - x <= a /\ a - y - z = a - y + 0 - z + 0 /\ a - y - z <= a
         /\ a - z = a - y + y - z + 0 /\ a = a - y + y - z + z
OBVIOUS

\* Every charge and every release is counted.
LEMMA BudgetStep ==
  ASSUME CallTypes, BudgetKept, \A c \in Calls : ChargesKept(c), [Next]_vars
  PROVE  BudgetKept'
<1>1. ASSUME NEW c \in Calls, NEW r \in Requests, Call(c, r) PROVE BudgetKept'
  <2>1. used' = used /\ charge' = charge /\ fetched' = fetched BY <1>1 DEF Call, Go
  <2> QED BY <2>1, BudgetSame
<1>2. ASSUME NEW c \in Calls, NEW r \in Requests, CallRefused(c, r) PROVE BudgetKept'
  <2>1. used' = used /\ charge' = charge /\ fetched' = fetched BY <1>2 DEF CallRefused, Finish,
      Record, Go
  <2> QED BY <2>1, BudgetSame
<1>3. ASSUME NEW c \in Calls, Cancel(c) PROVE BudgetKept'
  <2>1. used' = used /\ charge' = charge /\ fetched' = fetched BY <1>3 DEF Cancel
  <2> QED BY <2>1, BudgetSame
<1>4. ASSUME NEW c \in Calls, AdmitLoad(c) PROVE BudgetKept'
  <2>1. used' = used /\ charge' = charge /\ fetched' = fetched BY <1>4 DEF AdmitLoad, Go
  <2> QED BY <2>1, BudgetSame
<1>5. ASSUME NEW c \in Calls, AdmitCas(c) PROVE BudgetKept'
  <2>1. CASE used' = used + RequestBytes /\ used = seen[c] /\ Fits(c, RequestBytes)
             /\ charge' = [charge EXCEPT ![c] = RequestBytes] /\ fetched' = fetched
    <3>1. charge[c] = 0 BY <1>5 DEF AdmitCas, ChargesKept
    <3>2. used' <= BudgetLimit BY <2>1, Limits, ChargeFits
    <3>3. used' = used - charge[c] + RequestBytes - fetched[c] + fetched[c]
      BY <2>1, <3>1, Limits, GivenBack, TakeAndGive
    <3>4. fetched' = [fetched EXCEPT ![c] = fetched[c]] BY <2>1, SameFunction
    <3> QED BY <2>1, <3>2, <3>3, <3>4, GivenBack, BudgetFrame
  <2>2. CASE used' = used /\ charge' = charge /\ fetched' = fetched BY <2>2, BudgetSame
  <2> QED BY <1>5, <2>1, <2>2 DEF AdmitCas, CompareExchange
<1>6. ASSUME NEW c \in Calls, Submit(c) PROVE BudgetKept'
  <2>1. CASE used' = used - TakenBack(c) /\ fetched' = fetched
             /\ charge' = [charge EXCEPT ![c] = charge[c] - TakenBack(c)]
    <3>1. used' <= BudgetLimit
      <4>1. used' <= used /\ used \in Int /\ used' \in Int
        BY <2>1, GivenBack, TakeAndGive
      <4> QED BY <4>1, Limits DEF BudgetKept
    <3>2. fetched' = [fetched EXCEPT ![c] = fetched[c]] BY <2>1, SameFunction
    <3>3. used' = used - charge[c] + (charge[c] - TakenBack(c)) - fetched[c] + fetched[c]
      <4>1. \A a \in Int : \A x, y, z \in Nat : a - x = a - y + (y - x) - z + z OBVIOUS
      <4> QED BY <2>1, <4>1, GivenBack
    <3> QED BY <2>1, <3>1, <3>2, <3>3, GivenBack, BudgetFrame
  <2>2. CASE used' = used /\ charge' = charge /\ fetched' = fetched BY <2>2, BudgetSame
  <2> QED BY <1>6, <2>1, <2>2, HeldTypes DEF Submit
<1>7. ASSUME NEW c \in Calls, Dequeued(c) PROVE BudgetKept'
  <2>1. used' = used /\ charge' = charge /\ fetched' = fetched BY <1>7 DEF Dequeued,
      OptionsRefused, Return, Finish, Record, Go
  <2> QED BY <2>1, BudgetSame
<1>8. ASSUME NEW c \in Calls, AcquireSlot(c) PROVE BudgetKept'
  <2>1. used' = used /\ charge' = charge /\ fetched' = fetched BY <1>8 DEF AcquireSlot, Return,
      Go
  <2> QED BY <2>1, BudgetSame
<1>9. ASSUME NEW c \in Calls, Fetch(c) PROVE BudgetKept'
  <2>1. used' = used /\ charge' = charge /\ fetched' = fetched BY <1>9 DEF Fetch, ReleaseSlot,
      Return, Go
  <2> QED BY <2>1, BudgetSame
<1>10. ASSUME NEW c \in Calls, ChargeLoad(c) PROVE BudgetKept'
  <2>1. used' = used /\ charge' = charge /\ fetched' = fetched BY <1>10 DEF ChargeLoad, Go
  <2> QED BY <2>1, BudgetSame
<1>11. ASSUME NEW c \in Calls, ChargeCas(c) PROVE BudgetKept'
  <2>1. CASE used' = used + FetchedBytes /\ used = seen[c] /\ Fits(c, FetchedBytes)
             /\ fetched' = [fetched EXCEPT ![c] = FetchedBytes] /\ charge' = charge
    <3>1. fetched[c] = 0 BY <1>11 DEF ChargeCas, ChargesKept, EarlyPCs
    <3>2. used' <= BudgetLimit BY <2>1, Limits, ChargeFits
    <3>3. used' = used - charge[c] + charge[c] - fetched[c] + FetchedBytes
      BY <2>1, <3>1, Limits, GivenBack, TakeAndGive
    <3>4. charge' = [charge EXCEPT ![c] = charge[c]] BY <2>1, SameFunction
    <3> QED BY <2>1, <3>2, <3>3, <3>4, GivenBack, BudgetFrame
  <2>2. CASE used' = used /\ charge' = charge /\ fetched' = fetched BY <2>2, BudgetSame
  <2> QED BY <1>11, <2>1, <2>2 DEF ChargeCas, CompareExchange
<1>12. ASSUME NEW c \in Calls, Decode(c) PROVE BudgetKept'
  <2>1. used' = used /\ charge' = charge /\ fetched' = fetched BY <1>12 DEF Decode, Return, Go
  <2> QED BY <2>1, BudgetSame
<1>13. ASSUME NEW c \in Calls, Gather(c) PROVE BudgetKept'
  <2>1. used' = used /\ charge' = charge /\ fetched' = fetched BY <1>13 DEF Gather, Return, Go
  <2> QED BY <2>1, BudgetSame
<1>14. ASSUME NEW c \in Calls, Finalize(c) PROVE BudgetKept'
  <2>1. used' = used /\ charge' = charge /\ fetched' = fetched BY <1>14 DEF Finalize, Return, Go
  <2> QED BY <2>1, BudgetSame
<1>15. ASSUME NEW c \in Calls, Shape(c) PROVE BudgetKept'
  <2>1. used' = used /\ charge' = charge /\ fetched' = fetched BY <1>15 DEF Shape, Return, Go
  <2> QED BY <2>1, BudgetSame
<1>16. ASSUME NEW c \in Calls, AcquireEngine(c) PROVE BudgetKept'
  <2>1. used' = used /\ charge' = charge /\ fetched' = fetched BY <1>16 DEF AcquireEngine,
      Return, Go
  <2> QED BY <2>1, BudgetSame
<1>17. ASSUME NEW c \in Calls, Infer(c) PROVE BudgetKept'
  <2>1. used' = used /\ charge' = charge /\ fetched' = fetched BY <1>17 DEF Infer, Return, Go
  <2> QED BY <2>1, BudgetSame
<1>18. ASSUME NEW c \in Calls, Returned(c) PROVE BudgetKept'
  <2>1. CASE used' = used - fetched[c] /\ fetched' = [fetched EXCEPT ![c] = 0] /\ charge' =
      charge
    <3>1. used' <= BudgetLimit
      <4>1. used' <= used /\ used \in Int /\ used' \in Int
        BY <2>1, GivenBack, TakeAndGive
      <4> QED BY <4>1, Limits DEF BudgetKept
    <3>2. charge' = [charge EXCEPT ![c] = charge[c]] BY <2>1, SameFunction
    <3>3. used' = used - charge[c] + charge[c] - fetched[c] + 0
      BY <2>1, GivenBack, TakeAndGive
    <3> QED BY <2>1, <3>1, <3>2, <3>3, GivenBack, BudgetFrame
  <2>2. CASE used' = used /\ charge' = charge /\ fetched' = fetched BY <2>2, BudgetSame
  <2> QED BY <1>18, <2>1, <2>2 DEF Returned
<1>19. ASSUME NEW c \in Calls, WriteDone(c) PROVE BudgetKept'
  <2>1. used' = used /\ charge' = charge /\ fetched' = fetched BY <1>19 DEF WriteDone, Finish,
      Go
  <2> QED BY <2>1, BudgetSame
<1>20. ASSUME NEW c \in Calls, OnDone(c) PROVE BudgetKept'
  <2>1. CASE /\ used' = used - charge[c] - fetched[c]
             /\ charge' = [charge EXCEPT ![c] = 0] /\ fetched' = [fetched EXCEPT ![c] = 0]
    <3>1. used' <= BudgetLimit
      <4>1. used' <= used /\ used \in Int /\ used' \in Int
        BY <2>1, GivenBack, TakeAndGive
      <4> QED BY <4>1, Limits DEF BudgetKept
    <3>2. used' = used - charge[c] + 0 - fetched[c] + 0
      BY <2>1, GivenBack, TakeAndGive
    <3> QED BY <2>1, <3>1, <3>2, BudgetFrame
  <2>2. CASE used' = used /\ charge' = charge /\ fetched' = fetched BY <2>2, BudgetSame
  <2> QED BY <1>20, <2>1, <2>2 DEF OnDone
<1>21. ASSUME NEW c \in Calls, NEW i \in DOMAIN legs[c], LegStart(c, i) PROVE BudgetKept'
  <2>1. used' = used /\ charge' = charge /\ fetched' = fetched BY <1>21 DEF LegStart, LegActive,
      SetLeg, OnlyLegs
  <2> QED BY <2>1, BudgetSame
<1>22. ASSUME NEW c \in Calls, NEW i \in DOMAIN legs[c], LegAnswer(c, i) PROVE BudgetKept'
  <2>1. used' = used /\ charge' = charge /\ fetched' = fetched BY <1>22 DEF LegAnswer,
      LegActive, SetLeg, RoutePdfLeg, OnlyLegs
  <2> QED BY <2>1, BudgetSame
<1>23. ASSUME NEW c \in Calls, NEW i \in DOMAIN legs[c], AcquireLease(c, i) PROVE BudgetKept'
  <2>1. used' = used /\ charge' = charge /\ fetched' = fetched BY <1>23 DEF AcquireLease,
      LegActive, SetLeg, OnlyLegs
  <2> QED BY <2>1, BudgetSame
<1>24. ASSUME NEW c \in Calls, NEW i \in DOMAIN legs[c], CvNotRun(c, i) PROVE BudgetKept'
  <2>1. used' = used /\ charge' = charge /\ fetched' = fetched BY <1>24 DEF CvNotRun, LegActive,
      SetLeg, OnlyLegs
  <2> QED BY <2>1, BudgetSame
<1>25. ASSUME NEW c \in Calls, NEW i \in DOMAIN legs[c], BuildEngine(c, i) PROVE BudgetKept'
  <2>1. used' = used /\ charge' = charge /\ fetched' = fetched BY <1>25 DEF BuildEngine,
      LegActive, SetLeg, ReleaseLease, OnlyLegs
  <2> QED BY <2>1, BudgetSame
<1>26. ASSUME NEW c \in Calls, NEW i \in DOMAIN legs[c], Recognized(c, i) PROVE BudgetKept'
  <2>1. used' = used /\ charge' = charge /\ fetched' = fetched BY <1>26 DEF Recognized,
      LegActive, SetLeg, ReleaseLease, OnlyLegs
  <2> QED BY <2>1, BudgetSame
<1>27. ASSUME NEW w \in Workers, WorkerWait(w) PROVE BudgetKept'
  <2>1. used' = used /\ charge' = charge /\ fetched' = fetched BY <1>27 DEF WorkerWait, Free
  <2> QED BY <2>1, BudgetSame
<1>28. ASSUME NEW w \in Workers, WorkerTake(w) PROVE BudgetKept'
  <2>1. used' = used /\ charge' = charge /\ fetched' = fetched BY <1>28 DEF WorkerTake, Free, Go
  <2> QED BY <2>1, BudgetSame
<1>29. ASSUME NEW w \in Workers, WorkerDone(w) PROVE BudgetKept'
  <2> DEFINE c == running[w]
  <2>1. /\ used' = used - TakenBack(c) /\ fetched' = fetched
        /\ charge' = [charge EXCEPT ![c] = charge[c] - TakenBack(c)]
    BY <1>29, HeldTypes DEF WorkerDone
  <2>2. c \in Calls BY <1>29 DEF WorkerDone
  <2> HIDE DEF c
  <2> QED
    <3>1. used' <= BudgetLimit
      <4>1. used' <= used /\ used \in Int /\ used' \in Int
        BY <2>1, <2>2, GivenBack, TakeAndGive
      <4> QED BY <4>1, Limits DEF BudgetKept
    <3>2. fetched' = [fetched EXCEPT ![c] = fetched[c]] BY <2>1, <2>2, SameFunction
    <3>3. used' = used - charge[c] + (charge[c] - TakenBack(c)) - fetched[c] + fetched[c]
      <4>1. \A a \in Int : \A x, y, z \in Nat : a - x = a - y + (y - x) - z + z OBVIOUS
      <4> QED BY <2>1, <2>2, <4>1, GivenBack
    <3> QED BY <2>1, <2>2, <3>1, <3>2, <3>3, GivenBack, BudgetFrame
<1>30. CASE Stop
  <2>1. used' = used /\ charge' = charge /\ fetched' = fetched BY <1>30 DEF Stop
  <2> QED BY <2>1, BudgetSame
<1>31. CASE UNCHANGED vars
  BY <1>31, BudgetSame DEF vars
<1> QED BY StepCases, <1>1, <1>2, <1>3, <1>4, <1>5, <1>6, <1>7, <1>8, <1>9, <1>10, <1>11, <1>12,
    <1>13, <1>14, <1>15, <1>16, <1>17, <1>18, <1>19, <1>20, <1>21, <1>22, <1>23, <1>24, <1>25,
    <1>26, <1>27, <1>28, <1>29, <1>30, <1>31

\* One call more, or one fewer, that fetches.
LEMMA OneFetching ==
  ASSUME CallTypes, SlotsKept, NEW c \in Calls
  PROVE  /\ Cardinality(Fetching) \in Nat
         /\ ~slot[c] /\ slot' = [slot EXCEPT ![c] = TRUE] =>
              Cardinality(Fetching') = Cardinality(Fetching) + 1
         /\ slot[c] /\ slot' = [slot EXCEPT ![c] = FALSE] =>
              Cardinality(Fetching') = Cardinality(Fetching) - 1
<1>1. IsFiniteSet(Fetching) BY Limits, FS_Subset DEF Fetching
<1>2. Cardinality(Fetching) \in Nat BY <1>1, FS_CardinalityType
<1>3. slot \in [Calls -> BOOLEAN] BY HeldTypes
<1>4. ASSUME ~slot[c], slot' = [slot EXCEPT ![c] = TRUE]
      PROVE  Cardinality(Fetching') = Cardinality(Fetching) + 1
  <2>1. c \notin Fetching BY <1>4 DEF Fetching
  <2>2. \A d \in Calls : slot'[d] <=> d = c \/ slot[d] BY <1>3, <1>4
  <2>3. Fetching' = Fetching \cup {c} BY <2>2 DEF Fetching
  <2> QED BY <1>1, <1>2, <2>1, <2>3, FS_AddElement
<1>5. ASSUME slot[c], slot' = [slot EXCEPT ![c] = FALSE]
      PROVE  Cardinality(Fetching') = Cardinality(Fetching) - 1
  <2>1. c \in Fetching BY <1>5 DEF Fetching
  <2>2. \A d \in Calls : slot'[d] <=> d # c /\ slot[d] BY <1>3, <1>5
  <2>3. Fetching' = Fetching \ {c} BY <2>2 DEF Fetching
  <2> QED BY <1>1, <1>2, <2>1, <2>3, FS_RemoveElement
<1> QED BY <1>2, <1>4, <1>5

\* A step that leaves the slots alone.
LEMMA SlotsSame ==
  ASSUME SlotsKept, in_use' = in_use, slot' = slot
  PROVE  SlotsKept'
BY DEF SlotsKept, Fetching

\* Every slot taken is given back with the body.
LEMMA SlotsStep ==
  ASSUME CallTypes, SlotsKept, \A c \in Calls : ChargesKept(c), [Next]_vars
  PROVE  SlotsKept'
<1>1. ASSUME NEW c \in Calls, NEW r \in Requests, Call(c, r) PROVE SlotsKept'
  <2>1. in_use' = in_use /\ slot' = slot BY <1>1 DEF Call, Go
  <2> QED BY <2>1, SlotsSame
<1>2. ASSUME NEW c \in Calls, NEW r \in Requests, CallRefused(c, r) PROVE SlotsKept'
  <2>1. in_use' = in_use /\ slot' = slot BY <1>2 DEF CallRefused, Finish, Record, Go
  <2> QED BY <2>1, SlotsSame
<1>3. ASSUME NEW c \in Calls, Cancel(c) PROVE SlotsKept'
  <2>1. in_use' = in_use /\ slot' = slot BY <1>3 DEF Cancel
  <2> QED BY <2>1, SlotsSame
<1>4. ASSUME NEW c \in Calls, AdmitLoad(c) PROVE SlotsKept'
  <2>1. in_use' = in_use /\ slot' = slot BY <1>4 DEF AdmitLoad, Go
  <2> QED BY <2>1, SlotsSame
<1>5. ASSUME NEW c \in Calls, AdmitCas(c) PROVE SlotsKept'
  <2>1. in_use' = in_use /\ slot' = slot BY <1>5 DEF AdmitCas, CompareExchange, Fits, Finish,
      Record, Go
  <2> QED BY <2>1, SlotsSame
<1>6. ASSUME NEW c \in Calls, Submit(c) PROVE SlotsKept'
  <2>1. in_use' = in_use /\ slot' = slot BY <1>6 DEF Submit, TakenBack, Streamed, Finish,
      Record, Go
  <2> QED BY <2>1, SlotsSame
<1>7. ASSUME NEW c \in Calls, Dequeued(c) PROVE SlotsKept'
  <2>1. in_use' = in_use /\ slot' = slot BY <1>7 DEF Dequeued, OptionsRefused, Return, Finish,
      Record, Go
  <2> QED BY <2>1, SlotsSame
<1>8. ASSUME NEW c \in Calls, AcquireSlot(c) PROVE SlotsKept'
  <2>1. CASE in_use < FetchLimit /\ in_use' = in_use + 1 /\ slot' = [slot EXCEPT ![c] = TRUE]
    <3>1. ~slot[c] BY <1>8 DEF AcquireSlot, ChargesKept
    <3>2. Cardinality(Fetching') = Cardinality(Fetching) + 1 /\ Cardinality(Fetching) \in Nat
      BY <2>1, <3>1, OneFetching
    <3> QED BY <2>1, <3>2, Limits DEF SlotsKept
  <2>2. CASE in_use' = in_use /\ slot' = slot BY <2>2, SlotsSame
  <2> QED BY <1>8, <2>1, <2>2 DEF AcquireSlot
<1>9. ASSUME NEW c \in Calls, Fetch(c) PROVE SlotsKept'
  <2>1. CASE ReleaseSlot(c)
    <3>1. slot[c] BY <1>9 DEF Fetch, ChargesKept
    <3>2. Cardinality(Fetching') = Cardinality(Fetching) - 1 /\ Cardinality(Fetching) \in Nat
      BY <2>1, <3>1, OneFetching DEF ReleaseSlot
    <3>3. in_use' = in_use - 1 BY <2>1 DEF ReleaseSlot
    <3> QED BY <3>2, <3>3, Limits DEF SlotsKept
  <2>2. CASE in_use' = in_use /\ slot' = slot BY <2>2, SlotsSame
  <2> QED BY <1>9, <2>1, <2>2 DEF Fetch
<1>10. ASSUME NEW c \in Calls, ChargeLoad(c) PROVE SlotsKept'
  <2>1. in_use' = in_use /\ slot' = slot BY <1>10 DEF ChargeLoad, Go
  <2> QED BY <2>1, SlotsSame
<1>11. ASSUME NEW c \in Calls, ChargeCas(c) PROVE SlotsKept'
  <2>1. CASE ReleaseSlot(c)
    <3>1. slot[c] BY <1>11 DEF ChargeCas, ChargesKept
    <3>2. Cardinality(Fetching') = Cardinality(Fetching) - 1 /\ Cardinality(Fetching) \in Nat
      BY <2>1, <3>1, OneFetching DEF ReleaseSlot
    <3>3. in_use' = in_use - 1 BY <2>1 DEF ReleaseSlot
    <3> QED BY <3>2, <3>3, Limits DEF SlotsKept
  <2>2. CASE in_use' = in_use /\ slot' = slot BY <2>2, SlotsSame
  <2> QED BY <1>11, <2>1, <2>2 DEF ChargeCas
<1>12. ASSUME NEW c \in Calls, Decode(c) PROVE SlotsKept'
  <2>1. in_use' = in_use /\ slot' = slot BY <1>12 DEF Decode, Return, Go
  <2> QED BY <2>1, SlotsSame
<1>13. ASSUME NEW c \in Calls, Gather(c) PROVE SlotsKept'
  <2>1. in_use' = in_use /\ slot' = slot BY <1>13 DEF Gather, Return, Go
  <2> QED BY <2>1, SlotsSame
<1>14. ASSUME NEW c \in Calls, Finalize(c) PROVE SlotsKept'
  <2>1. in_use' = in_use /\ slot' = slot BY <1>14 DEF Finalize, Return, Go
  <2> QED BY <2>1, SlotsSame
<1>15. ASSUME NEW c \in Calls, Shape(c) PROVE SlotsKept'
  <2>1. in_use' = in_use /\ slot' = slot BY <1>15 DEF Shape, Return, Go
  <2> QED BY <2>1, SlotsSame
<1>16. ASSUME NEW c \in Calls, AcquireEngine(c) PROVE SlotsKept'
  <2>1. in_use' = in_use /\ slot' = slot BY <1>16 DEF AcquireEngine, Return, Go
  <2> QED BY <2>1, SlotsSame
<1>17. ASSUME NEW c \in Calls, Infer(c) PROVE SlotsKept'
  <2>1. in_use' = in_use /\ slot' = slot BY <1>17 DEF Infer, Return, Go
  <2> QED BY <2>1, SlotsSame
<1>18. ASSUME NEW c \in Calls, Returned(c) PROVE SlotsKept'
  <2>1. in_use' = in_use /\ slot' = slot BY <1>18 DEF Returned, Streamed, Record, Completion,
      DropParse, Go
  <2> QED BY <2>1, SlotsSame
<1>19. ASSUME NEW c \in Calls, WriteDone(c) PROVE SlotsKept'
  <2>1. in_use' = in_use /\ slot' = slot BY <1>19 DEF WriteDone, Finish, Go
  <2> QED BY <2>1, SlotsSame
<1>20. ASSUME NEW c \in Calls, OnDone(c) PROVE SlotsKept'
  <2>1. in_use' = in_use /\ slot' = slot BY <1>20 DEF OnDone, Streamed, Go
  <2> QED BY <2>1, SlotsSame
<1>21. ASSUME NEW c \in Calls, NEW i \in DOMAIN legs[c], LegStart(c, i) PROVE SlotsKept'
  <2>1. in_use' = in_use /\ slot' = slot BY <1>21 DEF LegStart, LegActive, SetLeg, OnlyLegs
  <2> QED BY <2>1, SlotsSame
<1>22. ASSUME NEW c \in Calls, NEW i \in DOMAIN legs[c], LegAnswer(c, i) PROVE SlotsKept'
  <2>1. in_use' = in_use /\ slot' = slot BY <1>22 DEF LegAnswer, LegActive, SetLeg, RoutePdfLeg,
      OnlyLegs
  <2> QED BY <2>1, SlotsSame
<1>23. ASSUME NEW c \in Calls, NEW i \in DOMAIN legs[c], AcquireLease(c, i) PROVE SlotsKept'
  <2>1. in_use' = in_use /\ slot' = slot BY <1>23 DEF AcquireLease, LegActive, SetLeg, OnlyLegs
  <2> QED BY <2>1, SlotsSame
<1>24. ASSUME NEW c \in Calls, NEW i \in DOMAIN legs[c], CvNotRun(c, i) PROVE SlotsKept'
  <2>1. in_use' = in_use /\ slot' = slot BY <1>24 DEF CvNotRun, LegActive, SetLeg, OnlyLegs
  <2> QED BY <2>1, SlotsSame
<1>25. ASSUME NEW c \in Calls, NEW i \in DOMAIN legs[c], BuildEngine(c, i) PROVE SlotsKept'
  <2>1. in_use' = in_use /\ slot' = slot BY <1>25 DEF BuildEngine, LegActive, SetLeg,
      ReleaseLease, OnlyLegs
  <2> QED BY <2>1, SlotsSame
<1>26. ASSUME NEW c \in Calls, NEW i \in DOMAIN legs[c], Recognized(c, i) PROVE SlotsKept'
  <2>1. in_use' = in_use /\ slot' = slot BY <1>26 DEF Recognized, LegActive, SetLeg,
      ReleaseLease, OnlyLegs
  <2> QED BY <2>1, SlotsSame
<1>27. ASSUME NEW w \in Workers, WorkerWait(w) PROVE SlotsKept'
  <2>1. in_use' = in_use /\ slot' = slot BY <1>27 DEF WorkerWait, Free
  <2> QED BY <2>1, SlotsSame
<1>28. ASSUME NEW w \in Workers, WorkerTake(w) PROVE SlotsKept'
  <2>1. in_use' = in_use /\ slot' = slot BY <1>28 DEF WorkerTake, Free, Go
  <2> QED BY <2>1, SlotsSame
<1>29. ASSUME NEW w \in Workers, WorkerDone(w) PROVE SlotsKept'
  <2>1. in_use' = in_use /\ slot' = slot BY <1>29 DEF WorkerDone, TakenBack, Streamed
  <2> QED BY <2>1, SlotsSame
<1>30. CASE Stop
  <2>1. in_use' = in_use /\ slot' = slot BY <1>30 DEF Stop
  <2> QED BY <2>1, SlotsSame
<1>31. CASE UNCHANGED vars
  BY <1>31, SlotsSame DEF vars
<1> QED BY StepCases, <1>1, <1>2, <1>3, <1>4, <1>5, <1>6, <1>7, <1>8, <1>9, <1>10, <1>11, <1>12,
    <1>13, <1>14, <1>15, <1>16, <1>17, <1>18, <1>19, <1>20, <1>21, <1>22, <1>23, <1>24, <1>25,
    <1>26, <1>27, <1>28, <1>29, <1>30, <1>31

\* One lease more, or one fewer.
LEMMA OneLeased ==
  ASSUME CallTypes, NEW c \in Calls
  PROVE  /\ Cardinality(Leased) \in Nat
         /\ \A p \in 1..PoolSize : lease[c] = 0 /\ lease' = [lease EXCEPT ![c] = p] =>
              Cardinality(Leased') = Cardinality(Leased) + 1
         /\ lease[c] # 0 /\ lease' = [lease EXCEPT ![c] = 0] =>
              Cardinality(Leased') = Cardinality(Leased) - 1
<1>1. IsFiniteSet(Leased) BY Limits, FS_Subset DEF Leased
<1>2. Cardinality(Leased) \in Nat BY <1>1, FS_CardinalityType
<1>3. lease \in [Calls -> 0..PoolSize] BY LegTypes
<1>4. ASSUME NEW p \in 1..PoolSize, lease[c] = 0, lease' = [lease EXCEPT ![c] = p]
      PROVE  Cardinality(Leased') = Cardinality(Leased) + 1
  <2>1. c \notin Leased BY <1>4 DEF Leased
  <2>2. p # 0 BY Limits
  <2>3. \A d \in Calls : lease'[d] # 0 <=> d = c \/ lease[d] # 0 BY <1>3, <1>4, <2>2
  <2>4. Leased' = Leased \cup {c} BY <2>3 DEF Leased
  <2> QED BY <1>1, <1>2, <2>1, <2>4, FS_AddElement
<1>5. ASSUME lease[c] # 0, lease' = [lease EXCEPT ![c] = 0]
      PROVE  Cardinality(Leased') = Cardinality(Leased) - 1
  <2>1. c \in Leased BY <1>5 DEF Leased
  <2>2. \A d \in Calls : lease'[d] # 0 <=> d # c /\ lease[d] # 0 BY <1>3, <1>5
  <2>3. Leased' = Leased \ {c} BY <2>2 DEF Leased
  <2> QED BY <1>1, <1>2, <2>1, <2>3, FS_RemoveElement
<1> QED BY <1>2, <1>4, <1>5

\* A lease taken off the free stack by a call that had none.
LEMMA TakeEngine ==
  ASSUME CallTypes, PoolKept, NEW c \in Calls, lease[c] = 0, free_slots # <<>>,
         lease' = [lease EXCEPT ![c] = Last(free_slots)], free_slots' = Front(free_slots)
  PROVE  PoolKept'
<1> DEFINE n == Len(free_slots)
<1>1. free_slots \in Seq(1..PoolSize) /\ lease \in [Calls -> 0..PoolSize] BY DEF CallTypes, TypeOK
<1>2. /\ n \in Nat \ {0} /\ Last(free_slots) \in 1..PoolSize /\ Last(free_slots) = free_slots[n]
      /\ free_slots' \in Seq(1..PoolSize) /\ Len(free_slots') = n - 1
      /\ \A k \in 1..(n - 1) : free_slots'[k] = free_slots[k]
  <2>1. n \in Nat \ {0} /\ Last(free_slots) \in 1..PoolSize /\ Last(free_slots) = free_slots[n]
    BY <1>1, LastOfSlots
  <2>2. /\ Front(free_slots) \in Seq(1..PoolSize) /\ Len(Front(free_slots)) = n - 1
        /\ \A k \in 1..(n - 1) : Front(free_slots)[k] = free_slots[k]
    BY <1>1, LastOfSlots
  <2> QED BY <2>1, <2>2
<1>3. DOMAIN free_slots = 1..n /\ DOMAIN free_slots' = 1..(n - 1) BY <1>1, <1>2
<1>4. Cardinality(Leased') = Cardinality(Leased) + 1 /\ Cardinality(Leased) \in Nat
  BY <1>2, OneLeased
<1>5. ASSUME NEW p \in 1..PoolSize
      PROVE  (\E k \in DOMAIN free_slots' : free_slots'[k] = p) \/ \E d \in Calls : lease'[d] = p
  <2>1. CASE \E k \in DOMAIN free_slots : free_slots[k] = p
    <3>1. PICK k \in DOMAIN free_slots : free_slots[k] = p BY <2>1
    <3>2. CASE k = n BY <1>1, <1>2, <3>1, <3>2
    <3>3. CASE k # n
      <4>1. k \in 1..(n - 1) BY <1>2, <1>3, <3>3
      <4> QED BY <1>2, <1>3, <3>1, <4>1
    <3> QED BY <3>2, <3>3
  <2>2. CASE \E d \in Calls : lease[d] = p
    <3>1. PICK d \in Calls : lease[d] = p BY <2>2
    <3>2. p # 0 BY Limits
    <3>3. d # c BY <3>1, <3>2
    <3>4. lease'[d] = p BY <1>1, <3>1, <3>3
    <3> QED BY <3>4
  <2> QED BY <2>1, <2>2 DEF PoolKept
<1>6. Len(free_slots') + Cardinality(Leased') = PoolSize
  <2>1. n + Cardinality(Leased) = PoolSize BY DEF PoolKept
  <2> HIDE DEF n
  <2> QED BY <1>2, <1>4, <2>1
<1> QED BY <1>5, <1>6 DEF PoolKept

\* A lease given back to the free stack.
LEMMA GiveEngine ==
  ASSUME CallTypes, PoolKept, NEW c \in Calls, lease[c] # 0, ReleaseLease(c)
  PROVE  PoolKept'
<1> DEFINE n == Len(free_slots)
<1>1. free_slots \in Seq(1..PoolSize) /\ lease \in [Calls -> 0..PoolSize] BY DEF CallTypes, TypeOK
<1>2. lease[c] \in 1..PoolSize BY <1>1, Limits
<1>3. /\ n \in Nat /\ free_slots' = Append(free_slots, lease[c]) /\ lease' = [lease EXCEPT ![c] = 0]
  BY <1>1 DEF ReleaseLease
<1>4. /\ Len(free_slots') = n + 1 /\ DOMAIN free_slots' = 1..(n + 1) /\ DOMAIN free_slots = 1..n
      /\ free_slots'[n + 1] = lease[c] /\ \A k \in 1..n : free_slots'[k] = free_slots[k]
  BY <1>1, <1>2, <1>3
<1>5. n + 1 \in 1..(n + 1) /\ \A k \in 1..n : k \in 1..(n + 1) BY <1>3
<1>6. Cardinality(Leased') = Cardinality(Leased) - 1 /\ Cardinality(Leased) \in Nat
  BY <1>3, OneLeased
<1>7. ASSUME NEW p \in 1..PoolSize
      PROVE  (\E k \in DOMAIN free_slots' : free_slots'[k] = p) \/ \E d \in Calls : lease'[d] = p
  <2>1. CASE \E k \in DOMAIN free_slots : free_slots[k] = p BY <1>4, <1>5, <2>1
  <2>2. CASE \E d \in Calls : lease[d] = p
    <3>1. PICK d \in Calls : lease[d] = p BY <2>2
    <3>2. CASE d = c BY <1>4, <1>5, <3>1, <3>2
    <3>3. CASE d # c
      <4>1. lease'[d] = p BY <1>1, <1>3, <3>1, <3>3
      <4> QED BY <4>1
    <3> QED BY <3>2, <3>3
  <2> QED BY <2>1, <2>2 DEF PoolKept
<1>8. Len(free_slots') + Cardinality(Leased') = PoolSize
  <2>1. n + Cardinality(Leased) = PoolSize BY DEF PoolKept
  <2> HIDE DEF n
  <2> QED BY <1>3, <1>4, <1>6, <2>1
<1> QED BY <1>7, <1>8 DEF PoolKept

\* A step that leaves the pool alone.
LEMMA PoolSame ==
  ASSUME PoolKept, free_slots' = free_slots, lease' = lease
  PROVE  PoolKept'
BY DEF PoolKept, Leased

\* Every engine leased is given back, whatever became of it.
LEMMA PoolStep ==
  ASSUME CallTypes, PoolKept, \A c \in Calls : LegsKept(c), [Next]_vars
  PROVE  PoolKept'
<1>1. ASSUME NEW c \in Calls, NEW r \in Requests, Call(c, r) PROVE PoolKept'
  <2>1. free_slots' = free_slots /\ lease' = lease BY <1>1 DEF Call, Go
  <2> QED BY <2>1, PoolSame
<1>2. ASSUME NEW c \in Calls, NEW r \in Requests, CallRefused(c, r) PROVE PoolKept'
  <2>1. free_slots' = free_slots /\ lease' = lease BY <1>2 DEF CallRefused, Finish, Record, Go
  <2> QED BY <2>1, PoolSame
<1>3. ASSUME NEW c \in Calls, Cancel(c) PROVE PoolKept'
  <2>1. free_slots' = free_slots /\ lease' = lease BY <1>3 DEF Cancel
  <2> QED BY <2>1, PoolSame
<1>4. ASSUME NEW c \in Calls, AdmitLoad(c) PROVE PoolKept'
  <2>1. free_slots' = free_slots /\ lease' = lease BY <1>4 DEF AdmitLoad, Go
  <2> QED BY <2>1, PoolSame
<1>5. ASSUME NEW c \in Calls, AdmitCas(c) PROVE PoolKept'
  <2>1. free_slots' = free_slots /\ lease' = lease BY <1>5 DEF AdmitCas, CompareExchange, Fits,
      Finish, Record, Go
  <2> QED BY <2>1, PoolSame
<1>6. ASSUME NEW c \in Calls, Submit(c) PROVE PoolKept'
  <2>1. free_slots' = free_slots /\ lease' = lease BY <1>6 DEF Submit, TakenBack, Streamed,
      Finish, Record, Go
  <2> QED BY <2>1, PoolSame
<1>7. ASSUME NEW c \in Calls, Dequeued(c) PROVE PoolKept'
  <2>1. free_slots' = free_slots /\ lease' = lease BY <1>7 DEF Dequeued, OptionsRefused, Return,
      Finish, Record, Go
  <2> QED BY <2>1, PoolSame
<1>8. ASSUME NEW c \in Calls, AcquireSlot(c) PROVE PoolKept'
  <2>1. free_slots' = free_slots /\ lease' = lease BY <1>8 DEF AcquireSlot, Return, Go
  <2> QED BY <2>1, PoolSame
<1>9. ASSUME NEW c \in Calls, Fetch(c) PROVE PoolKept'
  <2>1. free_slots' = free_slots /\ lease' = lease BY <1>9 DEF Fetch, ReleaseSlot, Return, Go
  <2> QED BY <2>1, PoolSame
<1>10. ASSUME NEW c \in Calls, ChargeLoad(c) PROVE PoolKept'
  <2>1. free_slots' = free_slots /\ lease' = lease BY <1>10 DEF ChargeLoad, Go
  <2> QED BY <2>1, PoolSame
<1>11. ASSUME NEW c \in Calls, ChargeCas(c) PROVE PoolKept'
  <2>1. free_slots' = free_slots /\ lease' = lease BY <1>11 DEF ChargeCas, CompareExchange,
      Fits, ReleaseSlot, Return, Go
  <2> QED BY <2>1, PoolSame
<1>12. ASSUME NEW c \in Calls, Decode(c) PROVE PoolKept'
  <2>1. free_slots' = free_slots /\ lease' = lease BY <1>12 DEF Decode, Return, Go
  <2> QED BY <2>1, PoolSame
<1>13. ASSUME NEW c \in Calls, Gather(c) PROVE PoolKept'
  <2>1. free_slots' = free_slots /\ lease' = lease BY <1>13 DEF Gather, Return, Go
  <2> QED BY <2>1, PoolSame
<1>14. ASSUME NEW c \in Calls, Finalize(c) PROVE PoolKept'
  <2>1. free_slots' = free_slots /\ lease' = lease BY <1>14 DEF Finalize, Return, Go
  <2> QED BY <2>1, PoolSame
<1>15. ASSUME NEW c \in Calls, Shape(c) PROVE PoolKept'
  <2>1. free_slots' = free_slots /\ lease' = lease BY <1>15 DEF Shape, Return, Go
  <2> QED BY <2>1, PoolSame
<1>16. ASSUME NEW c \in Calls, AcquireEngine(c) PROVE PoolKept'
  <2>1. free_slots' = free_slots /\ lease' = lease BY <1>16 DEF AcquireEngine, Return, Go
  <2> QED BY <2>1, PoolSame
<1>17. ASSUME NEW c \in Calls, Infer(c) PROVE PoolKept'
  <2>1. free_slots' = free_slots /\ lease' = lease BY <1>17 DEF Infer, Return, Go
  <2> QED BY <2>1, PoolSame
<1>18. ASSUME NEW c \in Calls, Returned(c) PROVE PoolKept'
  <2>1. free_slots' = free_slots /\ lease' = lease BY <1>18 DEF Returned, Streamed, Record,
      Completion, DropParse, Go
  <2> QED BY <2>1, PoolSame
<1>19. ASSUME NEW c \in Calls, WriteDone(c) PROVE PoolKept'
  <2>1. free_slots' = free_slots /\ lease' = lease BY <1>19 DEF WriteDone, Finish, Go
  <2> QED BY <2>1, PoolSame
<1>20. ASSUME NEW c \in Calls, OnDone(c) PROVE PoolKept'
  <2>1. free_slots' = free_slots /\ lease' = lease BY <1>20 DEF OnDone, Streamed, Go
  <2> QED BY <2>1, PoolSame
<1>21. ASSUME NEW c \in Calls, NEW i \in DOMAIN legs[c], LegStart(c, i) PROVE PoolKept'
  <2>1. free_slots' = free_slots /\ lease' = lease BY <1>21 DEF LegStart, LegActive, SetLeg,
      OnlyLegs
  <2> QED BY <2>1, PoolSame
<1>22. ASSUME NEW c \in Calls, NEW i \in DOMAIN legs[c], LegAnswer(c, i) PROVE PoolKept'
  <2>1. free_slots' = free_slots /\ lease' = lease BY <1>22 DEF LegAnswer, LegActive, SetLeg,
      RoutePdfLeg, OnlyLegs
  <2> QED BY <2>1, PoolSame
<1>23. ASSUME NEW c \in Calls, NEW i \in DOMAIN legs[c], AcquireLease(c, i) PROVE PoolKept'
  <2>1. /\ pc[c] = "legs" /\ legs[c][i] = "cv" /\ free_slots # <<>>
        /\ lease' = [lease EXCEPT ![c] = Last(free_slots)] /\ free_slots' = Front(free_slots)
    BY <1>23 DEF AcquireLease, LegActive
  <2>2. lease[c] = 0 BY <2>1, LeaseOfOne DEF CvStates
  <2> QED BY <2>1, <2>2, TakeEngine
<1>24. ASSUME NEW c \in Calls, NEW i \in DOMAIN legs[c], CvNotRun(c, i) PROVE PoolKept'
  <2>1. free_slots' = free_slots /\ lease' = lease BY <1>24 DEF CvNotRun, LegActive, SetLeg,
      OnlyLegs
  <2> QED BY <2>1, PoolSame
<1>25. ASSUME NEW c \in Calls, NEW i \in DOMAIN legs[c], BuildEngine(c, i) PROVE PoolKept'
  <2>1. CASE ReleaseLease(c)
    <3>1. legs[c][i] \in {"leased", "recognizing"} BY <1>25 DEF BuildEngine
    <3>2. lease[c] # 0 BY <3>1 DEF LegsKept
    <3> QED BY <2>1, <3>2, GiveEngine
  <2>2. CASE free_slots' = free_slots /\ lease' = lease BY <2>2, PoolSame
  <2> QED BY <1>25, <2>1, <2>2 DEF BuildEngine
<1>26. ASSUME NEW c \in Calls, NEW i \in DOMAIN legs[c], Recognized(c, i) PROVE PoolKept'
  <2>1. CASE ReleaseLease(c)
    <3>1. legs[c][i] \in {"leased", "recognizing"} BY <1>26 DEF Recognized
    <3>2. lease[c] # 0 BY <3>1 DEF LegsKept
    <3> QED BY <2>1, <3>2, GiveEngine
  <2>2. CASE free_slots' = free_slots /\ lease' = lease BY <2>2, PoolSame
  <2> QED BY <1>26, <2>1, <2>2 DEF Recognized
<1>27. ASSUME NEW w \in Workers, WorkerWait(w) PROVE PoolKept'
  <2>1. free_slots' = free_slots /\ lease' = lease BY <1>27 DEF WorkerWait, Free
  <2> QED BY <2>1, PoolSame
<1>28. ASSUME NEW w \in Workers, WorkerTake(w) PROVE PoolKept'
  <2>1. free_slots' = free_slots /\ lease' = lease BY <1>28 DEF WorkerTake, Free, Go
  <2> QED BY <2>1, PoolSame
<1>29. ASSUME NEW w \in Workers, WorkerDone(w) PROVE PoolKept'
  <2>1. free_slots' = free_slots /\ lease' = lease BY <1>29 DEF WorkerDone, TakenBack, Streamed
  <2> QED BY <2>1, PoolSame
<1>30. CASE Stop
  <2>1. free_slots' = free_slots /\ lease' = lease BY <1>30 DEF Stop
  <2> QED BY <2>1, PoolSame
<1>31. CASE UNCHANGED vars
  BY <1>31, PoolSame DEF vars
<1> QED BY StepCases, <1>1, <1>2, <1>3, <1>4, <1>5, <1>6, <1>7, <1>8, <1>9, <1>10, <1>11, <1>12,
    <1>13, <1>14, <1>15, <1>16, <1>17, <1>18, <1>19, <1>20, <1>21, <1>22, <1>23, <1>24, <1>25,
    <1>26, <1>27, <1>28, <1>29, <1>30, <1>31

\* The items of a sequence over a set are in it.
LEMMA SeqHolds ==
  ASSUME NEW S, NEW q \in Seq(S)
  PROVE  \A k \in DOMAIN q : q[k] \in S
OBVIOUS

----------------------------------------------------------------------------
\* The inductive invariant.
CallInv ==
  /\ CallTypes /\ QueueKept /\ BudgetKept /\ SlotsKept /\ PoolKept
  /\ \A c \in Calls : AnswerKept(c) /\ LegsKept(c) /\ PlanKept(c) /\ RowsKept(c) /\ ChargesKept(c)

\* A server without calls holds nothing for any.
LEMMA InvInit == Init => CallInv
<1> SUFFICES ASSUME Init PROVE CallInv OBVIOUS
<1>1. CallTypes
  <2>1. \A i \in 1..PoolSize : PoolSize + 1 - i \in 1..PoolSize BY Limits
  <2>2. free_slots \in Seq(1..PoolSize) BY <2>1, Limits DEF Init
  <2>3. DOMAIN <<>> = {} OBVIOUS
  <2>4. ExecutorTypes
    <3>0. tasks = <<>> /\ sleeping = {} /\ stopping = FALSE BY DEF Init
    <3>a. <<>> \in Seq(Calls) OBVIOUS
    <3>b. tasks \in Seq(Calls) BY <3>0, <3>a
    <3>c. sleeping \subseteq Workers BY <3>0
    <3>d. stopping \in BOOLEAN BY <3>0
    <3>1. tasks \in Seq(Calls) /\ sleeping \subseteq Workers /\ stopping \in BOOLEAN BY <3>b, <3>c, <3>d
    <3>2. running = [w \in Workers |-> NoCall] BY DEF Init
    <3>3. running \in [Workers -> Calls \cup {NoCall, "exited"}] BY <3>2
    <3> QED BY <3>1, <3>3 DEF ExecutorTypes
  <2>5. PoolTypes BY <2>2, Limits DEF Init, PoolTypes
  <2>6. BytesTypes /\ ChargeTypes /\ InUseType /\ SlotTypes
    BY DEF Init, BytesTypes, ChargeTypes, InUseType, SlotTypes
  <2>7. PlaceTypes BY DEF Init, PlaceTypes, PCs
  <2>8. LegTypesOK BY <2>3 DEF Init, LegTypesOK
  <2>9. ParseTypes BY DEF Init, ParseTypes
  <2>10. StatusType /\ RecordedType /\ FinishedType BY DEF Init, StatusType, RecordedType, FinishedType, Codes
  <2>11. NextType BY ParseAssumption DEF Init, NextType, ParseAssumption
  <2> QED BY <2>4, <2>5, <2>6, <2>7, <2>8, <2>9, <2>10, <2>11, TypeGroups
<1>2. QueueKept BY ParseAssumption DEF Init, QueueKept, ParseAssumption
<1>3. BudgetKept
  <2>1. Charged = {} /\ Billed = {} BY DEF Init, Charged, Billed
  <2>2. RequestBytes * 0 = 0 /\ FetchedBytes * 0 = 0 /\ 0 <= BudgetLimit BY Limits
  <2> QED BY <2>1, <2>2, FS_EmptySet DEF Init, BudgetKept
<1>4. SlotsKept
  <2>1. Fetching = {} BY DEF Init, Fetching
  <2> QED BY <2>1, Limits, FS_EmptySet DEF Init, SlotsKept
<1>5. PoolKept
  <2>1. Leased = {} BY DEF Init, Leased
  <2>2. free_slots = [i \in 1..PoolSize |-> PoolSize + 1 - i] BY DEF Init
  <2>3. Len(free_slots) = PoolSize /\ DOMAIN free_slots = 1..PoolSize BY <2>2, Limits
  <2>4. ASSUME NEW p \in 1..PoolSize PROVE \E k \in DOMAIN free_slots : free_slots[k] = p
    <3>1. PoolSize + 1 - p \in 1..PoolSize /\ PoolSize + 1 - (PoolSize + 1 - p) = p BY Limits
    <3>2. free_slots[PoolSize + 1 - p] = p BY <2>2, <3>1
    <3> QED BY <2>3, <3>1, <3>2
  <2>5. PoolSize + 0 = PoolSize BY Limits
  <2> QED BY <2>1, <2>3, <2>4, <2>5, FS_EmptySet DEF PoolKept
<1>6. ASSUME NEW c \in Calls
      PROVE  AnswerKept(c) /\ LegsKept(c) /\ PlanKept(c) /\ RowsKept(c) /\ ChargesKept(c)
  <2>1. /\ pc[c] = "idle" /\ finished[c] = 0 /\ recorded[c] = <<>> /\ ~collectors_ran[c]
        /\ legs[c] = <<>> /\ lease[c] = 0 /\ ~cv_rows[c] /\ doc[c] = <<>> /\ ~overlaid[c]
        /\ charge[c] = 0 /\ fetched[c] = 0 /\ ~slot[c] /\ ~body[c]
    BY DEF Init
  <2>2. DOMAIN legs[c] = {} /\ DOMAIN doc[c] = {} BY <2>1
  <2>3. AnswerKept(c) BY <2>1 DEF AnswerKept
  <2>4. LegsKept(c) BY <2>1, <2>2 DEF LegsKept
  <2>5. PlanKept(c) BY <2>1 DEF PlanKept, HasDocument
  <2>6. RowsKept(c) BY <2>1, <2>2 DEF RowsKept
  <2>7. ChargesKept(c) BY <2>1 DEF ChargesKept
  <2> QED BY <2>3, <2>4, <2>5, <2>6, <2>7
<1> QED BY <1>1, <1>2, <1>3, <1>4, <1>5, <1>6 DEF CallInv

\* Every step of a call, a worker or the server keeps the invariant.
LEMMA InvStep == CallInv /\ [Next]_vars => CallInv'
<1> SUFFICES ASSUME CallInv, [Next]_vars PROVE CallInv' OBVIOUS
<1>1. CallTypes' BY TypeStep DEF CallInv
<1>2. QueueKept' BY QueueStep DEF CallInv
<1>3. BudgetKept' BY BudgetStep DEF CallInv
<1>4. SlotsKept' BY SlotsStep DEF CallInv
<1>5. PoolKept' BY PoolStep DEF CallInv
<1>6. ASSUME NEW c \in Calls
      PROVE  (AnswerKept(c) /\ LegsKept(c) /\ PlanKept(c) /\ RowsKept(c) /\ ChargesKept(c))'
  <2>1. AnswerKept(c)' BY AnswerStep DEF CallInv
  <2>2. LegsKept(c)' BY LegsStep DEF CallInv
  <2>3. PlanKept(c)' BY PlanStep DEF CallInv
  <2>4. RowsKept(c)' BY RowsStep DEF CallInv
  <2>5. ChargesKept(c)' BY ChargesStep DEF CallInv
  <2> QED BY <2>1, <2>2, <2>3, <2>4, <2>5
<1> QED BY <1>1, <1>2, <1>3, <1>4, <1>5, <1>6 DEF CallInv

\* Every reachable state of the conversion calls satisfies the inductive
\* invariant: types, queue, budget, slots and pool, and for each call its answer,
\* legs, plan, rows and charges.
THEOREM CallInvKept == Spec => []CallInv
BY InvInit, InvStep, PTL DEF Spec

\* TypeOK: every variable keeps its type in every reachable state.
THEOREM ParseTypeCorrect == Spec => []TypeOK
<1>1. CallInv => TypeOK BY DEF CallInv, CallTypes
<1> QED BY <1>1, CallInvKept, PTL

\* AnsweredOnce for every number of calls, workers and slots: Finish is called at
\* most once and one completion is recorded, "rejected" only if no collector
\* ran, a success only with OK.
THEOREM AnswersAlwaysOnce == Spec => []AnsweredOnce
<1>1. CallInv => AnsweredOnce
  <2> SUFFICES ASSUME CallInv, NEW c \in Calls
               PROVE  /\ finished[c] <= 1 /\ Len(recorded[c]) <= 1
                      /\ pc[c] = "finished" =>
                           /\ finished[c] = 1 /\ Len(recorded[c]) = 1
                           /\ recorded[c][1] = "rejected" => ~collectors_ran[c]
                           /\ status[c] = "OK" => recorded[c][1] \in {"success", "partial"}
    BY DEF AnsweredOnce
  <2>1. AnswerKept(c) BY DEF CallInv
  <2>2. finished[c] \in {0, 1} BY <2>1 DEF AnswerKept
  <2>3. Len(<<>>) = 0 /\ \A class : Len(<<class>>) = 1 /\ <<class>>[1] = class OBVIOUS
  <2>4. pc[c] = "writing" \/ pc[c] = "finished" =>
          \E class \in {"rejected", "failure", "success", "partial"} : recorded[c] = <<class>>
    BY <2>1 DEF AnswerKept, Counted
  <2>5. Len(recorded[c]) \in {0, 1} BY <2>1, <2>3, <2>4 DEF AnswerKept
  <2>6. pc[c] = "finished" =>
          /\ finished[c] = 1 /\ Len(recorded[c]) = 1
          /\ recorded[c][1] = "rejected" => ~collectors_ran[c]
          /\ status[c] = "OK" => recorded[c][1] \in {"success", "partial"}
    BY <2>1, <2>3, <2>4 DEF AnswerKept
  <2>7. \A n \in {0, 1} : n <= 1 OBVIOUS
  <2>8. finished[c] <= 1 /\ Len(recorded[c]) <= 1 BY <2>2, <2>5, <2>7
  <2> QED BY <2>6, <2>8
<1> QED BY <1>1, CallInvKept, PTL

\* DrainedBeforeExit for every number of workers: ~CallExecutor lets no worker
\* end while a call it accepted is queued.
THEOREM AlwaysDrainedBeforeExit == Spec => []DrainedBeforeExit
<1>1. CallInv => DrainedBeforeExit BY DEF CallInv, QueueKept, DrainedBeforeExit
<1> QED BY <1>1, CallInvKept, PTL

\* OverlayIsCv for every plan and failure: the offset table is labelled by CV rows
\* only when recognition is the one reading in the document.
THEOREM OverlayAlwaysCv == Spec => []OverlayIsCv
<1>1. CallInv => OverlayIsCv BY DEF CallInv, RowsKept, OverlayIsCv
<1> QED BY <1>1, CallInvKept, PTL

\* OKCarriesPlan for every selection of collectors: an OK conversion holds the
\* reading or the failure of each leg, in plan order, one body of a routed
\* workbook, and no model's reading under NATIVE.
THEOREM OKAlwaysCarriesPlan == Spec => []OKCarriesPlan
<1>1. ASSUME CallInv, NEW c \in Calls, pc[c] \in {"writing", "finished"}, status[c] = "OK"
      PROVE  LET merged == {doc[c][k].by : k \in DOMAIN doc[c]}
                 bodies == {k \in DOMAIN doc[c] : doc[c][k].body}
             IN  /\ merged \cup failures[c] = Range(Plan(c))
                 /\ merged \cap failures[c] = {}
                 /\ \A k \in DOMAIN doc[c] : k \in DOMAIN Plan(c) /\ doc[c][k].by = Plan(c)[k]
                 /\ bodies # {}
                 /\ Fanout(request[c]) => Cardinality(bodies) = 1
                 /\ failures[c] # {} => partial[c]
                 /\ Native(c) => \A k \in DOMAIN doc[c] : ~doc[c][k].cv
  <2> DEFINE merged == {doc[c][k].by : k \in DOMAIN doc[c]}
             bodies == {k \in DOMAIN doc[c] : doc[c][k].body}
  <2>1. /\ DOMAIN doc[c] \subseteq DOMAIN Plan(c) /\ DOMAIN doc[c] # {}
        /\ failures[c] = {Plan(c)[i] : i \in DOMAIN Plan(c) \ DOMAIN doc[c]}
        /\ \A k \in DOMAIN doc[c] :
             /\ doc[c][k].by = Plan(c)[k] /\ (Native(c) => ~doc[c][k].cv)
             /\ doc[c][k].body <=> ~(/\ Fanout(request[c]) /\ Plan(c)[k] = "calamine"
                                     /\ \E j \in DOMAIN doc[c] : j < k)
        /\ failures[c] # {} => partial[c]
    BY <1>1 DEF CallInv, PlanKept, HasDocument
  <2>2. /\ \A i, j \in DOMAIN Plan(c) : Plan(c)[i] = Plan(c)[j] => i = j
        /\ Fanout(request[c]) => /\ DOMAIN Plan(c) \subseteq {1, 2} /\ Plan(c)[1] # "calamine"
                                 /\ 2 \in DOMAIN Plan(c) => Plan(c)[2] = "calamine"
    BY <1>1, RequestTyped, PlanPlaces DEF CallInv, Plan
  <2>3. merged = {Plan(c)[k] : k \in DOMAIN doc[c]} BY <2>1
  <2>4. merged \cup failures[c] = Range(Plan(c)) BY <2>1, <2>3 DEF Range
  <2>5. merged \cap failures[c] = {} BY <2>1, <2>2, <2>3
  <2>6. ~Fanout(request[c]) => bodies # {} BY <2>1
  <2>7. Fanout(request[c]) => bodies = {1} \/ bodies = {2}
    <3>1. SUFFICES ASSUME Fanout(request[c]) PROVE bodies = {1} \/ bodies = {2} OBVIOUS
    <3>2. DOMAIN doc[c] \subseteq {1, 2} BY <2>1, <2>2, <3>1
    <3>3. CASE 1 \in DOMAIN doc[c]
      <4>1. doc[c][1].body BY <2>1, <2>2, <3>1, <3>3
      <4>2. 2 \in DOMAIN doc[c] => ~doc[c][2].body
        <5>1. 1 < 2 OBVIOUS
        <5> QED BY <2>1, <2>2, <3>1, <3>3, <5>1
      <4> QED BY <3>2, <3>3, <4>1, <4>2
    <3>4. CASE 1 \notin DOMAIN doc[c]
      <4>1. DOMAIN doc[c] = {2} BY <2>1, <3>2, <3>4
      <4>2. ~\E j \in DOMAIN doc[c] : j < 2 BY <4>1
      <4>3. doc[c][2].body BY <2>1, <4>1, <4>2
      <4> QED BY <4>1, <4>3
    <3> QED BY <3>3, <3>4
  <2>8. Fanout(request[c]) => Cardinality(bodies) = 1 BY <2>7, FS_Singleton
  <2>9. bodies # {} BY <2>6, <2>7
  <2> QED BY <2>1, <2>4, <2>5, <2>8, <2>9
<1>2. CallInv => OKCarriesPlan BY <1>1 DEF OKCarriesPlan
<1> QED BY <1>2, CallInvKept, PTL

\* ResourcesConserved for every number of calls, slots and engines and every size
\* of a charge: on each exit path the budget, the fetch slots and the engines are
\* exactly what the calls under way hold.
THEOREM ResourcesAlwaysConserved == Spec => []ResourcesConserved
<1>1. ASSUME CallInv PROVE ResourcesConserved
  <2>1. /\ used = RequestBytes * Cardinality({c \in Calls : charge[c] # 0})
                  + FetchedBytes * Cardinality({c \in Calls : fetched[c] # 0})
        /\ used <= BudgetLimit
    BY <1>1 DEF CallInv, BudgetKept, Charged, Billed
  <2>2. in_use = Cardinality({c \in Calls : slot[c]}) /\ in_use <= FetchLimit
    BY <1>1 DEF CallInv, SlotsKept, Fetching
  <2>3. \A c \in Calls : /\ body[c] => slot[c]
                         /\ slot[c] => pc[c] \in {"fetch", "charge", "charge_cas"}
    BY <1>1 DEF CallInv, ChargesKept
  <2> DEFINE leases == {lease[c] : c \in Leased}
  <2>4. Range(free_slots) \cup leases = 1..PoolSize
    <3>1. free_slots \in Seq(1..PoolSize) /\ lease \in [Calls -> 0..PoolSize]
      BY <1>1 DEF CallInv, CallTypes, TypeOK
    <3>2. \A k \in DOMAIN free_slots : free_slots[k] \in 1..PoolSize BY <3>1, SeqHolds
    <3>5. Range(free_slots) \subseteq 1..PoolSize BY <3>2 DEF Range
    <3>3. \A c \in Leased : lease[c] \in 1..PoolSize BY <3>1, Limits DEF Leased
    <3>4. \A p \in 1..PoolSize : p \in Range(free_slots) \/ p \in leases
      <4>1. SUFFICES ASSUME NEW p \in 1..PoolSize PROVE p \in Range(free_slots) \/ p \in leases
        OBVIOUS
      <4>2. CASE \E k \in DOMAIN free_slots : free_slots[k] = p BY <4>2 DEF Range
      <4>3. CASE \E c \in Calls : lease[c] = p
        <5>1. p # 0 BY Limits
        <5> QED BY <4>3, <5>1 DEF Leased
      <4> QED BY <1>1, <4>2, <4>3 DEF CallInv, PoolKept
    <3> QED BY <3>3, <3>4, <3>5
  <2>5. Len(free_slots) + Cardinality(Leased) = PoolSize BY <1>1 DEF CallInv, PoolKept
  <2>6. \A c \in Leased : \E i \in DOMAIN legs[c] : legs[c][i] \in {"leased", "recognizing"}
    BY <1>1 DEF CallInv, LegsKept, Leased
  <2> QED BY <2>1, <2>2, <2>3, <2>4, <2>5, <2>6 DEF ResourcesConserved, Leased
<1> QED BY <1>1, CallInvKept, PTL
============================================================================
