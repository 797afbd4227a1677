------------------------ MODULE DocumentStreamProofs ------------------------
(***************************************************************************)
(* What one StreamProcessDocument call keeps, for documents, windows,      *)
(* uploads and plans of every size: the in-flight charge has one owner,    *)
(* the buffer count is the credits the scheduler is owed, and a call that  *)
(* is over leaves no CV run behind.                                        *)
(***************************************************************************)
EXTENDS DocumentStream, FiniteSetTheorems, SequenceTheorems, TLAPS

USE DEF call, upload, charges, finishes, writes, pagevars, parts, folds, tickets, threads, pdfvars,
        runvars, reactor

\* What the DocumentDelivery of this call may hold.
RunTypes ==
  /\ admitted \subseteq {Run}
  /\ withdrawn \in [{Run} -> BOOLEAN] /\ failed \in [{Run} -> BOOLEAN]
  /\ announced \in [{Run} -> BOOLEAN]
  /\ lo \in [{Run} -> Pages] /\ hi \in [{Run} -> {0, DocPages}]
  /\ taken \in [{Run} -> SUBSET Pages] /\ owed \in [{Run} -> Nat]
  /\ result \in [{Run} -> {"pending", "none", "failed"}]

\* Who may owe the in-flight budget at each stage of the call: a reactor that
\* is gone owes nothing, and nothing is in the shared buffer before the
\* processing thread took the bytes.
ChargesKept ==
  /\ ChargeConserved
  /\ gone => ~read_pending
  /\ read_pending => process = "none"
  /\ process \in {"none", "resolving"} => buffer_charge = 0

\* The gate is held by the thread that is between two sections of launch() or
\* submit_cv(), and the pdf leg routes only a plan of its own.
GateKept ==
  /\ gate = "process" <=> process \in {"launch", "submit", "ticket"}
  /\ gate = "pdf" <=> leg["pdf"] \in {"submit", "ticket"}
  /\ leg["leg"] \in {"idle", "planned", "running", "done"}
  /\ leg["pdf"] \in RouteStates => plan = {"pdf"}
  /\ process \in {"none", "resolving"} =>
       /\ plan = {} /\ pending_parts = 0 /\ succeeded_parts = 0
       /\ \A c \in Legs : leg[c] = "idle"
  /\ process = "origin" => \A c \in Legs : leg[c] \in {"idle", "planned", "router"}
  /\ process \in {"submit", "ticket"} => "cv" \in plan

\* The CV run is submitted once, and its ticket is stored or about to be.
AdmissionKept ==
  /\ Run \in admitted <=> ticket_set \/ Submitted("process") \/ Submitted("pdf")
  /\ ticket_set => ~Submitted("process") /\ ~Submitted("pdf")
  /\ Run \in admitted =>
       /\ process \in {"ticket", "done"}
       /\ leg["pdf"] \in {"idle", "planned", "running", "ticket", "done"}
  /\ Run \notin admitted => result[Run] = "pending" /\ owed[Run] = 0 /\ hi[Run] = 0

\* A collector leg is a part until it lands or hands its part to the CV run.
LegOpen(c) == IF leg[c] \in {"idle", "done", "ticket"} THEN 0 ELSE 1
\* The CV part is open before it is submitted and while the run is live.
RunOpen ==
  IF ("cv" \in plan /\ process \in {"origin", "launch", "submit"}) \/ Scheduler!Live(Run)
  THEN 1 ELSE 0
PartsOpen == LegOpen("pdf") + LegOpen("leg") + RunOpen

\* pending_parts counts the open parts until the call is finished, and a call
\* finished as OK has none open.
PartsKept ==
  /\ ~finish_requested => pending_parts = PartsOpen
  /\ finish_requested /\ finish_status = "OK" => PartsOpen = 0
  /\ succeeded_parts + PartsOpen <= 3

\* A failed finish cancels the ticket as soon as there is one, and a cancelled
\* ticket has withdrawn the run it belongs to.
TicketsKept ==
  /\ finish_started => finish_requested
  /\ gone => finish_started
  /\ client_cancelled => finish_requested
  /\ ~finish_requested => finish_status = "OK"
  /\ finish_requested /\ process \in {"none", "resolving"} => finish_status # "OK"
  /\ ticket_cancelled => ticket_set /\ (Scheduler!Live(Run) => withdrawn[Run])
  /\ ticket_set /\ finish_requested /\ finish_status # "OK" => ticket_cancelled

\* A page the buffer holds was accepted from the run.
BufferKept ==
  /\ BufferMatchesCredits
  /\ completed_pages \subseteq taken[Run]

\* A page is only owed to a run whose ticket is stored.
OwedHasTicket == owed[Run] > 0 => ticket_set

\* The pdf route is alone with the document's page count.
PdfKept ==
  /\ pdf_streamed < pdf_next
  /\ process \in {"none", "resolving"} => total_pages = 0
  /\ leg["pdf"] \in RouteStates => leg["leg"] = "idle" /\ total_pages <= DocPages

StreamInv ==
  /\ TypeOK /\ RunTypes /\ ChargesKept /\ GateKept /\ AdmissionKept /\ PartsKept /\ TicketsKept
  /\ BufferKept /\ OwedHasTicket /\ PdfKept

\* A leg whose part is settled by on_collector_done(): it ran, it could not
\* be started, or the pdf route delivers.
LegLands(c, success, k, streamed) ==
  /\ \/ process = "launch" /\ leg[c] \in {"planned", "router"} /\ ~success
     \/ gate = "free" /\ leg[c] \in {"running", "deliver_ok", "deliver_failed"}
  /\ success => /\ leg[c] \in {"running", "deliver_ok"}
                /\ streamed = (leg[c] = "deliver_ok" /\ pdf_streamed > 0)
  /\ on_collector_done(c, success, k, streamed)

----------------------------------------------------------------------------
\* Every step of a call is one of these actions.
LEMMA StepCases ==
  ASSUME [Next]_vars
  PROVE  \/ \E names \in {"same", "none", "other"}, size \in {0, 1}, last \in BOOLEAN, room \in BOOLEAN :
              OnChunk(names, size, last, room)
         \/ ClientHalfClose \/ ClientCancel \/ OnReadClosed \/ OnCancel \/ OnWriteDone \/ OnWriteFailed \/
              OnDone \/ DropBuffer \/ ResolveRefused \/ ProcessLaunch \/ ProcessGone \/
              ProcessThrows \/ LaunchDone \/ PdfHeld \/ PdfLeft \/ PdfFallback \/ PdfSubmit \/
              RunOpens \/ RunFails \/ on_document
         \/ \E pl \in Plans : ResolvePlan(pl)
         \/ \E c \in Legs : LaunchLeg(c)
         \/ \E who \in {"process", "pdf"} : SubmitRun(who) \/ SubmitRefused(who) \/ SetTicket(who)
         \/ \E c \in Legs, success \in BOOLEAN, k \in Nat, streamed \in BOOLEAN : LegLands(c, success, k,
              streamed)
         \/ \E clean \in BOOLEAN : PdfSlice(clean)
         \/ \E success \in BOOLEAN, fast \in BOOLEAN : PdfEnd(success, fast)
         \/ \E p \in Pages : on_page(p) \/ PageRefused(p)
         \/ \E why \in {"none", "failed"} : on_scheduler_finish(why)
         \/ UNCHANGED vars
<1>1. CASE Client
  BY <1>1 DEF Client, ClientChunk
<1>2. CASE Reactions \/ DropBuffer
  BY <1>2 DEF Reactions
<1>3. CASE Processing
  <2>1. ASSUME NEW c \in Legs, LegNotStarted(c) PROVE LegLands(c, FALSE, 0, FALSE)
    BY <2>1 DEF LegNotStarted, LegLands
  <2> QED BY <1>3, <2>1 DEF Processing
<1>4. CASE Submission
  BY <1>4 DEF Submission
<1>5. ASSUME NEW c \in Legs, LegDone(c)
      PROVE  \E success \in BOOLEAN, k \in Nat : LegLands(c, success, k, FALSE)
  BY <1>5, StreamAssumption DEF LegDone, LegLands, StreamAssumption
<1>6. CASE PdfRoute
  <2>1. ASSUME PdfDeliver
        PROVE  \E success \in BOOLEAN, k \in Nat, streamed \in BOOLEAN :
                 LegLands("pdf", success, k, streamed)
    <3>1. (pdf_streamed > 0) \in BOOLEAN /\ DocPages \in Nat
      BY StreamAssumption DEF StreamAssumption
    <3> QED BY <2>1, <3>1 DEF PdfDeliver, LegLands
  <2> QED BY <1>6, <2>1 DEF PdfRoute, Legs
<1>7. CASE RunCalls
  BY <1>7 DEF RunCalls
<1> QED BY <1>1, <1>2, <1>3, <1>4, <1>5, <1>6, <1>7 DEF Next, Quiet

\* A charge moves from the reactor to the shared buffer in one step.
LEMMA ChargesStep ==
  ASSUME StreamInv, [Next]_vars
  PROVE  ChargesKept'
<1>1. ASSUME NEW names \in {"same", "none", "other"}, NEW size \in {0, 1}, NEW last \in BOOLEAN,
      NEW room \in BOOLEAN, OnChunk(names, size, last, room) PROVE ChargesKept'

  <2>1. CASE UNCHANGED charges BY <2>1, <1>1 DEF OnChunk, StreamInv, ChargesKept,
      ChargeConserved, CallTypeOK, TypeOK, TicketsKept, GateKept
  <2>2. CASE charged_bytes' = charged_bytes + size /\ inflight' = inflight + size
             /\ read_pending' = read_pending /\ buffer_charge' = buffer_charge
    BY <2>2, <1>1 DEF OnChunk, StreamInv, ChargesKept, ChargeConserved, CallTypeOK, TypeOK,
        TicketsKept, GateKept
  <2> QED BY <2>1, <2>2, <1>1 DEF OnChunk
<1>2. CASE ClientHalfClose
  BY <1>2 DEF ClientHalfClose, StreamInv, ChargesKept, ChargeConserved, CallTypeOK, TypeOK,
     TicketsKept, GateKept
<1>3. CASE ClientCancel
  BY <1>3 DEF ClientCancel, StreamInv, ChargesKept, ChargeConserved, CallTypeOK, TypeOK,
     TicketsKept, GateKept
<1>4. CASE OnReadClosed
  BY <1>4 DEF OnReadClosed, start_processing, FinishCall, request_finish, Overrides, pump,
     CancelRun, Scheduler!Withdraw, StreamInv, ChargesKept, ChargeConserved, CallTypeOK, TypeOK,
     TicketsKept, GateKept
<1>5. CASE OnCancel
  BY <1>5 DEF OnCancel, FinishCall, request_finish, Overrides, pump, CancelRun,
     Scheduler!Withdraw, StreamInv, ChargesKept, ChargeConserved, CallTypeOK, TypeOK,
     TicketsKept, GateKept
<1>6. CASE OnWriteDone
  BY <1>6 DEF OnWriteDone, pump, Scheduler!Credit, StreamInv, ChargesKept, ChargeConserved,
     CallTypeOK, TypeOK, TicketsKept, GateKept
<1>7. CASE OnWriteFailed
  BY <1>7 DEF OnWriteFailed, FinishCall, request_finish, Overrides, pump, CancelRun,
     Scheduler!Withdraw, StreamInv, ChargesKept, ChargeConserved, CallTypeOK, TypeOK,
     TicketsKept, GateKept
<1>8. CASE OnDone
  BY <1>8 DEF OnDone, StreamInv, ChargesKept, ChargeConserved, CallTypeOK, TypeOK, TicketsKept,
     GateKept
<1>9. CASE DropBuffer
  BY <1>9 DEF DropBuffer, StreamInv, ChargesKept, ChargeConserved, CallTypeOK, TypeOK,
     TicketsKept, GateKept
<1>10. CASE ResolveRefused
  BY <1>10 DEF ResolveRefused, take_bytes, ProcessEnds, FinishCall, request_finish, Overrides,
     pump, CancelRun, Scheduler!Withdraw, StreamInv, ChargesKept, ChargeConserved, CallTypeOK,
     TypeOK, TicketsKept, GateKept
<1>11. ASSUME NEW pl \in Plans, ResolvePlan(pl) PROVE ChargesKept'
  BY <1>11 DEF ResolvePlan, take_bytes, FinishCall, request_finish, Overrides, pump, CancelRun,
     Scheduler!Withdraw, StreamInv, ChargesKept, ChargeConserved, CallTypeOK, TypeOK,
     TicketsKept, GateKept
<1>12. CASE ProcessLaunch
  BY <1>12 DEF ProcessLaunch, StreamInv, ChargesKept, ChargeConserved, CallTypeOK, TypeOK,
     TicketsKept, GateKept
<1>13. CASE ProcessGone
  BY <1>13 DEF ProcessGone, ProcessEnds, StreamInv, ChargesKept, ChargeConserved, CallTypeOK,
     TypeOK, TicketsKept, GateKept
<1>14. CASE ProcessThrows
  BY <1>14 DEF ProcessThrows, ProcessEnds, FinishCall, request_finish, Overrides, pump, CancelRun,
     Scheduler!Withdraw, StreamInv, ChargesKept, ChargeConserved, CallTypeOK, TypeOK,
     TicketsKept, GateKept
<1>15. CASE LaunchDone
  BY <1>15 DEF LaunchDone, StreamInv, ChargesKept, ChargeConserved, CallTypeOK, TypeOK,
     TicketsKept, GateKept
<1>16. ASSUME NEW c \in Legs, LaunchLeg(c) PROVE ChargesKept'
  BY <1>16 DEF LaunchLeg, StreamInv, ChargesKept, ChargeConserved, CallTypeOK, TypeOK,
     TicketsKept, GateKept
<1>17. ASSUME NEW who \in {"process", "pdf"}, SubmitRun(who) PROVE ChargesKept'
  BY <1>17 DEF SubmitRun, Submitting, SubmitterAt, Scheduler!Admit, StreamInv, ChargesKept,
     ChargeConserved, CallTypeOK, TypeOK, TicketsKept, GateKept
<1>18. ASSUME NEW who \in {"process", "pdf"}, SubmitRefused(who) PROVE ChargesKept'
  BY <1>18 DEF SubmitRefused, Submitting, SubmitterAt, PartFailed, part_done, record_part_failure,
     FirstFailure, NoFinish, request_finish, Overrides, pump, CancelRun, Scheduler!Withdraw,
     StreamInv, ChargesKept, ChargeConserved, CallTypeOK, TypeOK, TicketsKept, GateKept
<1>19. ASSUME NEW who \in {"process", "pdf"}, SetTicket(who) PROVE ChargesKept'
  BY <1>19 DEF SetTicket, Submitted, SubmitterAt, CancelRun, Scheduler!Withdraw, StreamInv,
     ChargesKept, ChargeConserved, CallTypeOK, TypeOK, TicketsKept, GateKept
<1>20. ASSUME NEW c \in Legs, NEW success \in BOOLEAN, NEW k \in Nat, NEW streamed \in BOOLEAN,
      LegLands(c, success, k, streamed) PROVE ChargesKept'
  BY <1>20 DEF LegLands, on_collector_done, DocumentArrived, DocumentRefused, PartFailed,
     PartSucceeded, FinishCall, part_done, record_part_failure, FirstFailure, NoFinish,
     request_finish, Overrides, pump, CancelRun, Scheduler!Withdraw, StreamInv, ChargesKept,
     ChargeConserved, CallTypeOK, TypeOK, TicketsKept, GateKept
<1>21. ASSUME NEW clean \in BOOLEAN, PdfSlice(clean) PROVE ChargesKept'
  BY <1>21 DEF PdfSlice, NotStreamed, StreamTakes, on_streamed_page, pump, StreamInv, ChargesKept,
     ChargeConserved, CallTypeOK, TypeOK, TicketsKept, GateKept
<1>22. ASSUME NEW success \in BOOLEAN, NEW fast \in BOOLEAN, PdfEnd(success, fast) PROVE
      ChargesKept'
  BY <1>22 DEF PdfEnd, PdfAt, StreamInv, ChargesKept, ChargeConserved, CallTypeOK, TypeOK,
     TicketsKept, GateKept
<1>23. CASE PdfHeld
  BY <1>23 DEF PdfHeld, PdfAt, NotStreamed, StreamTakes, on_streamed_page, pump, StreamInv,
     ChargesKept, ChargeConserved, CallTypeOK, TypeOK, TicketsKept, GateKept
<1>24. CASE PdfLeft
  BY <1>24 DEF PdfLeft, PdfAt, StreamInv, ChargesKept, ChargeConserved, CallTypeOK, TypeOK,
     TicketsKept, GateKept
<1>25. CASE PdfFallback
  BY <1>25 DEF PdfFallback, PdfAt, record_part_failure, StreamInv, ChargesKept, ChargeConserved,
     CallTypeOK, TypeOK, TicketsKept, GateKept
<1>26. CASE PdfSubmit
  BY <1>26 DEF PdfSubmit, PdfAt, StreamInv, ChargesKept, ChargeConserved, CallTypeOK, TypeOK,
     TicketsKept, GateKept
<1>27. CASE RunOpens
  BY <1>27 DEF RunOpens, Scheduler!Size, Scheduler!Live, StreamInv, ChargesKept, ChargeConserved,
     CallTypeOK, TypeOK, TicketsKept, GateKept
<1>28. CASE RunFails
  BY <1>28 DEF RunFails, Scheduler!Live, Scheduler!Break, StreamInv, ChargesKept, ChargeConserved,
     CallTypeOK, TypeOK, TicketsKept, GateKept
<1>29. CASE on_document
  BY <1>29 DEF on_document, Scheduler!Announce, StreamInv, ChargesKept, ChargeConserved,
     CallTypeOK, TypeOK, TicketsKept, GateKept
<1>30. ASSUME NEW p \in Pages, on_page(p) PROVE ChargesKept'
  BY <1>30 DEF on_page, pump, Scheduler!DeliverPage, Scheduler!Deliverable, Scheduler!Live,
     StreamInv, ChargesKept, ChargeConserved, CallTypeOK, TypeOK, TicketsKept, GateKept
<1>31. ASSUME NEW p \in Pages, PageRefused(p) PROVE ChargesKept'
  BY <1>31 DEF PageRefused, Scheduler!Deliverable, Scheduler!Live, Scheduler!Withdraw,
     request_finish, Overrides, pump, StreamInv, ChargesKept, ChargeConserved, CallTypeOK,
     TypeOK, TicketsKept, GateKept
<1>32. ASSUME NEW why \in {"none", "failed"}, on_scheduler_finish(why) PROVE ChargesKept'
  BY <1>32 DEF on_scheduler_finish, Scheduler!Finish, Scheduler!Live, RunStatus, PartFailed,
     PartSucceeded, FinishCall, part_done, record_part_failure, FirstFailure, NoFinish,
     request_finish, Overrides, pump, StreamInv, ChargesKept, ChargeConserved, CallTypeOK,
     TypeOK, TicketsKept, GateKept
<1>33. CASE UNCHANGED vars
  BY <1>33 DEF vars, StreamInv, ChargesKept, ChargeConserved, CallTypeOK, TypeOK, TicketsKept,
     GateKept
<1> QED BY StepCases, <1>1, <1>2, <1>3, <1>4, <1>5, <1>6, <1>7, <1>8, <1>9, <1>10, <1>11, <1>12,
    <1>13, <1>14, <1>15, <1>16, <1>17, <1>18, <1>19, <1>20, <1>21, <1>22, <1>23, <1>24, <1>25,
    <1>26, <1>27, <1>28, <1>29, <1>30, <1>31, <1>32, <1>33

\* The gate is taken and released by the section that holds it.
LEMMA GateStep ==
  ASSUME StreamInv, [Next]_vars
  PROVE  GateKept'
<1>1. ASSUME NEW names \in {"same", "none", "other"}, NEW size \in {0, 1}, NEW last \in BOOLEAN,
      NEW room \in BOOLEAN, OnChunk(names, size, last, room) PROVE GateKept'
  BY <1>1, StreamAssumption DEF OnChunk, FinishCall, request_finish, Overrides, pump, CancelRun,
     Scheduler!Withdraw, StreamAssumption, StreamInv, TypeOK, FinishTypeOK, ThreadTypeOK,
     RunTypes, GateKept, Legs, RouteStates, Submitting, Submitted, SubmitterAt, PdfAt
<1>2. CASE ClientHalfClose
  BY <1>2, StreamAssumption DEF ClientHalfClose, StreamAssumption, StreamInv, TypeOK,
     FinishTypeOK, ThreadTypeOK, RunTypes, GateKept, Legs, RouteStates, Submitting, Submitted,
     SubmitterAt, PdfAt
<1>3. CASE ClientCancel
  BY <1>3, StreamAssumption DEF ClientCancel, StreamAssumption, StreamInv, TypeOK, FinishTypeOK,
     ThreadTypeOK, RunTypes, GateKept, Legs, RouteStates, Submitting, Submitted, SubmitterAt,
     PdfAt
<1>4. CASE OnReadClosed

  <2>1. process' # process => process = "none" /\ process' = "resolving"
    BY <1>4 DEF OnReadClosed, start_processing, StreamInv, ChargesKept
  <2> QED BY <1>4, <2>1 DEF OnReadClosed, start_processing, StreamInv, TypeOK, FinishTypeOK,
      ThreadTypeOK, RunTypes, GateKept, Legs, RouteStates, Submitting, Submitted, SubmitterAt,
      PdfAt
<1>5. CASE OnCancel
  BY <1>5, StreamAssumption DEF OnCancel, FinishCall, request_finish, Overrides, pump, CancelRun,
     Scheduler!Withdraw, StreamAssumption, StreamInv, TypeOK, FinishTypeOK, ThreadTypeOK,
     RunTypes, GateKept, Legs, RouteStates, Submitting, Submitted, SubmitterAt, PdfAt
<1>6. CASE OnWriteDone
  BY <1>6, StreamAssumption DEF OnWriteDone, pump, Scheduler!Credit, StreamAssumption, StreamInv,
     TypeOK, FinishTypeOK, ThreadTypeOK, RunTypes, GateKept, Legs, RouteStates, Submitting,
     Submitted, SubmitterAt, PdfAt
<1>7. CASE OnWriteFailed
  BY <1>7, StreamAssumption DEF OnWriteFailed, FinishCall, request_finish, Overrides, pump,
     CancelRun, Scheduler!Withdraw, StreamAssumption, StreamInv, TypeOK, FinishTypeOK,
     ThreadTypeOK, RunTypes, GateKept, Legs, RouteStates, Submitting, Submitted, SubmitterAt,
     PdfAt
<1>8. CASE OnDone
  BY <1>8, StreamAssumption DEF OnDone, StreamAssumption, StreamInv, TypeOK, FinishTypeOK,
     ThreadTypeOK, RunTypes, GateKept, Legs, RouteStates, Submitting, Submitted, SubmitterAt,
     PdfAt
<1>9. CASE DropBuffer
  BY <1>9, StreamAssumption DEF DropBuffer, StreamAssumption, StreamInv, TypeOK, FinishTypeOK,
     ThreadTypeOK, RunTypes, GateKept, Legs, RouteStates, Submitting, Submitted, SubmitterAt,
     PdfAt
<1>10. CASE ResolveRefused
  BY <1>10, StreamAssumption DEF ResolveRefused, take_bytes, ProcessEnds, FinishCall,
     request_finish, Overrides, pump, CancelRun, Scheduler!Withdraw, StreamAssumption,
     StreamInv, TypeOK, FinishTypeOK, ThreadTypeOK, RunTypes, GateKept, Legs, RouteStates,
     Submitting, Submitted, SubmitterAt, PdfAt
<1>11. ASSUME NEW pl \in Plans, ResolvePlan(pl) PROVE GateKept'
  BY <1>11, StreamAssumption DEF ResolvePlan, take_bytes, FinishCall, request_finish, Overrides,
     pump, CancelRun, Scheduler!Withdraw, StreamAssumption, StreamInv, TypeOK, FinishTypeOK,
     ThreadTypeOK, RunTypes, GateKept, Legs, RouteStates, Submitting, Submitted, SubmitterAt,
     PdfAt
<1>12. CASE ProcessLaunch
  BY <1>12, StreamAssumption DEF ProcessLaunch, StreamAssumption, StreamInv, TypeOK, FinishTypeOK,
     ThreadTypeOK, RunTypes, GateKept, Legs, RouteStates, Submitting, Submitted, SubmitterAt,
     PdfAt
<1>13. CASE ProcessGone
  BY <1>13, StreamAssumption DEF ProcessGone, ProcessEnds, StreamAssumption, StreamInv, TypeOK,
     FinishTypeOK, ThreadTypeOK, RunTypes, GateKept, Legs, RouteStates, Submitting, Submitted,
     SubmitterAt, PdfAt
<1>14. CASE ProcessThrows
  BY <1>14, StreamAssumption DEF ProcessThrows, ProcessEnds, FinishCall, request_finish,
     Overrides, pump, CancelRun, Scheduler!Withdraw, StreamAssumption, StreamInv, TypeOK,
     FinishTypeOK, ThreadTypeOK, RunTypes, GateKept, Legs, RouteStates, Submitting, Submitted,
     SubmitterAt, PdfAt
<1>15. CASE LaunchDone
  BY <1>15, StreamAssumption DEF LaunchDone, StreamAssumption, StreamInv, TypeOK, FinishTypeOK,
     ThreadTypeOK, RunTypes, GateKept, Legs, RouteStates, Submitting, Submitted, SubmitterAt,
     PdfAt
<1>16. ASSUME NEW c \in Legs, LaunchLeg(c) PROVE GateKept'
  BY <1>16, StreamAssumption DEF LaunchLeg, StreamAssumption, StreamInv, TypeOK, FinishTypeOK,
     ThreadTypeOK, RunTypes, GateKept, Legs, RouteStates, Submitting, Submitted, SubmitterAt,
     PdfAt
<1>17. ASSUME NEW who \in {"process", "pdf"}, SubmitRun(who) PROVE GateKept'
  BY <1>17, StreamAssumption DEF SubmitRun, Submitting, SubmitterAt, Scheduler!Admit,
     StreamAssumption, StreamInv, TypeOK, FinishTypeOK, ThreadTypeOK, RunTypes, GateKept, Legs,
     RouteStates, Submitted, PdfAt
<1>18. ASSUME NEW who \in {"process", "pdf"}, SubmitRefused(who) PROVE GateKept'
  BY <1>18, StreamAssumption DEF SubmitRefused, Submitting, SubmitterAt, PartFailed, part_done,
     record_part_failure, FirstFailure, NoFinish, request_finish, Overrides, pump, CancelRun,
     Scheduler!Withdraw, StreamAssumption, StreamInv, TypeOK, FinishTypeOK, ThreadTypeOK,
     RunTypes, GateKept, Legs, RouteStates, Submitted, PdfAt
<1>19. ASSUME NEW who \in {"process", "pdf"}, SetTicket(who) PROVE GateKept'
  BY <1>19, StreamAssumption DEF SetTicket, Submitted, SubmitterAt, CancelRun, Scheduler!Withdraw,
     StreamAssumption, StreamInv, TypeOK, FinishTypeOK, ThreadTypeOK, RunTypes, GateKept, Legs,
     RouteStates, Submitting, PdfAt
<1>20. ASSUME NEW c \in Legs, NEW success \in BOOLEAN, NEW k \in Nat, NEW streamed \in BOOLEAN,
      LegLands(c, success, k, streamed) PROVE GateKept'

  <2>1. process \notin {"none", "resolving"} BY <1>20 DEF LegLands, StreamInv, TypeOK,
      FinishTypeOK, ThreadTypeOK, RunTypes, GateKept, Legs, RouteStates, Submitting, Submitted,
      SubmitterAt, PdfAt
  <2>2. leg' = [leg EXCEPT ![c] = "done"] /\ UNCHANGED <<process, gate, plan>>
    BY <1>20 DEF LegLands, on_collector_done
  <2> QED BY <1>20, <2>1, <2>2 DEF LegLands, StreamInv, TypeOK, FinishTypeOK, ThreadTypeOK,
      RunTypes, GateKept, Legs, RouteStates, Submitting, Submitted, SubmitterAt, PdfAt
<1>21. ASSUME NEW clean \in BOOLEAN, PdfSlice(clean) PROVE GateKept'
  BY <1>21, StreamAssumption DEF PdfSlice, NotStreamed, StreamTakes, on_streamed_page, pump,
     StreamAssumption, StreamInv, TypeOK, FinishTypeOK, ThreadTypeOK, RunTypes, GateKept, Legs,
     RouteStates, Submitting, Submitted, SubmitterAt, PdfAt
<1>22. ASSUME NEW success \in BOOLEAN, NEW fast \in BOOLEAN, PdfEnd(success, fast) PROVE
      GateKept'
  BY <1>22, StreamAssumption DEF PdfEnd, PdfAt, StreamAssumption, StreamInv, TypeOK, FinishTypeOK,
     ThreadTypeOK, RunTypes, GateKept, Legs, RouteStates, Submitting, Submitted, SubmitterAt
<1>23. CASE PdfHeld
  BY <1>23, StreamAssumption DEF PdfHeld, PdfAt, NotStreamed, StreamTakes, on_streamed_page, pump,
     StreamAssumption, StreamInv, TypeOK, FinishTypeOK, ThreadTypeOK, RunTypes, GateKept, Legs,
     RouteStates, Submitting, Submitted, SubmitterAt
<1>24. CASE PdfLeft
  BY <1>24, StreamAssumption DEF PdfLeft, PdfAt, StreamAssumption, StreamInv, TypeOK,
     FinishTypeOK, ThreadTypeOK, RunTypes, GateKept, Legs, RouteStates, Submitting, Submitted,
     SubmitterAt
<1>25. CASE PdfFallback
  BY <1>25, StreamAssumption DEF PdfFallback, PdfAt, record_part_failure, StreamAssumption,
     StreamInv, TypeOK, FinishTypeOK, ThreadTypeOK, RunTypes, GateKept, Legs, RouteStates,
     Submitting, Submitted, SubmitterAt
<1>26. CASE PdfSubmit
  BY <1>26, StreamAssumption DEF PdfSubmit, PdfAt, StreamAssumption, StreamInv, TypeOK,
     FinishTypeOK, ThreadTypeOK, RunTypes, GateKept, Legs, RouteStates, Submitting, Submitted,
     SubmitterAt
<1>27. CASE RunOpens
  BY <1>27, StreamAssumption DEF RunOpens, Scheduler!Size, Scheduler!Live, StreamAssumption,
     StreamInv, TypeOK, FinishTypeOK, ThreadTypeOK, RunTypes, GateKept, Legs, RouteStates,
     Submitting, Submitted, SubmitterAt, PdfAt
<1>28. CASE RunFails
  BY <1>28, StreamAssumption DEF RunFails, Scheduler!Live, Scheduler!Break, StreamAssumption,
     StreamInv, TypeOK, FinishTypeOK, ThreadTypeOK, RunTypes, GateKept, Legs, RouteStates,
     Submitting, Submitted, SubmitterAt, PdfAt
<1>29. CASE on_document
  BY <1>29, StreamAssumption DEF on_document, Scheduler!Announce, StreamAssumption, StreamInv,
     TypeOK, FinishTypeOK, ThreadTypeOK, RunTypes, GateKept, Legs, RouteStates, Submitting,
     Submitted, SubmitterAt, PdfAt
<1>30. ASSUME NEW p \in Pages, on_page(p) PROVE GateKept'
  BY <1>30, StreamAssumption DEF on_page, pump, Scheduler!DeliverPage, Scheduler!Deliverable,
     Scheduler!Live, StreamAssumption, StreamInv, TypeOK, FinishTypeOK, ThreadTypeOK, RunTypes,
     GateKept, Legs, RouteStates, Submitting, Submitted, SubmitterAt, PdfAt
<1>31. ASSUME NEW p \in Pages, PageRefused(p) PROVE GateKept'
  BY <1>31, StreamAssumption DEF PageRefused, Scheduler!Deliverable, Scheduler!Live,
     Scheduler!Withdraw, request_finish, Overrides, pump, StreamAssumption, StreamInv, TypeOK,
     FinishTypeOK, ThreadTypeOK, RunTypes, GateKept, Legs, RouteStates, Submitting, Submitted,
     SubmitterAt, PdfAt
<1>32. ASSUME NEW why \in {"none", "failed"}, on_scheduler_finish(why) PROVE GateKept'

  <2>1. process \notin {"none", "resolving"} /\ UNCHANGED <<process, gate, plan, leg>>
    BY <1>32 DEF on_scheduler_finish, Scheduler!Finish, Scheduler!Live, AdmissionKept,
        StreamInv, TypeOK, FinishTypeOK, ThreadTypeOK, RunTypes, GateKept, Legs, RouteStates,
        Submitting, Submitted, SubmitterAt, PdfAt
  <2> QED BY <2>1 DEF StreamInv, TypeOK, FinishTypeOK, ThreadTypeOK, RunTypes, GateKept, Legs,
      RouteStates, Submitting, Submitted, SubmitterAt, PdfAt
<1>33. CASE UNCHANGED vars
  BY <1>33 DEF vars, StreamInv, TypeOK, FinishTypeOK, ThreadTypeOK, RunTypes, GateKept, Legs,
     RouteStates, Submitting, Submitted, SubmitterAt, PdfAt
<1> QED BY StepCases, <1>1, <1>2, <1>3, <1>4, <1>5, <1>6, <1>7, <1>8, <1>9, <1>10, <1>11, <1>12,
    <1>13, <1>14, <1>15, <1>16, <1>17, <1>18, <1>19, <1>20, <1>21, <1>22, <1>23, <1>24, <1>25,
    <1>26, <1>27, <1>28, <1>29, <1>30, <1>31, <1>32, <1>33

\* The CV run is submitted once.
LEMMA AdmissionStep ==
  ASSUME StreamInv, [Next]_vars
  PROVE  AdmissionKept'
<1>1. ASSUME NEW names \in {"same", "none", "other"}, NEW size \in {0, 1}, NEW last \in BOOLEAN,
      NEW room \in BOOLEAN, OnChunk(names, size, last, room) PROVE AdmissionKept'
  BY <1>1 DEF OnChunk, FinishCall, request_finish, Overrides, pump, CancelRun, Scheduler!Withdraw,
     StreamInv, TypeOK, FinishTypeOK, ThreadTypeOK, RunTypes, GateKept, AdmissionKept, Legs,
     RouteStates, Submitting, Submitted, SubmitterAt, PdfAt
<1>2. CASE ClientHalfClose
  BY <1>2 DEF ClientHalfClose, StreamInv, TypeOK, FinishTypeOK, ThreadTypeOK, RunTypes, GateKept,
     AdmissionKept, Legs, RouteStates, Submitting, Submitted, SubmitterAt, PdfAt
<1>3. CASE ClientCancel
  BY <1>3 DEF ClientCancel, StreamInv, TypeOK, FinishTypeOK, ThreadTypeOK, RunTypes, GateKept,
     AdmissionKept, Legs, RouteStates, Submitting, Submitted, SubmitterAt, PdfAt
<1>4. CASE OnReadClosed

  <2>1. process' # process => process = "none" /\ process' = "resolving"
    BY <1>4 DEF OnReadClosed, start_processing, StreamInv, ChargesKept
  <2> QED BY <1>4, <2>1 DEF OnReadClosed, start_processing, CancelRun, Scheduler!Withdraw,
      StreamInv, TypeOK, FinishTypeOK, ThreadTypeOK, RunTypes, GateKept, AdmissionKept, Legs,
      RouteStates, Submitting, Submitted, SubmitterAt, PdfAt
<1>5. CASE OnCancel
  BY <1>5 DEF OnCancel, FinishCall, request_finish, Overrides, pump, CancelRun,
     Scheduler!Withdraw, StreamInv, TypeOK, FinishTypeOK, ThreadTypeOK, RunTypes, GateKept,
     AdmissionKept, Legs, RouteStates, Submitting, Submitted, SubmitterAt, PdfAt
<1>6. CASE OnWriteDone
  BY <1>6 DEF OnWriteDone, pump, Scheduler!Credit, StreamInv, TypeOK, FinishTypeOK, ThreadTypeOK,
     RunTypes, GateKept, AdmissionKept, Legs, RouteStates, Submitting, Submitted, SubmitterAt,
     PdfAt
<1>7. CASE OnWriteFailed
  BY <1>7 DEF OnWriteFailed, FinishCall, request_finish, Overrides, pump, CancelRun,
     Scheduler!Withdraw, StreamInv, TypeOK, FinishTypeOK, ThreadTypeOK, RunTypes, GateKept,
     AdmissionKept, Legs, RouteStates, Submitting, Submitted, SubmitterAt, PdfAt
<1>8. CASE OnDone
  BY <1>8 DEF OnDone, StreamInv, TypeOK, FinishTypeOK, ThreadTypeOK, RunTypes, GateKept,
     AdmissionKept, Legs, RouteStates, Submitting, Submitted, SubmitterAt, PdfAt
<1>9. CASE DropBuffer
  BY <1>9 DEF DropBuffer, StreamInv, TypeOK, FinishTypeOK, ThreadTypeOK, RunTypes, GateKept,
     AdmissionKept, Legs, RouteStates, Submitting, Submitted, SubmitterAt, PdfAt
<1>10. CASE ResolveRefused
  BY <1>10 DEF ResolveRefused, take_bytes, ProcessEnds, FinishCall, request_finish, Overrides,
     pump, CancelRun, Scheduler!Withdraw, StreamInv, TypeOK, FinishTypeOK, ThreadTypeOK,
     RunTypes, GateKept, AdmissionKept, Legs, RouteStates, Submitting, Submitted, SubmitterAt,
     PdfAt
<1>11. ASSUME NEW pl \in Plans, ResolvePlan(pl) PROVE AdmissionKept'
  BY <1>11 DEF ResolvePlan, take_bytes, FinishCall, request_finish, Overrides, pump, CancelRun,
     Scheduler!Withdraw, StreamInv, TypeOK, FinishTypeOK, ThreadTypeOK, RunTypes, GateKept,
     AdmissionKept, Legs, RouteStates, Submitting, Submitted, SubmitterAt, PdfAt
<1>12. CASE ProcessLaunch
  BY <1>12 DEF ProcessLaunch, StreamInv, TypeOK, FinishTypeOK, ThreadTypeOK, RunTypes, GateKept,
     AdmissionKept, Legs, RouteStates, Submitting, Submitted, SubmitterAt, PdfAt
<1>13. CASE ProcessGone
  BY <1>13 DEF ProcessGone, ProcessEnds, StreamInv, TypeOK, FinishTypeOK, ThreadTypeOK, RunTypes,
     GateKept, AdmissionKept, Legs, RouteStates, Submitting, Submitted, SubmitterAt, PdfAt
<1>14. CASE ProcessThrows
  BY <1>14 DEF ProcessThrows, ProcessEnds, FinishCall, request_finish, Overrides, pump, CancelRun,
     Scheduler!Withdraw, StreamInv, TypeOK, FinishTypeOK, ThreadTypeOK, RunTypes, GateKept,
     AdmissionKept, Legs, RouteStates, Submitting, Submitted, SubmitterAt, PdfAt
<1>15. CASE LaunchDone
  BY <1>15 DEF LaunchDone, StreamInv, TypeOK, FinishTypeOK, ThreadTypeOK, RunTypes, GateKept,
     AdmissionKept, Legs, RouteStates, Submitting, Submitted, SubmitterAt, PdfAt
<1>16. ASSUME NEW c \in Legs, LaunchLeg(c) PROVE AdmissionKept'
  BY <1>16 DEF LaunchLeg, StreamInv, TypeOK, FinishTypeOK, ThreadTypeOK, RunTypes, GateKept,
     AdmissionKept, Legs, RouteStates, Submitting, Submitted, SubmitterAt, PdfAt
<1>17. ASSUME NEW who \in {"process", "pdf"}, SubmitRun(who) PROVE AdmissionKept'
  BY <1>17 DEF SubmitRun, Submitting, SubmitterAt, Scheduler!Admit, StreamInv, TypeOK,
     FinishTypeOK, ThreadTypeOK, RunTypes, GateKept, AdmissionKept, Legs, RouteStates,
     Submitted, PdfAt
<1>18. ASSUME NEW who \in {"process", "pdf"}, SubmitRefused(who) PROVE AdmissionKept'
  BY <1>18 DEF SubmitRefused, Submitting, SubmitterAt, PartFailed, part_done, record_part_failure,
     FirstFailure, NoFinish, request_finish, Overrides, pump, CancelRun, Scheduler!Withdraw,
     StreamInv, TypeOK, FinishTypeOK, ThreadTypeOK, RunTypes, GateKept, AdmissionKept, Legs,
     RouteStates, Submitted, PdfAt
<1>19. ASSUME NEW who \in {"process", "pdf"}, SetTicket(who) PROVE AdmissionKept'
  BY <1>19 DEF SetTicket, Submitted, SubmitterAt, CancelRun, Scheduler!Withdraw, StreamInv,
     TypeOK, FinishTypeOK, ThreadTypeOK, RunTypes, GateKept, AdmissionKept, Legs, RouteStates,
     Submitting, PdfAt
<1>20. ASSUME NEW c \in Legs, NEW success \in BOOLEAN, NEW k \in Nat, NEW streamed \in BOOLEAN,
      LegLands(c, success, k, streamed) PROVE AdmissionKept'
  BY <1>20 DEF LegLands, on_collector_done, DocumentArrived, DocumentRefused, PartFailed,
     PartSucceeded, FinishCall, part_done, record_part_failure, FirstFailure, NoFinish,
     request_finish, Overrides, pump, CancelRun, Scheduler!Withdraw, StreamInv, TypeOK,
     FinishTypeOK, ThreadTypeOK, RunTypes, GateKept, AdmissionKept, Legs, RouteStates,
     Submitting, Submitted, SubmitterAt, PdfAt
<1>21. ASSUME NEW clean \in BOOLEAN, PdfSlice(clean) PROVE AdmissionKept'
  BY <1>21 DEF PdfSlice, NotStreamed, StreamTakes, on_streamed_page, pump, StreamInv, TypeOK,
     FinishTypeOK, ThreadTypeOK, RunTypes, GateKept, AdmissionKept, Legs, RouteStates,
     Submitting, Submitted, SubmitterAt, PdfAt
<1>22. ASSUME NEW success \in BOOLEAN, NEW fast \in BOOLEAN, PdfEnd(success, fast) PROVE
      AdmissionKept'
  BY <1>22 DEF PdfEnd, PdfAt, StreamInv, TypeOK, FinishTypeOK, ThreadTypeOK, RunTypes, GateKept,
     AdmissionKept, Legs, RouteStates, Submitting, Submitted, SubmitterAt
<1>23. CASE PdfHeld
  BY <1>23 DEF PdfHeld, PdfAt, NotStreamed, StreamTakes, on_streamed_page, pump, StreamInv,
     TypeOK, FinishTypeOK, ThreadTypeOK, RunTypes, GateKept, AdmissionKept, Legs, RouteStates,
     Submitting, Submitted, SubmitterAt
<1>24. CASE PdfLeft
  BY <1>24 DEF PdfLeft, PdfAt, StreamInv, TypeOK, FinishTypeOK, ThreadTypeOK, RunTypes, GateKept,
     AdmissionKept, Legs, RouteStates, Submitting, Submitted, SubmitterAt
<1>25. CASE PdfFallback
  BY <1>25 DEF PdfFallback, PdfAt, record_part_failure, StreamInv, TypeOK, FinishTypeOK,
     ThreadTypeOK, RunTypes, GateKept, AdmissionKept, Legs, RouteStates, Submitting, Submitted,
     SubmitterAt
<1>26. CASE PdfSubmit
  BY <1>26 DEF PdfSubmit, PdfAt, StreamInv, TypeOK, FinishTypeOK, ThreadTypeOK, RunTypes,
     GateKept, AdmissionKept, Legs, RouteStates, Submitting, Submitted, SubmitterAt
<1>27. CASE RunOpens
  BY <1>27 DEF RunOpens, Scheduler!Size, Scheduler!Live, StreamInv, TypeOK, FinishTypeOK,
     ThreadTypeOK, RunTypes, GateKept, AdmissionKept, Legs, RouteStates, Submitting, Submitted,
     SubmitterAt, PdfAt
<1>28. CASE RunFails
  BY <1>28 DEF RunFails, Scheduler!Live, Scheduler!Break, StreamInv, TypeOK, FinishTypeOK,
     ThreadTypeOK, RunTypes, GateKept, AdmissionKept, Legs, RouteStates, Submitting, Submitted,
     SubmitterAt, PdfAt
<1>29. CASE on_document
  BY <1>29 DEF on_document, Scheduler!Announce, StreamInv, TypeOK, FinishTypeOK, ThreadTypeOK,
     RunTypes, GateKept, AdmissionKept, Legs, RouteStates, Submitting, Submitted, SubmitterAt,
     PdfAt
<1>30. ASSUME NEW p \in Pages, on_page(p) PROVE AdmissionKept'
  BY <1>30 DEF on_page, pump, Scheduler!DeliverPage, Scheduler!Deliverable, Scheduler!Live,
     StreamInv, TypeOK, FinishTypeOK, ThreadTypeOK, RunTypes, GateKept, AdmissionKept, Legs,
     RouteStates, Submitting, Submitted, SubmitterAt, PdfAt
<1>31. ASSUME NEW p \in Pages, PageRefused(p) PROVE AdmissionKept'
  BY <1>31 DEF PageRefused, Scheduler!Deliverable, Scheduler!Live, Scheduler!Withdraw,
     request_finish, Overrides, pump, StreamInv, TypeOK, FinishTypeOK, ThreadTypeOK, RunTypes,
     GateKept, AdmissionKept, Legs, RouteStates, Submitting, Submitted, SubmitterAt, PdfAt
<1>32. ASSUME NEW why \in {"none", "failed"}, on_scheduler_finish(why) PROVE AdmissionKept'
  BY <1>32 DEF on_scheduler_finish, Scheduler!Finish, Scheduler!Live, RunStatus, PartFailed,
     PartSucceeded, FinishCall, part_done, record_part_failure, FirstFailure, NoFinish,
     request_finish, Overrides, pump, StreamInv, TypeOK, FinishTypeOK, ThreadTypeOK, RunTypes,
     GateKept, AdmissionKept, Legs, RouteStates, Submitting, Submitted, SubmitterAt, PdfAt
<1>33. CASE UNCHANGED vars
  BY <1>33 DEF vars, StreamInv, TypeOK, FinishTypeOK, ThreadTypeOK, RunTypes, GateKept,
     AdmissionKept, Legs, RouteStates, Submitting, Submitted, SubmitterAt, PdfAt
<1> QED BY StepCases, <1>1, <1>2, <1>3, <1>4, <1>5, <1>6, <1>7, <1>8, <1>9, <1>10, <1>11, <1>12,
    <1>13, <1>14, <1>15, <1>16, <1>17, <1>18, <1>19, <1>20, <1>21, <1>22, <1>23, <1>24, <1>25,
    <1>26, <1>27, <1>28, <1>29, <1>30, <1>31, <1>32, <1>33

\* A failed finish cancels the ticket, now or when it is stored.
LEMMA TicketsStep ==
  ASSUME StreamInv, [Next]_vars
  PROVE  TicketsKept'
<1>1. ASSUME NEW names \in {"same", "none", "other"}, NEW size \in {0, 1}, NEW last \in BOOLEAN,
      NEW room \in BOOLEAN, OnChunk(names, size, last, room) PROVE TicketsKept'
  BY <1>1 DEF OnChunk, FinishCall, request_finish, Overrides, pump, CancelRun, Scheduler!Withdraw,
     StreamInv, TypeOK, FinishTypeOK, ThreadTypeOK, RunTypes, GateKept, AdmissionKept,
     TicketsKept, Submitted, Scheduler!Live, Run
<1>2. CASE ClientHalfClose
  BY <1>2 DEF ClientHalfClose, StreamInv, TypeOK, FinishTypeOK, ThreadTypeOK, RunTypes, GateKept,
     AdmissionKept, TicketsKept, Submitted, Scheduler!Live, Run
<1>3. CASE ClientCancel
  BY <1>3 DEF ClientCancel, StreamInv, TypeOK, FinishTypeOK, ThreadTypeOK, RunTypes, GateKept,
     AdmissionKept, TicketsKept, Submitted, Scheduler!Live, Run
<1>4. CASE OnReadClosed

  <2>1. process' # process => process = "none" /\ process' = "resolving"
    BY <1>4 DEF OnReadClosed, start_processing, StreamInv, ChargesKept
  <2> QED BY <1>4, <2>1 DEF OnReadClosed, start_processing, FinishCall, request_finish,
      Overrides, pump, CancelRun, Scheduler!Withdraw, StreamInv, TypeOK, FinishTypeOK,
      ThreadTypeOK, RunTypes, GateKept, AdmissionKept, TicketsKept, Submitted, Scheduler!Live,
      Run
<1>5. CASE OnCancel
  BY <1>5 DEF OnCancel, FinishCall, request_finish, Overrides, pump, CancelRun,
     Scheduler!Withdraw, StreamInv, TypeOK, FinishTypeOK, ThreadTypeOK, RunTypes, GateKept,
     AdmissionKept, TicketsKept, Submitted, Scheduler!Live, Run
<1>6. CASE OnWriteDone
  BY <1>6 DEF OnWriteDone, pump, Scheduler!Credit, StreamInv, TypeOK, FinishTypeOK, ThreadTypeOK,
     RunTypes, GateKept, AdmissionKept, TicketsKept, Submitted, Scheduler!Live, Run
<1>7. CASE OnWriteFailed
  BY <1>7 DEF OnWriteFailed, FinishCall, request_finish, Overrides, pump, CancelRun,
     Scheduler!Withdraw, StreamInv, TypeOK, FinishTypeOK, ThreadTypeOK, RunTypes, GateKept,
     AdmissionKept, TicketsKept, Submitted, Scheduler!Live, Run
<1>8. CASE OnDone
  BY <1>8 DEF OnDone, StreamInv, TypeOK, FinishTypeOK, ThreadTypeOK, RunTypes, GateKept,
     AdmissionKept, TicketsKept, Submitted, Scheduler!Live, Run
<1>9. CASE DropBuffer
  BY <1>9 DEF DropBuffer, StreamInv, TypeOK, FinishTypeOK, ThreadTypeOK, RunTypes, GateKept,
     AdmissionKept, TicketsKept, Submitted, Scheduler!Live, Run
<1>10. CASE ResolveRefused
  BY <1>10 DEF ResolveRefused, take_bytes, ProcessEnds, FinishCall, request_finish, Overrides,
     pump, CancelRun, Scheduler!Withdraw, StreamInv, TypeOK, FinishTypeOK, ThreadTypeOK,
     RunTypes, GateKept, AdmissionKept, TicketsKept, Submitted, Scheduler!Live, Run
<1>11. ASSUME NEW pl \in Plans, ResolvePlan(pl) PROVE TicketsKept'
  BY <1>11 DEF ResolvePlan, take_bytes, FinishCall, request_finish, Overrides, pump, CancelRun,
     Scheduler!Withdraw, StreamInv, TypeOK, FinishTypeOK, ThreadTypeOK, RunTypes, GateKept,
     AdmissionKept, TicketsKept, Submitted, Scheduler!Live, Run
<1>12. CASE ProcessLaunch
  BY <1>12 DEF ProcessLaunch, StreamInv, TypeOK, FinishTypeOK, ThreadTypeOK, RunTypes, GateKept,
     AdmissionKept, TicketsKept, Submitted, Scheduler!Live, Run
<1>13. CASE ProcessGone
  BY <1>13 DEF ProcessGone, ProcessEnds, StreamInv, TypeOK, FinishTypeOK, ThreadTypeOK, RunTypes,
     GateKept, AdmissionKept, TicketsKept, Submitted, Scheduler!Live, Run
<1>14. CASE ProcessThrows
  BY <1>14 DEF ProcessThrows, ProcessEnds, FinishCall, request_finish, Overrides, pump, CancelRun,
     Scheduler!Withdraw, StreamInv, TypeOK, FinishTypeOK, ThreadTypeOK, RunTypes, GateKept,
     AdmissionKept, TicketsKept, Submitted, Scheduler!Live, Run
<1>15. CASE LaunchDone
  BY <1>15 DEF LaunchDone, StreamInv, TypeOK, FinishTypeOK, ThreadTypeOK, RunTypes, GateKept,
     AdmissionKept, TicketsKept, Submitted, Scheduler!Live, Run
<1>16. ASSUME NEW c \in Legs, LaunchLeg(c) PROVE TicketsKept'
  BY <1>16 DEF LaunchLeg, StreamInv, TypeOK, FinishTypeOK, ThreadTypeOK, RunTypes, GateKept,
     AdmissionKept, TicketsKept, Submitted, Scheduler!Live, Run
<1>17. ASSUME NEW who \in {"process", "pdf"}, SubmitRun(who) PROVE TicketsKept'
  BY <1>17 DEF SubmitRun, Submitting, SubmitterAt, Scheduler!Admit, StreamInv, TypeOK,
     FinishTypeOK, ThreadTypeOK, RunTypes, GateKept, AdmissionKept, TicketsKept, Submitted,
     Scheduler!Live, Run
<1>18. ASSUME NEW who \in {"process", "pdf"}, SubmitRefused(who) PROVE TicketsKept'
  BY <1>18 DEF SubmitRefused, Submitting, SubmitterAt, PartFailed, part_done, record_part_failure,
     FirstFailure, NoFinish, request_finish, Overrides, pump, CancelRun, Scheduler!Withdraw,
     StreamInv, TypeOK, FinishTypeOK, ThreadTypeOK, RunTypes, GateKept, AdmissionKept,
     TicketsKept, Submitted, Scheduler!Live, Run
<1>19. ASSUME NEW who \in {"process", "pdf"}, SetTicket(who) PROVE TicketsKept'
  BY <1>19 DEF SetTicket, Submitted, SubmitterAt, CancelRun, Scheduler!Withdraw, StreamInv,
     TypeOK, FinishTypeOK, ThreadTypeOK, RunTypes, GateKept, AdmissionKept, TicketsKept,
     Scheduler!Live, Run
<1>20. ASSUME NEW c \in Legs, NEW success \in BOOLEAN, NEW k \in Nat, NEW streamed \in BOOLEAN,
      LegLands(c, success, k, streamed) PROVE TicketsKept'
  BY <1>20 DEF LegLands, on_collector_done, DocumentArrived, DocumentRefused, PartFailed,
     PartSucceeded, FinishCall, part_done, record_part_failure, FirstFailure, NoFinish,
     request_finish, Overrides, pump, CancelRun, Scheduler!Withdraw, StreamInv, TypeOK,
     FinishTypeOK, ThreadTypeOK, RunTypes, GateKept, AdmissionKept, TicketsKept, Submitted,
     Scheduler!Live, Run
<1>21. ASSUME NEW clean \in BOOLEAN, PdfSlice(clean) PROVE TicketsKept'
  BY <1>21 DEF PdfSlice, NotStreamed, StreamTakes, on_streamed_page, pump, StreamInv, TypeOK,
     FinishTypeOK, ThreadTypeOK, RunTypes, GateKept, AdmissionKept, TicketsKept, Submitted,
     Scheduler!Live, Run
<1>22. ASSUME NEW success \in BOOLEAN, NEW fast \in BOOLEAN, PdfEnd(success, fast) PROVE
      TicketsKept'
  BY <1>22 DEF PdfEnd, PdfAt, StreamInv, TypeOK, FinishTypeOK, ThreadTypeOK, RunTypes, GateKept,
     AdmissionKept, TicketsKept, Submitted, Scheduler!Live, Run
<1>23. CASE PdfHeld
  BY <1>23 DEF PdfHeld, PdfAt, NotStreamed, StreamTakes, on_streamed_page, pump, StreamInv,
     TypeOK, FinishTypeOK, ThreadTypeOK, RunTypes, GateKept, AdmissionKept, TicketsKept,
     Submitted, Scheduler!Live, Run
<1>24. CASE PdfLeft
  BY <1>24 DEF PdfLeft, PdfAt, StreamInv, TypeOK, FinishTypeOK, ThreadTypeOK, RunTypes, GateKept,
     AdmissionKept, TicketsKept, Submitted, Scheduler!Live, Run
<1>25. CASE PdfFallback
  BY <1>25 DEF PdfFallback, PdfAt, record_part_failure, StreamInv, TypeOK, FinishTypeOK,
     ThreadTypeOK, RunTypes, GateKept, AdmissionKept, TicketsKept, Submitted, Scheduler!Live,
     Run
<1>26. CASE PdfSubmit
  BY <1>26 DEF PdfSubmit, PdfAt, StreamInv, TypeOK, FinishTypeOK, ThreadTypeOK, RunTypes,
     GateKept, AdmissionKept, TicketsKept, Submitted, Scheduler!Live, Run
<1>27. CASE RunOpens
  BY <1>27 DEF RunOpens, Scheduler!Size, Scheduler!Live, StreamInv, TypeOK, FinishTypeOK,
     ThreadTypeOK, RunTypes, GateKept, AdmissionKept, TicketsKept, Submitted, Run
<1>28. CASE RunFails
  BY <1>28 DEF RunFails, Scheduler!Live, Scheduler!Break, StreamInv, TypeOK, FinishTypeOK,
     ThreadTypeOK, RunTypes, GateKept, AdmissionKept, TicketsKept, Submitted, Run
<1>29. CASE on_document
  BY <1>29 DEF on_document, Scheduler!Announce, StreamInv, TypeOK, FinishTypeOK, ThreadTypeOK,
     RunTypes, GateKept, AdmissionKept, TicketsKept, Submitted, Scheduler!Live, Run
<1>30. ASSUME NEW p \in Pages, on_page(p) PROVE TicketsKept'
  BY <1>30 DEF on_page, pump, Scheduler!DeliverPage, Scheduler!Deliverable, Scheduler!Live,
     StreamInv, TypeOK, FinishTypeOK, ThreadTypeOK, RunTypes, GateKept, AdmissionKept,
     TicketsKept, Submitted, Run
<1>31. ASSUME NEW p \in Pages, PageRefused(p) PROVE TicketsKept'
  BY <1>31 DEF PageRefused, Scheduler!Deliverable, Scheduler!Live, Scheduler!Withdraw,
     request_finish, Overrides, pump, StreamInv, TypeOK, FinishTypeOK, ThreadTypeOK, RunTypes,
     GateKept, AdmissionKept, TicketsKept, Submitted, Run
<1>32. ASSUME NEW why \in {"none", "failed"}, on_scheduler_finish(why) PROVE TicketsKept'
  BY <1>32 DEF on_scheduler_finish, Scheduler!Finish, Scheduler!Live, RunStatus, PartFailed,
     PartSucceeded, FinishCall, part_done, record_part_failure, FirstFailure, NoFinish,
     request_finish, Overrides, pump, StreamInv, TypeOK, FinishTypeOK, ThreadTypeOK, RunTypes,
     GateKept, AdmissionKept, TicketsKept, Submitted, Run
<1>33. CASE UNCHANGED vars
  BY <1>33 DEF vars, StreamInv, TypeOK, FinishTypeOK, ThreadTypeOK, RunTypes, GateKept,
     AdmissionKept, TicketsKept, Submitted, Scheduler!Live, Run
<1> QED BY StepCases, <1>1, <1>2, <1>3, <1>4, <1>5, <1>6, <1>7, <1>8, <1>9, <1>10, <1>11, <1>12,
    <1>13, <1>14, <1>15, <1>16, <1>17, <1>18, <1>19, <1>20, <1>21, <1>22, <1>23, <1>24, <1>25,
    <1>26, <1>27, <1>28, <1>29, <1>30, <1>31, <1>32, <1>33


\* The parts a plan opens, one for each collector that can run.
LEMMA RunnableParts ==
  ASSUME NEW pl \in SUBSET Collectors
  PROVE  Cardinality(pl \cap {"cv", "pdf", "leg"})
           = (IF "cv" \in pl THEN 1 ELSE 0) + (IF "pdf" \in pl THEN 1 ELSE 0)
               + (IF "leg" \in pl THEN 1 ELSE 0)
<1> DEFINE cv  == pl \cap {"cv"}
           pdf == pl \cap {"cv", "pdf"}
           all == pl \cap {"cv", "pdf", "leg"}
<1>1. IsFiniteSet(cv) /\ Cardinality(cv) = IF "cv" \in pl THEN 1 ELSE 0
  <2>1. ("cv" \in pl => cv = {"cv"}) /\ ("cv" \notin pl => cv = {}) OBVIOUS
  <2> QED BY <2>1, FS_EmptySet, FS_Singleton
<1>2. IsFiniteSet(pdf) /\ Cardinality(pdf) = Cardinality(cv) + IF "pdf" \in pl THEN 1 ELSE 0
  <2>1. "pdf" \in pl => pdf = cv \cup {"pdf"} OBVIOUS
  <2>2. "pdf" \notin pl => pdf = cv OBVIOUS
  <2>3. IsFiniteSet(cv \cup {"pdf"}) /\ Cardinality(cv \cup {"pdf"}) = Cardinality(cv) + 1
    BY <1>1, FS_AddElement
  <2>4. Cardinality(cv) \in Nat BY <1>1
  <2> QED BY <1>1, <2>1, <2>2, <2>3, <2>4
<1>3. Cardinality(all) = Cardinality(pdf) + IF "leg" \in pl THEN 1 ELSE 0
  <2>1. "leg" \in pl => all = pdf \cup {"leg"} OBVIOUS
  <2>2. "leg" \notin pl => all = pdf OBVIOUS
  <2>3. Cardinality(pdf \cup {"leg"}) = Cardinality(pdf) + 1
    BY <1>2, FS_AddElement
  <2>4. Cardinality(pdf) \in Nat BY <1>1, <1>2
  <2> QED BY <2>1, <2>2, <2>3, <2>4
<1> QED BY <1>1, <1>2, <1>3

\* A part closes when it is counted, or when the call is over.
LEMMA PartsStep ==
  ASSUME StreamInv, [Next]_vars
  PROVE  PartsKept'
<1>1. ASSUME NEW names \in {"same", "none", "other"}, NEW size \in {0, 1}, NEW last \in BOOLEAN,
      NEW room \in BOOLEAN, OnChunk(names, size, last, room) PROVE PartsKept'
  BY <1>1 DEF OnChunk, FinishCall, request_finish, Overrides, pump, CancelRun, Scheduler!Withdraw,
     StreamInv, TypeOK, FinishTypeOK, ThreadTypeOK, RunTypes, PartsKept, PartsOpen, LegOpen,
     RunOpen, Scheduler!Live, Run, GateKept, AdmissionKept, TicketsKept, Legs, RouteStates,
     Submitting, Submitted, SubmitterAt, PdfAt
<1>2. CASE ClientHalfClose
  BY <1>2 DEF ClientHalfClose, StreamInv, TypeOK, FinishTypeOK, ThreadTypeOK, RunTypes, PartsKept,
     PartsOpen, LegOpen, RunOpen, Scheduler!Live, Run, GateKept, AdmissionKept, TicketsKept,
     Legs, RouteStates, Submitting, Submitted, SubmitterAt, PdfAt
<1>3. CASE ClientCancel
  BY <1>3 DEF ClientCancel, StreamInv, TypeOK, FinishTypeOK, ThreadTypeOK, RunTypes, PartsKept,
     PartsOpen, LegOpen, RunOpen, Scheduler!Live, Run, GateKept, AdmissionKept, TicketsKept,
     Legs, RouteStates, Submitting, Submitted, SubmitterAt, PdfAt
<1>4. CASE OnReadClosed

  <2>1. process' # process => process = "none" /\ process' = "resolving"
    BY <1>4 DEF OnReadClosed, start_processing, StreamInv, ChargesKept
  <2> QED BY <1>4, <2>1 DEF OnReadClosed, start_processing, FinishCall, request_finish,
      Overrides, pump, CancelRun, Scheduler!Withdraw, StreamInv, TypeOK, FinishTypeOK,
      ThreadTypeOK, RunTypes, PartsKept, PartsOpen, LegOpen, RunOpen, Scheduler!Live, Run,
      GateKept, AdmissionKept, TicketsKept, Legs, RouteStates, Submitting, Submitted,
      SubmitterAt, PdfAt
<1>5. CASE OnCancel
  BY <1>5 DEF OnCancel, FinishCall, request_finish, Overrides, pump, CancelRun,
     Scheduler!Withdraw, StreamInv, TypeOK, FinishTypeOK, ThreadTypeOK, RunTypes, PartsKept,
     PartsOpen, LegOpen, RunOpen, Scheduler!Live, Run, GateKept, AdmissionKept, TicketsKept,
     Legs, RouteStates, Submitting, Submitted, SubmitterAt, PdfAt
<1>6. CASE OnWriteDone
  BY <1>6 DEF OnWriteDone, pump, Scheduler!Credit, StreamInv, TypeOK, FinishTypeOK, ThreadTypeOK,
     RunTypes, PartsKept, PartsOpen, LegOpen, RunOpen, Scheduler!Live, Run, GateKept,
     AdmissionKept, TicketsKept, Legs, RouteStates, Submitting, Submitted, SubmitterAt, PdfAt
<1>7. CASE OnWriteFailed
  BY <1>7 DEF OnWriteFailed, FinishCall, request_finish, Overrides, pump, CancelRun,
     Scheduler!Withdraw, StreamInv, TypeOK, FinishTypeOK, ThreadTypeOK, RunTypes, PartsKept,
     PartsOpen, LegOpen, RunOpen, Scheduler!Live, Run, GateKept, AdmissionKept, TicketsKept,
     Legs, RouteStates, Submitting, Submitted, SubmitterAt, PdfAt
<1>8. CASE OnDone
  BY <1>8 DEF OnDone, StreamInv, TypeOK, FinishTypeOK, ThreadTypeOK, RunTypes, PartsKept,
     PartsOpen, LegOpen, RunOpen, Scheduler!Live, Run, GateKept, AdmissionKept, TicketsKept,
     Legs, RouteStates, Submitting, Submitted, SubmitterAt, PdfAt
<1>9. CASE DropBuffer
  BY <1>9 DEF DropBuffer, StreamInv, TypeOK, FinishTypeOK, ThreadTypeOK, RunTypes, PartsKept,
     PartsOpen, LegOpen, RunOpen, Scheduler!Live, Run, GateKept, AdmissionKept, TicketsKept,
     Legs, RouteStates, Submitting, Submitted, SubmitterAt, PdfAt
<1>10. CASE ResolveRefused
  BY <1>10 DEF ResolveRefused, take_bytes, ProcessEnds, FinishCall, request_finish, Overrides,
     pump, CancelRun, Scheduler!Withdraw, StreamInv, TypeOK, FinishTypeOK, ThreadTypeOK,
     RunTypes, PartsKept, PartsOpen, LegOpen, RunOpen, Scheduler!Live, Run, GateKept,
     AdmissionKept, TicketsKept, Legs, RouteStates, Submitting, Submitted, SubmitterAt, PdfAt
<1>11. ASSUME NEW pl \in Plans, ResolvePlan(pl) PROVE PartsKept'

  <2> DEFINE runnable == pl \cap {"cv", "pdf", "leg"}
  <2>1. pl \in SUBSET Collectors BY StreamAssumption DEF StreamAssumption
  <2>2. pending_parts' = (IF "cv" \in pl THEN 1 ELSE 0) + (IF "pdf" \in pl THEN 1 ELSE 0)
                           + (IF "leg" \in pl THEN 1 ELSE 0)
    BY <1>11, <2>1, RunnableParts DEF ResolvePlan
  <2>3. ~Scheduler!Live(Run) /\ ~Scheduler!Live(Run)' /\ succeeded_parts = 0 /\ succeeded_parts'
      = 0
    BY <1>11 DEF ResolvePlan, take_bytes, FinishCall, request_finish, Overrides, pump,
        CancelRun, Scheduler!Withdraw, StreamInv, TypeOK, FinishTypeOK, ThreadTypeOK, RunTypes,
        PartsKept, PartsOpen, LegOpen, RunOpen, Scheduler!Live, Run, GateKept, AdmissionKept,
        TicketsKept, Legs, RouteStates, Submitting, Submitted, SubmitterAt, PdfAt
  <2>4. plan' = pl /\ (finish_requested /\ finish_status = "OK" => PartsOpen = 0)
    BY <1>11 DEF ResolvePlan, StreamInv, PartsKept
  <2>5. CASE runnable = {}
    <3>1. finish_requested' /\ (~finish_requested => finish_status' # "OK")
      BY <1>11, <2>5 DEF ResolvePlan, take_bytes, FinishCall, request_finish, Overrides, pump,
          CancelRun, Scheduler!Withdraw, StreamInv, TypeOK, FinishTypeOK, ThreadTypeOK,
          RunTypes, PartsKept, PartsOpen, LegOpen, RunOpen, Scheduler!Live, Run, GateKept,
          AdmissionKept, TicketsKept, Legs, RouteStates, Submitting, Submitted, SubmitterAt,
          PdfAt
    <3>2. PartsOpen' = 0 BY <1>11, <2>3, <2>4, <2>5 DEF ResolvePlan, take_bytes, FinishCall,
        request_finish, Overrides, pump, CancelRun, Scheduler!Withdraw, StreamInv, TypeOK,
        FinishTypeOK, ThreadTypeOK, RunTypes, PartsKept, PartsOpen, LegOpen, RunOpen,
        Scheduler!Live, Run, GateKept, AdmissionKept, TicketsKept, Legs, RouteStates,
        Submitting, Submitted, SubmitterAt, PdfAt
    <3> QED BY <2>3, <3>1, <3>2 DEF PartsKept
  <2>6. CASE runnable # {}
    <3>1. /\ process' = "origin" /\ UNCHANGED <<finish_requested, finish_status>>
          /\ \A c \in Legs : leg'[c] \in {"idle", "planned", "router"} /\ (leg'[c] = "idle" <=>
              c \notin pl)
      BY <1>11, <2>6 DEF ResolvePlan
    <3>2. PartsOpen' = (IF "cv" \in pl THEN 1 ELSE 0) + (IF "pdf" \in pl THEN 1 ELSE 0)
                        + (IF "leg" \in pl THEN 1 ELSE 0)
      BY <2>3, <2>4, <3>1 DEF PartsOpen, LegOpen, RunOpen, Legs
    <3>3. ~(finish_requested /\ finish_status = "OK")
      BY <1>11 DEF ResolvePlan, StreamInv, TypeOK, FinishTypeOK, ThreadTypeOK, RunTypes,
          PartsKept, PartsOpen, LegOpen, RunOpen, Scheduler!Live, Run, GateKept, AdmissionKept,
          TicketsKept, Legs, RouteStates, Submitting, Submitted, SubmitterAt, PdfAt
    <3> QED BY <2>2, <2>3, <3>1, <3>2, <3>3 DEF PartsKept
  <2> QED BY <2>5, <2>6
<1>12. CASE ProcessLaunch
  BY <1>12 DEF ProcessLaunch, StreamInv, TypeOK, FinishTypeOK, ThreadTypeOK, RunTypes, PartsKept,
     PartsOpen, LegOpen, RunOpen, Scheduler!Live, Run, GateKept, AdmissionKept, TicketsKept,
     Legs, RouteStates, Submitting, Submitted, SubmitterAt, PdfAt
<1>13. CASE ProcessGone
  BY <1>13 DEF ProcessGone, ProcessEnds, StreamInv, TypeOK, FinishTypeOK, ThreadTypeOK, RunTypes,
     PartsKept, PartsOpen, LegOpen, RunOpen, Scheduler!Live, Run, GateKept, AdmissionKept,
     TicketsKept, Legs, RouteStates, Submitting, Submitted, SubmitterAt, PdfAt
<1>14. CASE ProcessThrows
  BY <1>14 DEF ProcessThrows, ProcessEnds, FinishCall, request_finish, Overrides, pump, CancelRun,
     Scheduler!Withdraw, StreamInv, TypeOK, FinishTypeOK, ThreadTypeOK, RunTypes, PartsKept,
     PartsOpen, LegOpen, RunOpen, Scheduler!Live, Run, GateKept, AdmissionKept, TicketsKept,
     Legs, RouteStates, Submitting, Submitted, SubmitterAt, PdfAt
<1>15. CASE LaunchDone
  BY <1>15 DEF LaunchDone, StreamInv, TypeOK, FinishTypeOK, ThreadTypeOK, RunTypes, PartsKept,
     PartsOpen, LegOpen, RunOpen, Scheduler!Live, Run, GateKept, AdmissionKept, TicketsKept,
     Legs, RouteStates, Submitting, Submitted, SubmitterAt, PdfAt
<1>16. ASSUME NEW c \in Legs, LaunchLeg(c) PROVE PartsKept'
  BY <1>16 DEF LaunchLeg, StreamInv, TypeOK, FinishTypeOK, ThreadTypeOK, RunTypes, PartsKept,
     PartsOpen, LegOpen, RunOpen, Scheduler!Live, Run, GateKept, AdmissionKept, TicketsKept,
     Legs, RouteStates, Submitting, Submitted, SubmitterAt, PdfAt
<1>17. ASSUME NEW who \in {"process", "pdf"}, SubmitRun(who) PROVE PartsKept'
  BY <1>17 DEF SubmitRun, Submitting, SubmitterAt, Scheduler!Admit, StreamInv, TypeOK,
     FinishTypeOK, ThreadTypeOK, RunTypes, PartsKept, PartsOpen, LegOpen, RunOpen,
     Scheduler!Live, Run, GateKept, AdmissionKept, TicketsKept, Legs, RouteStates, Submitted,
     PdfAt
<1>18. ASSUME NEW who \in {"process", "pdf"}, SubmitRefused(who) PROVE PartsKept'
  BY <1>18 DEF SubmitRefused, Submitting, SubmitterAt, PartFailed, part_done, record_part_failure,
     FirstFailure, NoFinish, request_finish, Overrides, pump, CancelRun, Scheduler!Withdraw,
     StreamInv, TypeOK, FinishTypeOK, ThreadTypeOK, RunTypes, PartsKept, PartsOpen, LegOpen,
     RunOpen, Scheduler!Live, Run, GateKept, AdmissionKept, TicketsKept, Legs, RouteStates,
     Submitted, PdfAt
<1>19. ASSUME NEW who \in {"process", "pdf"}, SetTicket(who) PROVE PartsKept'
  BY <1>19 DEF SetTicket, Submitted, SubmitterAt, CancelRun, Scheduler!Withdraw, StreamInv,
     TypeOK, FinishTypeOK, ThreadTypeOK, RunTypes, PartsKept, PartsOpen, LegOpen, RunOpen,
     Scheduler!Live, Run, GateKept, AdmissionKept, TicketsKept, Legs, RouteStates, Submitting,
     PdfAt
<1>20. ASSUME NEW c \in Legs, NEW success \in BOOLEAN, NEW k \in Nat, NEW streamed \in BOOLEAN,
      LegLands(c, success, k, streamed) PROVE PartsKept'

  <2> SUFFICES ASSUME TRUE PROVE PartsKept' OBVIOUS
  <2>1. /\ leg' = [leg EXCEPT ![c] = "done"] /\ UNCHANGED <<process, plan>>
        /\ leg[c] \notin {"idle", "done", "ticket"}
    BY <1>20 DEF LegLands, on_collector_done
  <2>2. Scheduler!Live(Run)' = Scheduler!Live(Run)
    BY <1>20 DEF LegLands, LegLands, on_collector_done, DocumentArrived, DocumentRefused,
        PartFailed, PartSucceeded, FinishCall, part_done, record_part_failure, FirstFailure,
        NoFinish, request_finish, Overrides, pump, CancelRun, Scheduler!Withdraw, StreamInv,
        TypeOK, FinishTypeOK, ThreadTypeOK, RunTypes, PartsKept, PartsOpen, LegOpen, RunOpen,
        Scheduler!Live, Run, GateKept, AdmissionKept, TicketsKept, Legs, RouteStates,
        Submitting, Submitted, SubmitterAt, PdfAt
  <2>3. PartsOpen \in 1..3 /\ PartsOpen' = PartsOpen - 1
    BY <2>1, <2>2 DEF StreamInv, TypeOK, FinishTypeOK, ThreadTypeOK, RunTypes, PartsKept,
        PartsOpen, LegOpen, RunOpen, Scheduler!Live, Run, GateKept, AdmissionKept, TicketsKept,
        Legs, RouteStates, Submitting, Submitted, SubmitterAt, PdfAt
  <2>4. CASE gone \/ client_cancelled \/ finish_requested
    <3>1. finish_requested /\ UNCHANGED <<finish_requested, finish_status, succeeded_parts>>
      BY <1>20, <2>4 DEF LegLands, on_collector_done, StreamInv, TypeOK, FinishTypeOK,
          ThreadTypeOK, RunTypes, PartsKept, PartsOpen, LegOpen, RunOpen, Scheduler!Live, Run,
          GateKept, AdmissionKept, TicketsKept, Legs, RouteStates, Submitting, Submitted,
          SubmitterAt, PdfAt
    <3> QED BY <2>3, <3>1 DEF PartsKept, StreamInv, TypeOK, FinishTypeOK
  <2>5. CASE DocumentRefused /\ ~finish_requested
    <3>1. finish_requested' /\ finish_status' # "OK" /\ UNCHANGED succeeded_parts
      BY <2>5 DEF DocumentRefused, FinishCall, request_finish, Overrides, StreamInv, TypeOK,
          FinishTypeOK, ThreadTypeOK, RunTypes, PartsKept, PartsOpen, LegOpen, RunOpen,
          Scheduler!Live, Run, GateKept, AdmissionKept, TicketsKept, Legs, RouteStates,
          Submitting, Submitted, SubmitterAt, PdfAt
    <3> QED BY <2>3, <3>1 DEF PartsKept, StreamInv, TypeOK, FinishTypeOK
  <2>6. ASSUME NEW q, NEW settled, part_done(q, settled), ~finish_requested,
               succeeded_parts' \in {succeeded_parts, succeeded_parts + 1}
        PROVE  PartsKept'
    <3>1. pending_parts = PartsOpen BY <2>6 DEF StreamInv, PartsKept
    <3>2. pending_parts' = PartsOpen'
      BY <2>3, <2>6, <3>1 DEF part_done
    <3>3. finish_requested' /\ finish_status' = "OK" => PartsOpen' = 0
      BY <2>3, <2>6, <3>1, <3>2 DEF part_done, NoFinish, StreamInv, TicketsKept
    <3>4. succeeded_parts' + PartsOpen' <= 3
      BY <2>3, <2>6 DEF StreamInv, PartsKept, TypeOK, FinishTypeOK
    <3> QED BY <3>2, <3>3, <3>4 DEF PartsKept
  <2>7. CASE ~finish_requested /\ (DocumentArrived(c, k, streamed) \/ PartFailed(c,
      "UNAVAILABLE"))
    BY <2>6, <2>7 DEF DocumentArrived, PartFailed, PartSucceeded
  <2> QED BY <1>20, <2>4, <2>5, <2>7 DEF LegLands, on_collector_done
<1>21. ASSUME NEW clean \in BOOLEAN, PdfSlice(clean) PROVE PartsKept'
  BY <1>21 DEF PdfSlice, NotStreamed, StreamTakes, on_streamed_page, pump, StreamInv, TypeOK,
     FinishTypeOK, ThreadTypeOK, RunTypes, PartsKept, PartsOpen, LegOpen, RunOpen,
     Scheduler!Live, Run, GateKept, AdmissionKept, TicketsKept, Legs, RouteStates, Submitting,
     Submitted, SubmitterAt, PdfAt
<1>22. ASSUME NEW success \in BOOLEAN, NEW fast \in BOOLEAN, PdfEnd(success, fast) PROVE
      PartsKept'
  BY <1>22 DEF PdfEnd, PdfAt, StreamInv, TypeOK, FinishTypeOK, ThreadTypeOK, RunTypes, PartsKept,
     PartsOpen, LegOpen, RunOpen, Scheduler!Live, Run, GateKept, AdmissionKept, TicketsKept,
     Legs, RouteStates, Submitting, Submitted, SubmitterAt
<1>23. CASE PdfHeld
  BY SMTT(30), <1>23 DEF PdfHeld, PdfAt, NotStreamed, StreamTakes, on_streamed_page, pump, StreamInv,
     TypeOK, FinishTypeOK, ThreadTypeOK, RunTypes, PartsKept, PartsOpen, LegOpen, RunOpen,
     Scheduler!Live, Run, GateKept, AdmissionKept, TicketsKept, Legs, RouteStates, Submitting,
     Submitted, SubmitterAt
<1>24. CASE PdfLeft
  BY <1>24 DEF PdfLeft, PdfAt, StreamInv, TypeOK, FinishTypeOK, ThreadTypeOK, RunTypes, PartsKept,
     PartsOpen, LegOpen, RunOpen, Scheduler!Live, Run, GateKept, AdmissionKept, TicketsKept,
     Legs, RouteStates, Submitting, Submitted, SubmitterAt
<1>25. CASE PdfFallback
  BY <1>25 DEF PdfFallback, PdfAt, record_part_failure, StreamInv, TypeOK, FinishTypeOK,
     ThreadTypeOK, RunTypes, PartsKept, PartsOpen, LegOpen, RunOpen, Scheduler!Live, Run,
     GateKept, AdmissionKept, TicketsKept, Legs, RouteStates, Submitting, Submitted, SubmitterAt
<1>26. CASE PdfSubmit
  BY <1>26 DEF PdfSubmit, PdfAt, StreamInv, TypeOK, FinishTypeOK, ThreadTypeOK, RunTypes,
     PartsKept, PartsOpen, LegOpen, RunOpen, Scheduler!Live, Run, GateKept, AdmissionKept,
     TicketsKept, Legs, RouteStates, Submitting, Submitted, SubmitterAt
<1>27. CASE RunOpens
  BY <1>27 DEF RunOpens, Scheduler!Size, Scheduler!Live, StreamInv, TypeOK, FinishTypeOK,
     ThreadTypeOK, RunTypes, PartsKept, PartsOpen, LegOpen, RunOpen, Run, GateKept,
     AdmissionKept, TicketsKept, Legs, RouteStates, Submitting, Submitted, SubmitterAt, PdfAt
<1>28. CASE RunFails
  BY <1>28 DEF RunFails, Scheduler!Live, Scheduler!Break, StreamInv, TypeOK, FinishTypeOK,
     ThreadTypeOK, RunTypes, PartsKept, PartsOpen, LegOpen, RunOpen, Run, GateKept,
     AdmissionKept, TicketsKept, Legs, RouteStates, Submitting, Submitted, SubmitterAt, PdfAt
<1>29. CASE on_document
  BY <1>29 DEF on_document, Scheduler!Announce, StreamInv, TypeOK, FinishTypeOK, ThreadTypeOK,
     RunTypes, PartsKept, PartsOpen, LegOpen, RunOpen, Scheduler!Live, Run, GateKept,
     AdmissionKept, TicketsKept, Legs, RouteStates, Submitting, Submitted, SubmitterAt, PdfAt
<1>30. ASSUME NEW p \in Pages, on_page(p) PROVE PartsKept'
  BY <1>30 DEF on_page, pump, Scheduler!DeliverPage, Scheduler!Deliverable, Scheduler!Live,
     StreamInv, TypeOK, FinishTypeOK, ThreadTypeOK, RunTypes, PartsKept, PartsOpen, LegOpen,
     RunOpen, Run, GateKept, AdmissionKept, TicketsKept, Legs, RouteStates, Submitting,
     Submitted, SubmitterAt, PdfAt
<1>31. ASSUME NEW p \in Pages, PageRefused(p) PROVE PartsKept'
  BY <1>31 DEF PageRefused, Scheduler!Deliverable, Scheduler!Live, Scheduler!Withdraw,
     request_finish, Overrides, pump, StreamInv, TypeOK, FinishTypeOK, ThreadTypeOK, RunTypes,
     PartsKept, PartsOpen, LegOpen, RunOpen, Run, GateKept, AdmissionKept, TicketsKept, Legs,
     RouteStates, Submitting, Submitted, SubmitterAt, PdfAt
<1>32. ASSUME NEW why \in {"none", "failed"}, on_scheduler_finish(why) PROVE PartsKept'
  BY <1>32 DEF on_scheduler_finish, Scheduler!Finish, Scheduler!Live, RunStatus, PartFailed,
     PartSucceeded, FinishCall, part_done, record_part_failure, FirstFailure, NoFinish,
     request_finish, Overrides, pump, StreamInv, TypeOK, FinishTypeOK, ThreadTypeOK, RunTypes,
     PartsKept, PartsOpen, LegOpen, RunOpen, Run, GateKept, AdmissionKept, TicketsKept, Legs,
     RouteStates, Submitting, Submitted, SubmitterAt, PdfAt
<1>33. CASE UNCHANGED vars
  BY <1>33 DEF vars, StreamInv, TypeOK, FinishTypeOK, ThreadTypeOK, RunTypes, PartsKept,
     PartsOpen, LegOpen, RunOpen, Scheduler!Live, Run, GateKept, AdmissionKept, TicketsKept,
     Legs, RouteStates, Submitting, Submitted, SubmitterAt, PdfAt
<1> QED BY StepCases, <1>1, <1>2, <1>3, <1>4, <1>5, <1>6, <1>7, <1>8, <1>9, <1>10, <1>11, <1>12,
    <1>13, <1>14, <1>15, <1>16, <1>17, <1>18, <1>19, <1>20, <1>21, <1>22, <1>23, <1>24, <1>25,
    <1>26, <1>27, <1>28, <1>29, <1>30, <1>31, <1>32, <1>33

\* The upload stays within its bounds.
LEMMA CallTypesStep ==
  ASSUME StreamInv, [Next]_vars
  PROVE  CallTypeOK'
<1>1. ASSUME NEW names \in {"same", "none", "other"}, NEW size \in {0, 1}, NEW last \in BOOLEAN,
      NEW room \in BOOLEAN, OnChunk(names, size, last, room) PROVE CallTypeOK'

  <2>1. sent' \in 0..MaxChunks /\ MaxDocumentBytes \in Nat
    BY <1>1, StreamAssumption DEF OnChunk, StreamAssumption, StreamInv, TypeOK, CallTypeOK,
        ChargesKept, ChargeConserved, Refusal
  <2>2. CASE UNCHANGED <<complete_seen, bytes, charges>>
    BY <2>1, <2>2, <1>1 DEF OnChunk, StreamInv, TypeOK, CallTypeOK, ChargesKept,
        ChargeConserved, Refusal
  <2>3. CASE /\ Refusal(names, size, room) = "OK" /\ read_pending' = read_pending
             /\ identified' = TRUE /\ complete_seen' = last /\ bytes' = bytes + size
             /\ charged_bytes' = charged_bytes + size /\ inflight' = inflight + size
             /\ buffer_charge' = buffer_charge
    <3>1. size <= MaxDocumentBytes - bytes BY <2>1, <2>3 DEF StreamInv, TypeOK, CallTypeOK,
        ChargesKept, ChargeConserved, Refusal
    <3> QED BY <2>1, <2>3, <3>1, <1>1 DEF OnChunk, StreamInv, TypeOK, CallTypeOK, ChargesKept,
        ChargeConserved, Refusal
  <2> QED BY <2>2, <2>3, <1>1 DEF OnChunk
<1>2. CASE ClientHalfClose
  BY <1>2, StreamAssumption DEF ClientHalfClose, StreamAssumption, StreamInv, TypeOK, CallTypeOK,
     ChargesKept, ChargeConserved, Refusal
<1>3. CASE ClientCancel
  BY <1>3, StreamAssumption DEF ClientCancel, StreamAssumption, StreamInv, TypeOK, CallTypeOK,
     ChargesKept, ChargeConserved, Refusal
<1>4. CASE OnReadClosed
  BY <1>4, StreamAssumption DEF OnReadClosed, start_processing, FinishCall, request_finish,
     Overrides, pump, CancelRun, Scheduler!Withdraw, StreamAssumption, StreamInv, TypeOK,
     CallTypeOK, ChargesKept, ChargeConserved, Refusal
<1>5. CASE OnCancel
  BY <1>5, StreamAssumption DEF OnCancel, FinishCall, request_finish, Overrides, pump, CancelRun,
     Scheduler!Withdraw, StreamAssumption, StreamInv, TypeOK, CallTypeOK, ChargesKept,
     ChargeConserved, Refusal
<1>6. CASE OnWriteDone
  BY <1>6, StreamAssumption DEF OnWriteDone, pump, Scheduler!Credit, StreamAssumption, StreamInv,
     TypeOK, CallTypeOK, ChargesKept, ChargeConserved, Refusal
<1>7. CASE OnWriteFailed
  BY <1>7, StreamAssumption DEF OnWriteFailed, FinishCall, request_finish, Overrides, pump,
     CancelRun, Scheduler!Withdraw, StreamAssumption, StreamInv, TypeOK, CallTypeOK,
     ChargesKept, ChargeConserved, Refusal
<1>8. CASE OnDone
  BY <1>8, StreamAssumption DEF OnDone, StreamAssumption, StreamInv, TypeOK, CallTypeOK,
     ChargesKept, ChargeConserved, Refusal
<1>9. CASE DropBuffer
  BY <1>9, StreamAssumption DEF DropBuffer, StreamAssumption, StreamInv, TypeOK, CallTypeOK,
     ChargesKept, ChargeConserved, Refusal
<1>10. CASE ResolveRefused
  BY <1>10, StreamAssumption DEF ResolveRefused, take_bytes, ProcessEnds, FinishCall,
     request_finish, Overrides, pump, CancelRun, Scheduler!Withdraw, StreamAssumption,
     StreamInv, TypeOK, CallTypeOK, ChargesKept, ChargeConserved, Refusal
<1>11. ASSUME NEW pl \in Plans, ResolvePlan(pl) PROVE CallTypeOK'
  BY <1>11, StreamAssumption DEF ResolvePlan, take_bytes, FinishCall, request_finish, Overrides,
     pump, CancelRun, Scheduler!Withdraw, StreamAssumption, StreamInv, TypeOK, CallTypeOK,
     ChargesKept, ChargeConserved, Refusal
<1>12. CASE ProcessLaunch
  BY <1>12, StreamAssumption DEF ProcessLaunch, StreamAssumption, StreamInv, TypeOK, CallTypeOK,
     ChargesKept, ChargeConserved, Refusal
<1>13. CASE ProcessGone
  BY <1>13, StreamAssumption DEF ProcessGone, ProcessEnds, StreamAssumption, StreamInv, TypeOK,
     CallTypeOK, ChargesKept, ChargeConserved, Refusal
<1>14. CASE ProcessThrows
  BY <1>14, StreamAssumption DEF ProcessThrows, ProcessEnds, FinishCall, request_finish,
     Overrides, pump, CancelRun, Scheduler!Withdraw, StreamAssumption, StreamInv, TypeOK,
     CallTypeOK, ChargesKept, ChargeConserved, Refusal
<1>15. CASE LaunchDone
  BY <1>15, StreamAssumption DEF LaunchDone, StreamAssumption, StreamInv, TypeOK, CallTypeOK,
     ChargesKept, ChargeConserved, Refusal
<1>16. ASSUME NEW c \in Legs, LaunchLeg(c) PROVE CallTypeOK'
  BY <1>16, StreamAssumption DEF LaunchLeg, StreamAssumption, StreamInv, TypeOK, CallTypeOK,
     ChargesKept, ChargeConserved, Refusal
<1>17. ASSUME NEW who \in {"process", "pdf"}, SubmitRun(who) PROVE CallTypeOK'
  BY <1>17, StreamAssumption DEF SubmitRun, Submitting, SubmitterAt, Scheduler!Admit,
     StreamAssumption, StreamInv, TypeOK, CallTypeOK, ChargesKept, ChargeConserved, Refusal
<1>18. ASSUME NEW who \in {"process", "pdf"}, SubmitRefused(who) PROVE CallTypeOK'
  BY <1>18, StreamAssumption DEF SubmitRefused, Submitting, SubmitterAt, PartFailed, part_done,
     record_part_failure, FirstFailure, NoFinish, request_finish, Overrides, pump, CancelRun,
     Scheduler!Withdraw, StreamAssumption, StreamInv, TypeOK, CallTypeOK, ChargesKept,
     ChargeConserved, Refusal
<1>19. ASSUME NEW who \in {"process", "pdf"}, SetTicket(who) PROVE CallTypeOK'
  BY <1>19, StreamAssumption DEF SetTicket, Submitted, SubmitterAt, CancelRun, Scheduler!Withdraw,
     StreamAssumption, StreamInv, TypeOK, CallTypeOK, ChargesKept, ChargeConserved, Refusal
<1>20. ASSUME NEW c \in Legs, NEW success \in BOOLEAN, NEW k \in Nat, NEW streamed \in BOOLEAN,
      LegLands(c, success, k, streamed) PROVE CallTypeOK'
  BY <1>20, StreamAssumption DEF LegLands, on_collector_done, DocumentArrived, DocumentRefused,
     PartFailed, PartSucceeded, FinishCall, part_done, record_part_failure, FirstFailure,
     NoFinish, request_finish, Overrides, pump, CancelRun, Scheduler!Withdraw, StreamAssumption,
     StreamInv, TypeOK, CallTypeOK, ChargesKept, ChargeConserved, Refusal
<1>21. ASSUME NEW clean \in BOOLEAN, PdfSlice(clean) PROVE CallTypeOK'
  BY <1>21, StreamAssumption DEF PdfSlice, NotStreamed, StreamTakes, on_streamed_page, pump,
     StreamAssumption, StreamInv, TypeOK, CallTypeOK, ChargesKept, ChargeConserved, Refusal
<1>22. ASSUME NEW success \in BOOLEAN, NEW fast \in BOOLEAN, PdfEnd(success, fast) PROVE
      CallTypeOK'
  BY <1>22, StreamAssumption DEF PdfEnd, PdfAt, StreamAssumption, StreamInv, TypeOK, CallTypeOK,
     ChargesKept, ChargeConserved, Refusal
<1>23. CASE PdfHeld
  BY <1>23, StreamAssumption DEF PdfHeld, PdfAt, NotStreamed, StreamTakes, on_streamed_page, pump,
     StreamAssumption, StreamInv, TypeOK, CallTypeOK, ChargesKept, ChargeConserved, Refusal
<1>24. CASE PdfLeft
  BY <1>24, StreamAssumption DEF PdfLeft, PdfAt, StreamAssumption, StreamInv, TypeOK, CallTypeOK,
     ChargesKept, ChargeConserved, Refusal
<1>25. CASE PdfFallback
  BY <1>25, StreamAssumption DEF PdfFallback, PdfAt, record_part_failure, StreamAssumption,
     StreamInv, TypeOK, CallTypeOK, ChargesKept, ChargeConserved, Refusal
<1>26. CASE PdfSubmit
  BY <1>26, StreamAssumption DEF PdfSubmit, PdfAt, StreamAssumption, StreamInv, TypeOK,
     CallTypeOK, ChargesKept, ChargeConserved, Refusal
<1>27. CASE RunOpens
  BY <1>27, StreamAssumption DEF RunOpens, Scheduler!Size, Scheduler!Live, StreamAssumption,
     StreamInv, TypeOK, CallTypeOK, ChargesKept, ChargeConserved, Refusal
<1>28. CASE RunFails
  BY <1>28, StreamAssumption DEF RunFails, Scheduler!Live, Scheduler!Break, StreamAssumption,
     StreamInv, TypeOK, CallTypeOK, ChargesKept, ChargeConserved, Refusal
<1>29. CASE on_document
  BY <1>29, StreamAssumption DEF on_document, Scheduler!Announce, StreamAssumption, StreamInv,
     TypeOK, CallTypeOK, ChargesKept, ChargeConserved, Refusal
<1>30. ASSUME NEW p \in Pages, on_page(p) PROVE CallTypeOK'
  BY <1>30, StreamAssumption DEF on_page, pump, Scheduler!DeliverPage, Scheduler!Deliverable,
     Scheduler!Live, StreamAssumption, StreamInv, TypeOK, CallTypeOK, ChargesKept,
     ChargeConserved, Refusal
<1>31. ASSUME NEW p \in Pages, PageRefused(p) PROVE CallTypeOK'
  BY <1>31, StreamAssumption DEF PageRefused, Scheduler!Deliverable, Scheduler!Live,
     Scheduler!Withdraw, request_finish, Overrides, pump, StreamAssumption, StreamInv, TypeOK,
     CallTypeOK, ChargesKept, ChargeConserved, Refusal
<1>32. ASSUME NEW why \in {"none", "failed"}, on_scheduler_finish(why) PROVE CallTypeOK'
  BY <1>32, StreamAssumption DEF on_scheduler_finish, Scheduler!Finish, Scheduler!Live, RunStatus,
     PartFailed, PartSucceeded, FinishCall, part_done, record_part_failure, FirstFailure,
     NoFinish, request_finish, Overrides, pump, StreamAssumption, StreamInv, TypeOK, CallTypeOK,
     ChargesKept, ChargeConserved, Refusal
<1>33. CASE UNCHANGED vars
  BY <1>33 DEF vars, StreamInv, TypeOK, CallTypeOK, ChargesKept, ChargeConserved, Refusal
<1> QED BY StepCases, <1>1, <1>2, <1>3, <1>4, <1>5, <1>6, <1>7, <1>8, <1>9, <1>10, <1>11, <1>12,
    <1>13, <1>14, <1>15, <1>16, <1>17, <1>18, <1>19, <1>20, <1>21, <1>22, <1>23, <1>24, <1>25,
    <1>26, <1>27, <1>28, <1>29, <1>30, <1>31, <1>32, <1>33


\* A counted part leaves the finish and the parts typed.
LEMMA PartDoneTyped ==
  ASSUME FinishTypeOK, NEW q, NEW settled, part_done(q, settled), first_failure' \in Codes
  PROVE  /\ pending_parts' \in 0..3 /\ finish_status' \in Codes
         /\ {finish_requested', finish_started', ticket_cancelled'} \subseteq BOOLEAN
<1>1. FirstFailure \in Codes BY DEF FirstFailure, Codes
<1>2. pending_parts' \in 0..3 BY DEF part_done, FinishTypeOK
<1>3. NoFinish \/ \E status \in Codes : request_finish(status)
  BY <1>1 DEF part_done, Codes
<1>4. {finish_requested', ticket_cancelled'} \subseteq BOOLEAN /\ finish_status' \in Codes
  BY <1>3 DEF FinishTypeOK, NoFinish, request_finish
<1>5. finish_started' \in BOOLEAN BY DEF part_done, pump
<1> QED BY <1>2, <1>4, <1>5

\* Pages that go out are in the buffer, and none is beyond the document.
LEMMA InOrderSpan ==
  ASSUME PageTypeOK, NEW pages
  PROVE  /\ InOrder(pages) \subseteq pages /\ IsFiniteSet(InOrder(pages))
         /\ Cardinality(InOrder(pages)) \in 0..DocPages + 1 - next_page
<1>1. DocPages \in Int /\ next_page \in Int BY StreamAssumption DEF StreamAssumption, PageTypeOK
<1>2. InOrder(pages) \in SUBSET (next_page..DocPages) BY DEF InOrder
<1>3. /\ IsFiniteSet(next_page..DocPages)
      /\ Cardinality(next_page..DocPages)
           = IF next_page > DocPages THEN 0 ELSE DocPages - next_page + 1
  BY <1>1, FS_Interval
<1>4. Cardinality(InOrder(pages)) <= Cardinality(next_page..DocPages) /\ IsFiniteSet(InOrder(pages))
  BY <1>2, <1>3, FS_Subset
<1>5. Cardinality(InOrder(pages)) \in Nat BY <1>4, FS_CardinalityType
<1>6. \A n \in InOrder(pages) : n \in pages
  BY <1>1 DEF InOrder
<1> QED BY <1>1, <1>3, <1>4, <1>5, <1>6 DEF PageTypeOK

\* The parts stay countable.
LEMMA FinishTypesStep ==
  ASSUME StreamInv, PartsKept', [Next]_vars
  PROVE  FinishTypeOK'
<1>1. ASSUME NEW names \in {"same", "none", "other"}, NEW size \in {0, 1}, NEW last \in BOOLEAN,
      NEW room \in BOOLEAN, OnChunk(names, size, last, room) PROVE FinishTypeOK'

  <2>1. Refusal(names, size, room) \in Codes BY DEF Refusal, Codes
  <2> QED BY <1>1, <2>1 DEF OnChunk, FinishCall, request_finish, Overrides, pump, CancelRun,
      Scheduler!Withdraw, StreamInv, TypeOK, FinishTypeOK, Codes, Collectors, Legs
<1>2. CASE ClientHalfClose
  BY <1>2, StreamAssumption DEF ClientHalfClose, StreamAssumption, StreamInv, TypeOK,
     FinishTypeOK, Codes, Collectors, Legs
<1>3. CASE ClientCancel
  BY <1>3, StreamAssumption DEF ClientCancel, StreamAssumption, StreamInv, TypeOK, FinishTypeOK,
     Codes, Collectors, Legs
<1>4. CASE OnReadClosed
  BY <1>4, StreamAssumption DEF OnReadClosed, start_processing, FinishCall, request_finish,
     Overrides, pump, CancelRun, Scheduler!Withdraw, StreamAssumption, StreamInv, TypeOK,
     FinishTypeOK, Codes, Collectors, Legs
<1>5. CASE OnCancel
  BY <1>5, StreamAssumption DEF OnCancel, FinishCall, request_finish, Overrides, pump, CancelRun,
     Scheduler!Withdraw, StreamAssumption, StreamInv, TypeOK, FinishTypeOK, Codes, Collectors,
     Legs
<1>6. CASE OnWriteDone
  BY <1>6, StreamAssumption DEF OnWriteDone, pump, Scheduler!Credit, StreamAssumption, StreamInv,
     TypeOK, FinishTypeOK, Codes, Collectors, Legs
<1>7. CASE OnWriteFailed
  BY <1>7, StreamAssumption DEF OnWriteFailed, FinishCall, request_finish, Overrides, pump,
     CancelRun, Scheduler!Withdraw, StreamAssumption, StreamInv, TypeOK, FinishTypeOK, Codes,
     Collectors, Legs
<1>8. CASE OnDone
  BY <1>8, StreamAssumption DEF OnDone, StreamAssumption, StreamInv, TypeOK, FinishTypeOK, Codes,
     Collectors, Legs
<1>9. CASE DropBuffer
  BY <1>9, StreamAssumption DEF DropBuffer, StreamAssumption, StreamInv, TypeOK, FinishTypeOK,
     Codes, Collectors, Legs
<1>10. CASE ResolveRefused
  BY <1>10, StreamAssumption DEF ResolveRefused, take_bytes, ProcessEnds, FinishCall,
     request_finish, Overrides, pump, CancelRun, Scheduler!Withdraw, StreamAssumption,
     StreamInv, TypeOK, FinishTypeOK, Codes, Collectors, Legs
<1>11. ASSUME NEW pl \in Plans, ResolvePlan(pl) PROVE FinishTypeOK'

  <2>1. pl \in SUBSET Collectors BY StreamAssumption DEF StreamAssumption
  <2>2. pending_parts' \in 0..3 BY <1>11, <2>1, RunnableParts DEF ResolvePlan
  <2>3. failures' \subseteq Collectors /\ first_failure' \in Codes
    BY <1>11, <2>1 DEF ResolvePlan, Codes
  <2>4. /\ finish_status' \in Codes
        /\ {finish_requested', finish_started', ticket_cancelled'} \subseteq BOOLEAN
    BY <1>11 DEF ResolvePlan, take_bytes, FinishCall, request_finish, Overrides, pump,
        CancelRun, Scheduler!Withdraw, StreamInv, TypeOK, FinishTypeOK, Codes, Collectors, Legs
  <2> QED BY <1>11, <2>2, <2>3, <2>4 DEF ResolvePlan, StreamInv, TypeOK, FinishTypeOK, Codes,
      Collectors, Legs
<1>12. CASE ProcessLaunch
  BY <1>12, StreamAssumption DEF ProcessLaunch, StreamAssumption, StreamInv, TypeOK, FinishTypeOK,
     Codes, Collectors, Legs
<1>13. CASE ProcessGone
  BY <1>13, StreamAssumption DEF ProcessGone, ProcessEnds, StreamAssumption, StreamInv, TypeOK,
     FinishTypeOK, Codes, Collectors, Legs
<1>14. CASE ProcessThrows
  BY <1>14, StreamAssumption DEF ProcessThrows, ProcessEnds, FinishCall, request_finish,
     Overrides, pump, CancelRun, Scheduler!Withdraw, StreamAssumption, StreamInv, TypeOK,
     FinishTypeOK, Codes, Collectors, Legs
<1>15. CASE LaunchDone
  BY <1>15, StreamAssumption DEF LaunchDone, StreamAssumption, StreamInv, TypeOK, FinishTypeOK,
     Codes, Collectors, Legs
<1>16. ASSUME NEW c \in Legs, LaunchLeg(c) PROVE FinishTypeOK'
  BY <1>16, StreamAssumption DEF LaunchLeg, StreamAssumption, StreamInv, TypeOK, FinishTypeOK,
     Codes, Collectors, Legs
<1>17. ASSUME NEW who \in {"process", "pdf"}, SubmitRun(who) PROVE FinishTypeOK'
  BY <1>17, StreamAssumption DEF SubmitRun, Submitting, SubmitterAt, Scheduler!Admit,
     StreamAssumption, StreamInv, TypeOK, FinishTypeOK, Codes, Collectors, Legs
<1>18. ASSUME NEW who \in {"process", "pdf"}, SubmitRefused(who) PROVE FinishTypeOK'

  <2>1. FinishTypeOK BY DEF StreamInv, TypeOK, FinishTypeOK, Codes, Collectors, Legs
  <2>2. failures' \subseteq Collectors /\ first_failure' \in Codes
    BY <1>18, <2>1 DEF SubmitRefused, PartFailed, record_part_failure, StreamInv, TypeOK,
        FinishTypeOK, Codes, Collectors, Legs
  <2>3. succeeded_parts' = succeeded_parts
    BY <1>18 DEF SubmitRefused, PartFailed
  <2> QED BY <1>18, <2>1, <2>2, <2>3, PartDoneTyped DEF SubmitRefused, PartFailed, FinishTypeOK
<1>19. ASSUME NEW who \in {"process", "pdf"}, SetTicket(who) PROVE FinishTypeOK'
  BY <1>19, StreamAssumption DEF SetTicket, Submitted, SubmitterAt, CancelRun, Scheduler!Withdraw,
     StreamAssumption, StreamInv, TypeOK, FinishTypeOK, Codes, Collectors, Legs
<1>20. ASSUME NEW c \in Legs, NEW success \in BOOLEAN, NEW k \in Nat, NEW streamed \in BOOLEAN,
      LegLands(c, success, k, streamed) PROVE FinishTypeOK'

  <2>1. FinishTypeOK BY DEF StreamInv, TypeOK, FinishTypeOK, Codes, Collectors, Legs
  <2>2. CASE UNCHANGED <<finishes, parts, ticket_cancelled>>
    BY <2>1, <2>2, <1>20 DEF LegLands, on_collector_done, FinishTypeOK
  <2>3. CASE DocumentArrived(c, k, streamed)
    <3>1. PICK q, settled : PartSucceeded(q, settled)
      BY <2>3 DEF DocumentArrived
    <3>2. failures' = failures /\ first_failure' \in Codes
      BY <2>1, <3>1 DEF PartSucceeded, FinishTypeOK
    <3>3. succeeded_parts' \in 0..3
      BY <2>1, <3>1 DEF PartSucceeded, FinishTypeOK, PartsKept, PartsOpen, LegOpen, RunOpen
    <3> QED BY <2>1, <3>1, <3>2, <3>3, <1>20, PartDoneTyped
        DEF LegLands, on_collector_done, PartSucceeded, FinishTypeOK
  <2>4. CASE DocumentRefused
    BY <2>1, <2>4, <1>20 DEF DocumentRefused, FinishCall, request_finish, pump, LegLands,
       on_collector_done, FinishTypeOK, Codes
  <2>5. CASE PartFailed(c, "UNAVAILABLE")
    <3>1. failures' \subseteq Collectors /\ first_failure' \in Codes
      BY <1>20, <2>1, <2>5 DEF PartFailed, record_part_failure, StreamInv, TypeOK, FinishTypeOK,
          Codes, Collectors, Legs
    <3>2. succeeded_parts' = succeeded_parts BY <2>5 DEF PartFailed
    <3> QED BY <1>20, <2>1, <2>5, <3>1, <3>2, PartDoneTyped
        DEF LegLands, on_collector_done, PartFailed, FinishTypeOK
  <2> QED BY <1>20, <2>2, <2>3, <2>4, <2>5 DEF LegLands, on_collector_done
<1>21. ASSUME NEW clean \in BOOLEAN, PdfSlice(clean) PROVE FinishTypeOK'
  BY <1>21, StreamAssumption DEF PdfSlice, NotStreamed, StreamTakes, on_streamed_page, pump,
     StreamAssumption, StreamInv, TypeOK, FinishTypeOK, Codes, Collectors, Legs
<1>22. ASSUME NEW success \in BOOLEAN, NEW fast \in BOOLEAN, PdfEnd(success, fast) PROVE
      FinishTypeOK'
  BY <1>22, StreamAssumption DEF PdfEnd, PdfAt, StreamAssumption, StreamInv, TypeOK, FinishTypeOK,
     Codes, Collectors, Legs
<1>23. CASE PdfHeld
  BY <1>23, StreamAssumption DEF PdfHeld, PdfAt, NotStreamed, StreamTakes, on_streamed_page, pump,
     StreamAssumption, StreamInv, TypeOK, FinishTypeOK, Codes, Collectors, Legs
<1>24. CASE PdfLeft
  BY <1>24, StreamAssumption DEF PdfLeft, PdfAt, StreamAssumption, StreamInv, TypeOK,
     FinishTypeOK, Codes, Collectors, Legs
<1>25. CASE PdfFallback
  BY <1>25, StreamAssumption DEF PdfFallback, PdfAt, record_part_failure, StreamAssumption,
     StreamInv, TypeOK, FinishTypeOK, Codes, Collectors, Legs
<1>26. CASE PdfSubmit
  BY <1>26, StreamAssumption DEF PdfSubmit, PdfAt, StreamAssumption, StreamInv, TypeOK,
     FinishTypeOK, Codes, Collectors, Legs
<1>27. CASE RunOpens
  BY <1>27, StreamAssumption DEF RunOpens, Scheduler!Size, Scheduler!Live, StreamAssumption,
     StreamInv, TypeOK, FinishTypeOK, Codes, Collectors, Legs
<1>28. CASE RunFails
  BY <1>28, StreamAssumption DEF RunFails, Scheduler!Live, Scheduler!Break, StreamAssumption,
     StreamInv, TypeOK, FinishTypeOK, Codes, Collectors, Legs
<1>29. CASE on_document
  BY <1>29, StreamAssumption DEF on_document, Scheduler!Announce, StreamAssumption, StreamInv,
     TypeOK, FinishTypeOK, Codes, Collectors, Legs
<1>30. ASSUME NEW p \in Pages, on_page(p) PROVE FinishTypeOK'
  BY <1>30, StreamAssumption DEF on_page, pump, Scheduler!DeliverPage, Scheduler!Deliverable,
     Scheduler!Live, StreamAssumption, StreamInv, TypeOK, FinishTypeOK, Codes, Collectors, Legs
<1>31. ASSUME NEW p \in Pages, PageRefused(p) PROVE FinishTypeOK'
  BY <1>31, StreamAssumption DEF PageRefused, Scheduler!Deliverable, Scheduler!Live,
     Scheduler!Withdraw, request_finish, Overrides, pump, StreamAssumption, StreamInv, TypeOK,
     FinishTypeOK, Codes, Collectors, Legs
<1>32. ASSUME NEW why \in {"none", "failed"}, on_scheduler_finish(why) PROVE FinishTypeOK'

  <2>1. FinishTypeOK /\ RunStatus(why) \in Codes BY DEF RunStatus, StreamInv, TypeOK,
      FinishTypeOK, Codes, Collectors, Legs
  <2>2. CASE UNCHANGED <<finishes, parts, ticket_cancelled>>
    BY <2>1, <2>2, <1>32 DEF on_scheduler_finish, FinishTypeOK
  <2>3. CASE FinishCall("CANCELLED") /\ UNCHANGED parts
    BY <2>1, <2>3, <1>32 DEF FinishCall, request_finish, pump, on_scheduler_finish,
        FinishTypeOK, Codes
  <2>4. CASE PartSucceeded(events, fold_settled)
    <3>1. failures' = failures /\ first_failure' \in Codes
      BY <2>1, <2>4 DEF PartSucceeded, FinishTypeOK
    <3>2. succeeded_parts' \in 0..3
      BY <2>1, <2>4 DEF PartSucceeded, FinishTypeOK, PartsKept, PartsOpen, LegOpen, RunOpen
    <3> QED BY <2>1, <2>4, <3>1, <3>2, <1>32, PartDoneTyped
        DEF on_scheduler_finish, PartSucceeded, FinishTypeOK
  <2>5. CASE PartFailed("cv", RunStatus(why))
    <3>1. failures' \subseteq Collectors /\ first_failure' \in Codes
      BY <2>1, <2>5 DEF PartFailed, record_part_failure, StreamInv, TypeOK, FinishTypeOK, Codes,
          Collectors, Legs
    <3>2. succeeded_parts' = succeeded_parts BY <2>5 DEF PartFailed
    <3> QED BY <1>32, <2>1, <2>5, <3>1, <3>2, PartDoneTyped
        DEF on_scheduler_finish, PartFailed, FinishTypeOK
  <2> QED BY <1>32, <2>2, <2>3, <2>4, <2>5 DEF on_scheduler_finish
<1>33. CASE UNCHANGED vars
  BY <1>33 DEF vars, StreamInv, TypeOK, FinishTypeOK, Codes, Collectors, Legs
<1> QED BY StepCases, <1>1, <1>2, <1>3, <1>4, <1>5, <1>6, <1>7, <1>8, <1>9, <1>10, <1>11, <1>12,
    <1>13, <1>14, <1>15, <1>16, <1>17, <1>18, <1>19, <1>20, <1>21, <1>22, <1>23, <1>24, <1>25,
    <1>26, <1>27, <1>28, <1>29, <1>30, <1>31, <1>32, <1>33

\* The pages a call holds and the page it expects stay within the document.
LEMMA PageTypesStep ==
  ASSUME StreamInv, [Next]_vars
  PROVE  PageTypeOK'
<1>1. ASSUME NEW names \in {"same", "none", "other"}, NEW size \in {0, 1}, NEW last \in BOOLEAN,
      NEW room \in BOOLEAN, OnChunk(names, size, last, room) PROVE PageTypeOK'
  BY <1>1, StreamAssumption DEF OnChunk, FinishCall, request_finish, Overrides, pump, CancelRun,
     Scheduler!Withdraw, StreamAssumption, StreamInv, TypeOK, PageTypeOK, ThreadTypeOK,
     RunTypes, Pages
<1>2. CASE ClientHalfClose
  BY <1>2, StreamAssumption DEF ClientHalfClose, StreamAssumption, StreamInv, TypeOK, PageTypeOK,
     ThreadTypeOK, RunTypes, Pages
<1>3. CASE ClientCancel
  BY <1>3, StreamAssumption DEF ClientCancel, StreamAssumption, StreamInv, TypeOK, PageTypeOK,
     ThreadTypeOK, RunTypes, Pages
<1>4. CASE OnReadClosed
  BY <1>4, StreamAssumption DEF OnReadClosed, start_processing, FinishCall, request_finish,
     Overrides, pump, CancelRun, Scheduler!Withdraw, StreamAssumption, StreamInv, TypeOK,
     PageTypeOK, ThreadTypeOK, RunTypes, Pages
<1>5. CASE OnCancel
  BY <1>5, StreamAssumption DEF OnCancel, FinishCall, request_finish, Overrides, pump, CancelRun,
     Scheduler!Withdraw, StreamAssumption, StreamInv, TypeOK, PageTypeOK, ThreadTypeOK,
     RunTypes, Pages
<1>6. CASE OnWriteDone
  BY <1>6, StreamAssumption DEF OnWriteDone, pump, Scheduler!Credit, StreamAssumption, StreamInv,
     TypeOK, PageTypeOK, ThreadTypeOK, RunTypes, Pages
<1>7. CASE OnWriteFailed
  BY <1>7, StreamAssumption DEF OnWriteFailed, FinishCall, request_finish, Overrides, pump,
     CancelRun, Scheduler!Withdraw, StreamAssumption, StreamInv, TypeOK, PageTypeOK,
     ThreadTypeOK, RunTypes, Pages
<1>8. CASE OnDone
  BY <1>8, StreamAssumption DEF OnDone, StreamAssumption, StreamInv, TypeOK, PageTypeOK,
     ThreadTypeOK, RunTypes, Pages
<1>9. CASE DropBuffer
  BY <1>9, StreamAssumption DEF DropBuffer, StreamAssumption, StreamInv, TypeOK, PageTypeOK,
     ThreadTypeOK, RunTypes, Pages
<1>10. CASE ResolveRefused
  BY <1>10, StreamAssumption DEF ResolveRefused, take_bytes, ProcessEnds, FinishCall,
     request_finish, Overrides, pump, CancelRun, Scheduler!Withdraw, StreamAssumption,
     StreamInv, TypeOK, PageTypeOK, ThreadTypeOK, RunTypes, Pages
<1>11. ASSUME NEW pl \in Plans, ResolvePlan(pl) PROVE PageTypeOK'
  BY <1>11, StreamAssumption DEF ResolvePlan, take_bytes, FinishCall, request_finish, Overrides,
     pump, CancelRun, Scheduler!Withdraw, StreamAssumption, StreamInv, TypeOK, PageTypeOK,
     ThreadTypeOK, RunTypes, Pages
<1>12. CASE ProcessLaunch
  BY <1>12, StreamAssumption DEF ProcessLaunch, StreamAssumption, StreamInv, TypeOK, PageTypeOK,
     ThreadTypeOK, RunTypes, Pages
<1>13. CASE ProcessGone
  BY <1>13, StreamAssumption DEF ProcessGone, ProcessEnds, StreamAssumption, StreamInv, TypeOK,
     PageTypeOK, ThreadTypeOK, RunTypes, Pages
<1>14. CASE ProcessThrows
  BY <1>14, StreamAssumption DEF ProcessThrows, ProcessEnds, FinishCall, request_finish,
     Overrides, pump, CancelRun, Scheduler!Withdraw, StreamAssumption, StreamInv, TypeOK,
     PageTypeOK, ThreadTypeOK, RunTypes, Pages
<1>15. CASE LaunchDone
  BY <1>15, StreamAssumption DEF LaunchDone, StreamAssumption, StreamInv, TypeOK, PageTypeOK,
     ThreadTypeOK, RunTypes, Pages
<1>16. ASSUME NEW c \in Legs, LaunchLeg(c) PROVE PageTypeOK'
  BY <1>16, StreamAssumption DEF LaunchLeg, StreamAssumption, StreamInv, TypeOK, PageTypeOK,
     ThreadTypeOK, RunTypes, Pages
<1>17. ASSUME NEW who \in {"process", "pdf"}, SubmitRun(who) PROVE PageTypeOK'
  BY <1>17, StreamAssumption DEF SubmitRun, Submitting, SubmitterAt, Scheduler!Admit,
     StreamAssumption, StreamInv, TypeOK, PageTypeOK, ThreadTypeOK, RunTypes, Pages
<1>18. ASSUME NEW who \in {"process", "pdf"}, SubmitRefused(who) PROVE PageTypeOK'
  BY <1>18, StreamAssumption DEF SubmitRefused, Submitting, SubmitterAt, PartFailed, part_done,
     record_part_failure, FirstFailure, NoFinish, request_finish, Overrides, pump, CancelRun,
     Scheduler!Withdraw, StreamAssumption, StreamInv, TypeOK, PageTypeOK, ThreadTypeOK,
     RunTypes, Pages
<1>19. ASSUME NEW who \in {"process", "pdf"}, SetTicket(who) PROVE PageTypeOK'
  BY <1>19, StreamAssumption DEF SetTicket, Submitted, SubmitterAt, CancelRun, Scheduler!Withdraw,
     StreamAssumption, StreamInv, TypeOK, PageTypeOK, ThreadTypeOK, RunTypes, Pages
<1>20. ASSUME NEW c \in Legs, NEW success \in BOOLEAN, NEW k \in Nat, NEW streamed \in BOOLEAN,
      LegLands(c, success, k, streamed) PROVE PageTypeOK'
  BY <1>20, StreamAssumption DEF LegLands, on_collector_done, DocumentArrived, DocumentRefused,
     PartFailed, PartSucceeded, FinishCall, part_done, record_part_failure, FirstFailure,
     NoFinish, request_finish, Overrides, pump, CancelRun, Scheduler!Withdraw, StreamAssumption,
     StreamInv, TypeOK, PageTypeOK, ThreadTypeOK, RunTypes, Pages
<1>21. ASSUME NEW clean \in BOOLEAN, PdfSlice(clean) PROVE PageTypeOK'

  <2>1. CASE NotStreamed BY <2>1 DEF NotStreamed, StreamInv, TypeOK, PageTypeOK, ThreadTypeOK,
      RunTypes, Pages
  <2>2. CASE on_streamed_page(pdf_next)
    BY <1>21, <2>2, StreamAssumption DEF PdfSlice, on_streamed_page, StreamAssumption,
        StreamInv, TypeOK, PageTypeOK, ThreadTypeOK, RunTypes, Pages
  <2> QED BY <1>21, <2>1, <2>2 DEF PdfSlice
<1>22. ASSUME NEW success \in BOOLEAN, NEW fast \in BOOLEAN, PdfEnd(success, fast) PROVE
      PageTypeOK'
  BY <1>22, StreamAssumption DEF PdfEnd, PdfAt, StreamAssumption, StreamInv, TypeOK, PageTypeOK,
     ThreadTypeOK, RunTypes, Pages
<1>23. CASE PdfHeld

  <2>1. CASE NotStreamed BY <2>1 DEF NotStreamed, StreamInv, TypeOK, PageTypeOK, ThreadTypeOK,
      RunTypes, Pages
  <2>2. CASE pdf_held # <<>> /\ on_streamed_page(Head(pdf_held))
    <3>1. pdf_held \in Seq(Pages) BY DEF StreamInv, TypeOK, ThreadTypeOK
    <3>2. Head(pdf_held) \in Pages BY <2>2, <3>1
    <3>3. Head(pdf_held) \in 1..DocPages BY <3>2 DEF Pages
    <3> QED BY <2>2, <3>3, StreamAssumption DEF on_streamed_page, StreamAssumption, StreamInv,
        TypeOK, PageTypeOK, ThreadTypeOK, RunTypes, Pages
  <2> QED BY <1>23, <2>1, <2>2 DEF PdfHeld
<1>24. CASE PdfLeft
  BY <1>24, StreamAssumption DEF PdfLeft, PdfAt, StreamAssumption, StreamInv, TypeOK, PageTypeOK,
     ThreadTypeOK, RunTypes, Pages
<1>25. CASE PdfFallback
  BY <1>25, StreamAssumption DEF PdfFallback, PdfAt, record_part_failure, StreamAssumption,
     StreamInv, TypeOK, PageTypeOK, ThreadTypeOK, RunTypes, Pages
<1>26. CASE PdfSubmit
  BY <1>26, StreamAssumption DEF PdfSubmit, PdfAt, StreamAssumption, StreamInv, TypeOK,
     PageTypeOK, ThreadTypeOK, RunTypes, Pages
<1>27. CASE RunOpens
  BY <1>27, StreamAssumption DEF RunOpens, Scheduler!Size, Scheduler!Live, StreamAssumption,
     StreamInv, TypeOK, PageTypeOK, ThreadTypeOK, RunTypes, Pages
<1>28. CASE RunFails
  BY <1>28, StreamAssumption DEF RunFails, Scheduler!Live, Scheduler!Break, StreamAssumption,
     StreamInv, TypeOK, PageTypeOK, ThreadTypeOK, RunTypes, Pages
<1>29. CASE on_document
  BY <1>29, StreamAssumption DEF on_document, Scheduler!Announce, StreamAssumption, StreamInv,
     TypeOK, PageTypeOK, ThreadTypeOK, RunTypes, Pages
<1>30. ASSUME NEW p \in Pages, on_page(p) PROVE PageTypeOK'

  <2> DEFINE pages == completed_pages \cup {p}
             out   == InOrder(pages)
  <2>1. /\ buffered_pages' = buffered_pages + 1 /\ buffered_pages < PageWindow
        /\ completed_pages' = pages \ out /\ next_page' = next_page + Cardinality(out)
        /\ total_pages' = total_pages
    BY <1>30 DEF on_page
  <2>2. Cardinality(out) \in 0..DocPages + 1 - next_page
    BY InOrderSpan DEF StreamInv, TypeOK
  <2>3. next_page' \in 1..DocPages + 1
    BY <2>1, <2>2, StreamAssumption DEF StreamAssumption, StreamInv, TypeOK, PageTypeOK,
        ThreadTypeOK, RunTypes, Pages
  <2>4. buffered_pages' \in 0..PageWindow
    BY <2>1, StreamAssumption DEF StreamAssumption, StreamInv, TypeOK, PageTypeOK, ThreadTypeOK,
        RunTypes, Pages
  <2>5. completed_pages' \subseteq Pages BY <2>1 DEF StreamInv, TypeOK, PageTypeOK
  <2> QED BY <2>1, <2>3, <2>4, <2>5 DEF StreamInv, TypeOK, PageTypeOK
<1>31. ASSUME NEW p \in Pages, PageRefused(p) PROVE PageTypeOK'

  <2>1. buffered_pages' \in {0, 1} \/ UNCHANGED buffered_pages BY <1>31 DEF PageRefused
  <2>2. completed_pages' \subseteq completed_pages /\ UNCHANGED <<next_page, total_pages>>
    BY <1>31 DEF PageRefused
  <2> QED BY <2>1, <2>2, StreamAssumption DEF StreamAssumption, StreamInv, TypeOK, PageTypeOK,
      ThreadTypeOK, RunTypes, Pages
<1>32. ASSUME NEW why \in {"none", "failed"}, on_scheduler_finish(why) PROVE PageTypeOK'
  BY <1>32, StreamAssumption DEF on_scheduler_finish, Scheduler!Finish, Scheduler!Live, RunStatus,
     PartFailed, PartSucceeded, FinishCall, part_done, record_part_failure, FirstFailure,
     NoFinish, request_finish, Overrides, pump, StreamAssumption, StreamInv, TypeOK, PageTypeOK,
     ThreadTypeOK, RunTypes, Pages
<1>33. CASE UNCHANGED vars
  BY <1>33 DEF vars, StreamInv, TypeOK, PageTypeOK, ThreadTypeOK, RunTypes, Pages
<1> QED BY StepCases, <1>1, <1>2, <1>3, <1>4, <1>5, <1>6, <1>7, <1>8, <1>9, <1>10, <1>11, <1>12,
    <1>13, <1>14, <1>15, <1>16, <1>17, <1>18, <1>19, <1>20, <1>21, <1>22, <1>23, <1>24, <1>25,
    <1>26, <1>27, <1>28, <1>29, <1>30, <1>31, <1>32, <1>33

\* The pdf route moves on alone.
LEMMA PdfStep ==
  ASSUME StreamInv, [Next]_vars
  PROVE  PdfKept'
<1>1. ASSUME NEW names \in {"same", "none", "other"}, NEW size \in {0, 1}, NEW last \in BOOLEAN,
      NEW room \in BOOLEAN, OnChunk(names, size, last, room) PROVE PdfKept'
  BY <1>1, StreamAssumption DEF OnChunk, FinishCall, request_finish, Overrides, pump, CancelRun,
     Scheduler!Withdraw, StreamAssumption, StreamInv, TypeOK, PageTypeOK, ThreadTypeOK,
     RunTypes, GateKept, AdmissionKept, PdfKept, Legs, RouteStates, Pages, Submitting,
     Submitted, SubmitterAt, PdfAt
<1>2. CASE ClientHalfClose
  BY <1>2, StreamAssumption DEF ClientHalfClose, StreamAssumption, StreamInv, TypeOK, PageTypeOK,
     ThreadTypeOK, RunTypes, GateKept, AdmissionKept, PdfKept, Legs, RouteStates, Pages,
     Submitting, Submitted, SubmitterAt, PdfAt
<1>3. CASE ClientCancel
  BY <1>3, StreamAssumption DEF ClientCancel, StreamAssumption, StreamInv, TypeOK, PageTypeOK,
     ThreadTypeOK, RunTypes, GateKept, AdmissionKept, PdfKept, Legs, RouteStates, Pages,
     Submitting, Submitted, SubmitterAt, PdfAt
<1>4. CASE OnReadClosed

  <2>1. process' # process => process = "none" /\ process' = "resolving"
    BY <1>4 DEF OnReadClosed, start_processing, StreamInv, ChargesKept
  <2> QED BY <1>4, <2>1 DEF OnReadClosed, StreamInv, TypeOK, PageTypeOK, ThreadTypeOK, RunTypes,
      GateKept, AdmissionKept, PdfKept, Legs, RouteStates, Pages, Submitting, Submitted,
      SubmitterAt, PdfAt
<1>5. CASE OnCancel
  BY <1>5, StreamAssumption DEF OnCancel, FinishCall, request_finish, Overrides, pump, CancelRun,
     Scheduler!Withdraw, StreamAssumption, StreamInv, TypeOK, PageTypeOK, ThreadTypeOK,
     RunTypes, GateKept, AdmissionKept, PdfKept, Legs, RouteStates, Pages, Submitting,
     Submitted, SubmitterAt, PdfAt
<1>6. CASE OnWriteDone
  BY <1>6, StreamAssumption DEF OnWriteDone, pump, Scheduler!Credit, StreamAssumption, StreamInv,
     TypeOK, PageTypeOK, ThreadTypeOK, RunTypes, GateKept, AdmissionKept, PdfKept, Legs,
     RouteStates, Pages, Submitting, Submitted, SubmitterAt, PdfAt
<1>7. CASE OnWriteFailed
  BY <1>7, StreamAssumption DEF OnWriteFailed, FinishCall, request_finish, Overrides, pump,
     CancelRun, Scheduler!Withdraw, StreamAssumption, StreamInv, TypeOK, PageTypeOK,
     ThreadTypeOK, RunTypes, GateKept, AdmissionKept, PdfKept, Legs, RouteStates, Pages,
     Submitting, Submitted, SubmitterAt, PdfAt
<1>8. CASE OnDone
  BY <1>8, StreamAssumption DEF OnDone, StreamAssumption, StreamInv, TypeOK, PageTypeOK,
     ThreadTypeOK, RunTypes, GateKept, AdmissionKept, PdfKept, Legs, RouteStates, Pages,
     Submitting, Submitted, SubmitterAt, PdfAt
<1>9. CASE DropBuffer
  BY <1>9, StreamAssumption DEF DropBuffer, StreamAssumption, StreamInv, TypeOK, PageTypeOK,
     ThreadTypeOK, RunTypes, GateKept, AdmissionKept, PdfKept, Legs, RouteStates, Pages,
     Submitting, Submitted, SubmitterAt, PdfAt
<1>10. CASE ResolveRefused
  BY <1>10, StreamAssumption DEF ResolveRefused, take_bytes, ProcessEnds, FinishCall,
     request_finish, Overrides, pump, CancelRun, Scheduler!Withdraw, StreamAssumption,
     StreamInv, TypeOK, PageTypeOK, ThreadTypeOK, RunTypes, GateKept, AdmissionKept, PdfKept,
     Legs, RouteStates, Pages, Submitting, Submitted, SubmitterAt, PdfAt
<1>11. ASSUME NEW pl \in Plans, ResolvePlan(pl) PROVE PdfKept'
  BY <1>11, StreamAssumption DEF ResolvePlan, take_bytes, FinishCall, request_finish, Overrides,
     pump, CancelRun, Scheduler!Withdraw, StreamAssumption, StreamInv, TypeOK, PageTypeOK,
     ThreadTypeOK, RunTypes, GateKept, AdmissionKept, PdfKept, Legs, RouteStates, Pages,
     Submitting, Submitted, SubmitterAt, PdfAt
<1>12. CASE ProcessLaunch
  BY <1>12, StreamAssumption DEF ProcessLaunch, StreamAssumption, StreamInv, TypeOK, PageTypeOK,
     ThreadTypeOK, RunTypes, GateKept, AdmissionKept, PdfKept, Legs, RouteStates, Pages,
     Submitting, Submitted, SubmitterAt, PdfAt
<1>13. CASE ProcessGone
  BY <1>13, StreamAssumption DEF ProcessGone, ProcessEnds, StreamAssumption, StreamInv, TypeOK,
     PageTypeOK, ThreadTypeOK, RunTypes, GateKept, AdmissionKept, PdfKept, Legs, RouteStates,
     Pages, Submitting, Submitted, SubmitterAt, PdfAt
<1>14. CASE ProcessThrows
  BY <1>14, StreamAssumption DEF ProcessThrows, ProcessEnds, FinishCall, request_finish,
     Overrides, pump, CancelRun, Scheduler!Withdraw, StreamAssumption, StreamInv, TypeOK,
     PageTypeOK, ThreadTypeOK, RunTypes, GateKept, AdmissionKept, PdfKept, Legs, RouteStates,
     Pages, Submitting, Submitted, SubmitterAt, PdfAt
<1>15. CASE LaunchDone
  BY <1>15, StreamAssumption DEF LaunchDone, StreamAssumption, StreamInv, TypeOK, PageTypeOK,
     ThreadTypeOK, RunTypes, GateKept, AdmissionKept, PdfKept, Legs, RouteStates, Pages,
     Submitting, Submitted, SubmitterAt, PdfAt
<1>16. ASSUME NEW c \in Legs, LaunchLeg(c) PROVE PdfKept'
  BY <1>16, StreamAssumption DEF LaunchLeg, StreamAssumption, StreamInv, TypeOK, PageTypeOK,
     ThreadTypeOK, RunTypes, GateKept, AdmissionKept, PdfKept, Legs, RouteStates, Pages,
     Submitting, Submitted, SubmitterAt, PdfAt
<1>17. ASSUME NEW who \in {"process", "pdf"}, SubmitRun(who) PROVE PdfKept'
  BY <1>17, StreamAssumption DEF SubmitRun, Submitting, SubmitterAt, Scheduler!Admit,
     StreamAssumption, StreamInv, TypeOK, PageTypeOK, ThreadTypeOK, RunTypes, GateKept,
     AdmissionKept, PdfKept, Legs, RouteStates, Pages, Submitted, PdfAt
<1>18. ASSUME NEW who \in {"process", "pdf"}, SubmitRefused(who) PROVE PdfKept'
  BY <1>18, StreamAssumption DEF SubmitRefused, Submitting, SubmitterAt, PartFailed, part_done,
     record_part_failure, FirstFailure, NoFinish, request_finish, Overrides, pump, CancelRun,
     Scheduler!Withdraw, StreamAssumption, StreamInv, TypeOK, PageTypeOK, ThreadTypeOK,
     RunTypes, GateKept, AdmissionKept, PdfKept, Legs, RouteStates, Pages, Submitted, PdfAt
<1>19. ASSUME NEW who \in {"process", "pdf"}, SetTicket(who) PROVE PdfKept'
  BY <1>19, StreamAssumption DEF SetTicket, Submitted, SubmitterAt, CancelRun, Scheduler!Withdraw,
     StreamAssumption, StreamInv, TypeOK, PageTypeOK, ThreadTypeOK, RunTypes, GateKept,
     AdmissionKept, PdfKept, Legs, RouteStates, Pages, Submitting, PdfAt
<1>20. ASSUME NEW c \in Legs, NEW success \in BOOLEAN, NEW k \in Nat, NEW streamed \in BOOLEAN,
      LegLands(c, success, k, streamed) PROVE PdfKept'
  BY <1>20, StreamAssumption DEF LegLands, on_collector_done, DocumentArrived, DocumentRefused,
     PartFailed, PartSucceeded, FinishCall, part_done, record_part_failure, FirstFailure,
     NoFinish, request_finish, Overrides, pump, CancelRun, Scheduler!Withdraw, StreamAssumption,
     StreamInv, TypeOK, PageTypeOK, ThreadTypeOK, RunTypes, GateKept, AdmissionKept, PdfKept,
     Legs, RouteStates, Pages, Submitting, Submitted, SubmitterAt, PdfAt
<1>21. ASSUME NEW clean \in BOOLEAN, PdfSlice(clean) PROVE PdfKept'
  BY <1>21, StreamAssumption DEF PdfSlice, NotStreamed, StreamTakes, on_streamed_page, pump,
     StreamAssumption, StreamInv, TypeOK, PageTypeOK, ThreadTypeOK, RunTypes, GateKept,
     AdmissionKept, PdfKept, Legs, RouteStates, Pages, Submitting, Submitted, SubmitterAt, PdfAt
<1>22. ASSUME NEW success \in BOOLEAN, NEW fast \in BOOLEAN, PdfEnd(success, fast) PROVE
      PdfKept'
  BY <1>22, StreamAssumption DEF PdfEnd, PdfAt, StreamAssumption, StreamInv, TypeOK, PageTypeOK,
     ThreadTypeOK, RunTypes, GateKept, AdmissionKept, PdfKept, Legs, RouteStates, Pages,
     Submitting, Submitted, SubmitterAt
<1>23. CASE PdfHeld

  <2>1. leg["pdf"] = "held" /\ leg["pdf"] \in RouteStates BY <1>23 DEF PdfHeld, RouteStates
  <2>2. total_pages' <= DocPages
    BY <1>23, <2>1, StreamAssumption DEF PdfHeld, NotStreamed, on_streamed_page,
        StreamAssumption, StreamInv, PdfKept, TypeOK, PageTypeOK
  <2>3. leg'["leg"] = leg["leg"] /\ UNCHANGED <<pdf_streamed, pdf_next, process>>
    BY <1>23 DEF PdfHeld, PdfAt, StreamInv, TypeOK, ThreadTypeOK, Legs
  <2> QED BY <2>1, <2>2, <2>3 DEF StreamInv, PdfKept, GateKept, RouteStates
<1>24. CASE PdfLeft
  BY <1>24, StreamAssumption DEF PdfLeft, PdfAt, StreamAssumption, StreamInv, TypeOK, PageTypeOK,
     ThreadTypeOK, RunTypes, GateKept, AdmissionKept, PdfKept, Legs, RouteStates, Pages,
     Submitting, Submitted, SubmitterAt
<1>25. CASE PdfFallback
  BY <1>25, StreamAssumption DEF PdfFallback, PdfAt, record_part_failure, StreamAssumption,
     StreamInv, TypeOK, PageTypeOK, ThreadTypeOK, RunTypes, GateKept, AdmissionKept, PdfKept,
     Legs, RouteStates, Pages, Submitting, Submitted, SubmitterAt
<1>26. CASE PdfSubmit
  BY <1>26, StreamAssumption DEF PdfSubmit, PdfAt, StreamAssumption, StreamInv, TypeOK,
     PageTypeOK, ThreadTypeOK, RunTypes, GateKept, AdmissionKept, PdfKept, Legs, RouteStates,
     Pages, Submitting, Submitted, SubmitterAt
<1>27. CASE RunOpens
  BY <1>27, StreamAssumption DEF RunOpens, Scheduler!Size, Scheduler!Live, StreamAssumption,
     StreamInv, TypeOK, PageTypeOK, ThreadTypeOK, RunTypes, GateKept, AdmissionKept, PdfKept,
     Legs, RouteStates, Pages, Submitting, Submitted, SubmitterAt, PdfAt
<1>28. CASE RunFails
  BY <1>28, StreamAssumption DEF RunFails, Scheduler!Live, Scheduler!Break, StreamAssumption,
     StreamInv, TypeOK, PageTypeOK, ThreadTypeOK, RunTypes, GateKept, AdmissionKept, PdfKept,
     Legs, RouteStates, Pages, Submitting, Submitted, SubmitterAt, PdfAt
<1>29. CASE on_document
  BY <1>29, StreamAssumption DEF on_document, Scheduler!Announce, StreamAssumption, StreamInv,
     TypeOK, PageTypeOK, ThreadTypeOK, RunTypes, GateKept, AdmissionKept, PdfKept, Legs,
     RouteStates, Pages, Submitting, Submitted, SubmitterAt, PdfAt
<1>30. ASSUME NEW p \in Pages, on_page(p) PROVE PdfKept'
  BY <1>30, StreamAssumption DEF on_page, pump, Scheduler!DeliverPage, Scheduler!Deliverable,
     Scheduler!Live, StreamAssumption, StreamInv, TypeOK, PageTypeOK, ThreadTypeOK, RunTypes,
     GateKept, AdmissionKept, PdfKept, Legs, RouteStates, Pages, Submitting, Submitted,
     SubmitterAt, PdfAt
<1>31. ASSUME NEW p \in Pages, PageRefused(p) PROVE PdfKept'
  BY <1>31, StreamAssumption DEF PageRefused, Scheduler!Deliverable, Scheduler!Live,
     Scheduler!Withdraw, request_finish, Overrides, pump, StreamAssumption, StreamInv, TypeOK,
     PageTypeOK, ThreadTypeOK, RunTypes, GateKept, AdmissionKept, PdfKept, Legs, RouteStates,
     Pages, Submitting, Submitted, SubmitterAt, PdfAt
<1>32. ASSUME NEW why \in {"none", "failed"}, on_scheduler_finish(why) PROVE PdfKept'
  BY <1>32, StreamAssumption DEF on_scheduler_finish, Scheduler!Finish, Scheduler!Live, RunStatus,
     PartFailed, PartSucceeded, FinishCall, part_done, record_part_failure, FirstFailure,
     NoFinish, request_finish, Overrides, pump, StreamAssumption, StreamInv, TypeOK, PageTypeOK,
     ThreadTypeOK, RunTypes, GateKept, AdmissionKept, PdfKept, Legs, RouteStates, Pages,
     Submitting, Submitted, SubmitterAt, PdfAt
<1>33. CASE UNCHANGED vars
  BY <1>33 DEF vars, StreamInv, TypeOK, PageTypeOK, ThreadTypeOK, RunTypes, GateKept,
     AdmissionKept, PdfKept, Legs, RouteStates, Pages, Submitting, Submitted, SubmitterAt, PdfAt
<1> QED BY StepCases, <1>1, <1>2, <1>3, <1>4, <1>5, <1>6, <1>7, <1>8, <1>9, <1>10, <1>11, <1>12,
    <1>13, <1>14, <1>15, <1>16, <1>17, <1>18, <1>19, <1>20, <1>21, <1>22, <1>23, <1>24, <1>25,
    <1>26, <1>27, <1>28, <1>29, <1>30, <1>31, <1>32, <1>33

\* The stages of the threads.
LEMMA ThreadTypesStep ==
  ASSUME StreamInv, [Next]_vars
  PROVE  ThreadTypeOK'
<1>1. ASSUME NEW names \in {"same", "none", "other"}, NEW size \in {0, 1}, NEW last \in BOOLEAN,
      NEW room \in BOOLEAN, OnChunk(names, size, last, room) PROVE ThreadTypeOK'
  BY <1>1, StreamAssumption DEF OnChunk, FinishCall, request_finish, Overrides, pump, CancelRun,
     Scheduler!Withdraw, StreamAssumption, StreamInv, TypeOK, PageTypeOK, ThreadTypeOK, PdfKept,
     Legs, RouteStates, Pages, Submitting, Submitted, SubmitterAt, PdfAt
<1>2. CASE ClientHalfClose
  BY <1>2, StreamAssumption DEF ClientHalfClose, StreamAssumption, StreamInv, TypeOK, PageTypeOK,
     ThreadTypeOK, PdfKept, Legs, RouteStates, Pages, Submitting, Submitted, SubmitterAt, PdfAt
<1>3. CASE ClientCancel
  BY <1>3, StreamAssumption DEF ClientCancel, StreamAssumption, StreamInv, TypeOK, PageTypeOK,
     ThreadTypeOK, PdfKept, Legs, RouteStates, Pages, Submitting, Submitted, SubmitterAt, PdfAt
<1>4. CASE OnReadClosed
  BY <1>4, StreamAssumption DEF OnReadClosed, start_processing, FinishCall, request_finish,
     Overrides, pump, CancelRun, Scheduler!Withdraw, StreamAssumption, StreamInv, TypeOK,
     PageTypeOK, ThreadTypeOK, PdfKept, Legs, RouteStates, Pages, Submitting, Submitted,
     SubmitterAt, PdfAt
<1>5. CASE OnCancel
  BY <1>5, StreamAssumption DEF OnCancel, FinishCall, request_finish, Overrides, pump, CancelRun,
     Scheduler!Withdraw, StreamAssumption, StreamInv, TypeOK, PageTypeOK, ThreadTypeOK, PdfKept,
     Legs, RouteStates, Pages, Submitting, Submitted, SubmitterAt, PdfAt
<1>6. CASE OnWriteDone
  BY <1>6, StreamAssumption DEF OnWriteDone, pump, Scheduler!Credit, StreamAssumption, StreamInv,
     TypeOK, PageTypeOK, ThreadTypeOK, PdfKept, Legs, RouteStates, Pages, Submitting, Submitted,
     SubmitterAt, PdfAt
<1>7. CASE OnWriteFailed
  BY <1>7, StreamAssumption DEF OnWriteFailed, FinishCall, request_finish, Overrides, pump,
     CancelRun, Scheduler!Withdraw, StreamAssumption, StreamInv, TypeOK, PageTypeOK,
     ThreadTypeOK, PdfKept, Legs, RouteStates, Pages, Submitting, Submitted, SubmitterAt, PdfAt
<1>8. CASE OnDone
  BY <1>8, StreamAssumption DEF OnDone, StreamAssumption, StreamInv, TypeOK, PageTypeOK,
     ThreadTypeOK, PdfKept, Legs, RouteStates, Pages, Submitting, Submitted, SubmitterAt, PdfAt
<1>9. CASE DropBuffer
  BY <1>9, StreamAssumption DEF DropBuffer, StreamAssumption, StreamInv, TypeOK, PageTypeOK,
     ThreadTypeOK, PdfKept, Legs, RouteStates, Pages, Submitting, Submitted, SubmitterAt, PdfAt
<1>10. CASE ResolveRefused
  BY <1>10, StreamAssumption DEF ResolveRefused, take_bytes, ProcessEnds, FinishCall,
     request_finish, Overrides, pump, CancelRun, Scheduler!Withdraw, StreamAssumption,
     StreamInv, TypeOK, PageTypeOK, ThreadTypeOK, PdfKept, Legs, RouteStates, Pages, Submitting,
     Submitted, SubmitterAt, PdfAt
<1>11. ASSUME NEW pl \in Plans, ResolvePlan(pl) PROVE ThreadTypeOK'
  BY <1>11, StreamAssumption DEF ResolvePlan, take_bytes, FinishCall, request_finish, Overrides,
     pump, CancelRun, Scheduler!Withdraw, StreamAssumption, StreamInv, TypeOK, PageTypeOK,
     ThreadTypeOK, PdfKept, Legs, RouteStates, Pages, Submitting, Submitted, SubmitterAt, PdfAt
<1>12. CASE ProcessLaunch
  BY <1>12, StreamAssumption DEF ProcessLaunch, StreamAssumption, StreamInv, TypeOK, PageTypeOK,
     ThreadTypeOK, PdfKept, Legs, RouteStates, Pages, Submitting, Submitted, SubmitterAt, PdfAt
<1>13. CASE ProcessGone
  BY <1>13, StreamAssumption DEF ProcessGone, ProcessEnds, StreamAssumption, StreamInv, TypeOK,
     PageTypeOK, ThreadTypeOK, PdfKept, Legs, RouteStates, Pages, Submitting, Submitted,
     SubmitterAt, PdfAt
<1>14. CASE ProcessThrows
  BY <1>14, StreamAssumption DEF ProcessThrows, ProcessEnds, FinishCall, request_finish,
     Overrides, pump, CancelRun, Scheduler!Withdraw, StreamAssumption, StreamInv, TypeOK,
     PageTypeOK, ThreadTypeOK, PdfKept, Legs, RouteStates, Pages, Submitting, Submitted,
     SubmitterAt, PdfAt
<1>15. CASE LaunchDone
  BY <1>15, StreamAssumption DEF LaunchDone, StreamAssumption, StreamInv, TypeOK, PageTypeOK,
     ThreadTypeOK, PdfKept, Legs, RouteStates, Pages, Submitting, Submitted, SubmitterAt, PdfAt
<1>16. ASSUME NEW c \in Legs, LaunchLeg(c) PROVE ThreadTypeOK'
  BY <1>16, StreamAssumption DEF LaunchLeg, StreamAssumption, StreamInv, TypeOK, PageTypeOK,
     ThreadTypeOK, PdfKept, Legs, RouteStates, Pages, Submitting, Submitted, SubmitterAt, PdfAt
<1>17. ASSUME NEW who \in {"process", "pdf"}, SubmitRun(who) PROVE ThreadTypeOK'
  BY <1>17, StreamAssumption DEF SubmitRun, Submitting, SubmitterAt, Scheduler!Admit,
     StreamAssumption, StreamInv, TypeOK, PageTypeOK, ThreadTypeOK, PdfKept, Legs, RouteStates,
     Pages, Submitted, PdfAt
<1>18. ASSUME NEW who \in {"process", "pdf"}, SubmitRefused(who) PROVE ThreadTypeOK'
  BY <1>18, StreamAssumption DEF SubmitRefused, Submitting, SubmitterAt, PartFailed, part_done,
     record_part_failure, FirstFailure, NoFinish, request_finish, Overrides, pump, CancelRun,
     Scheduler!Withdraw, StreamAssumption, StreamInv, TypeOK, PageTypeOK, ThreadTypeOK, PdfKept,
     Legs, RouteStates, Pages, Submitted, PdfAt
<1>19. ASSUME NEW who \in {"process", "pdf"}, SetTicket(who) PROVE ThreadTypeOK'
  BY <1>19, StreamAssumption DEF SetTicket, Submitted, SubmitterAt, CancelRun, Scheduler!Withdraw,
     StreamAssumption, StreamInv, TypeOK, PageTypeOK, ThreadTypeOK, PdfKept, Legs, RouteStates,
     Pages, Submitting, PdfAt
<1>20. ASSUME NEW c \in Legs, NEW success \in BOOLEAN, NEW k \in Nat, NEW streamed \in BOOLEAN,
      LegLands(c, success, k, streamed) PROVE ThreadTypeOK'
  BY <1>20, StreamAssumption DEF LegLands, on_collector_done, DocumentArrived, DocumentRefused,
     PartFailed, PartSucceeded, FinishCall, part_done, record_part_failure, FirstFailure,
     NoFinish, request_finish, Overrides, pump, CancelRun, Scheduler!Withdraw, StreamAssumption,
     StreamInv, TypeOK, PageTypeOK, ThreadTypeOK, PdfKept, Legs, RouteStates, Pages, Submitting,
     Submitted, SubmitterAt, PdfAt
<1>21. ASSUME NEW clean \in BOOLEAN, PdfSlice(clean) PROVE ThreadTypeOK'

  <2>0. pdf_next \in Pages BY <1>21, StreamAssumption DEF PdfSlice, StreamAssumption, StreamInv,
      TypeOK, ThreadTypeOK, Pages
  <2>1. /\ pdf_next' = pdf_next + 1
        /\ pdf_held' \in {pdf_held, Append(pdf_held, pdf_next)}
        /\ pdf_streamed' \in {pdf_streamed, pdf_streamed + 1} /\ pdf_run_open' \in
            {pdf_run_open, FALSE}
        /\ UNCHANGED <<plan, gate, process, leg, pdf_open, cv_first>>
    BY <1>21 DEF PdfSlice
  <2>2. pdf_held' \in Seq(Pages) BY <2>0, <2>1 DEF StreamInv, TypeOK, ThreadTypeOK
  <2>3. pdf_next' \in 1..DocPages + 1 /\ pdf_streamed' \in 0..DocPages
    BY <2>0, <2>1, StreamAssumption DEF StreamAssumption, StreamInv, TypeOK, ThreadTypeOK,
        PdfKept, Pages
  <2>4. pdf_run_open' \in BOOLEAN BY <2>1 DEF StreamInv, TypeOK, ThreadTypeOK
  <2> QED BY <2>1, <2>2, <2>3, <2>4 DEF StreamInv, TypeOK, ThreadTypeOK
<1>22. ASSUME NEW success \in BOOLEAN, NEW fast \in BOOLEAN, PdfEnd(success, fast) PROVE
      ThreadTypeOK'
  BY <1>22, StreamAssumption DEF PdfEnd, PdfAt, StreamAssumption, StreamInv, TypeOK, PageTypeOK,
     ThreadTypeOK, PdfKept, Legs, RouteStates, Pages, Submitting, Submitted, SubmitterAt
<1>23. CASE PdfHeld

  <2>1. /\ pdf_held' = pdf_held \/ (pdf_held # <<>> /\ pdf_held' = Tail(pdf_held))
        /\ leg' \in {leg, [leg EXCEPT !["pdf"] = "deliver_ok"],
                    [leg EXCEPT !["pdf"] = "deliver_failed"]}
        /\ UNCHANGED <<plan, gate, process, pdf_open, pdf_run_open, pdf_next, pdf_streamed,
            cv_first>>
    BY <1>23 DEF PdfHeld, PdfAt
  <2>2. pdf_held' \in Seq(Pages) BY <2>1 DEF StreamInv, TypeOK, ThreadTypeOK
  <2> QED BY <2>1, <2>2 DEF StreamInv, TypeOK, PageTypeOK, ThreadTypeOK, PdfKept, Legs,
      RouteStates, Pages, Submitting, Submitted, SubmitterAt, PdfAt
<1>24. CASE PdfLeft

  <2>1. leg["pdf"] \in RouteStates BY <1>24 DEF PdfLeft, RouteStates
  <2>2. cv_first' \in Pages
    BY <1>24, <2>1, StreamAssumption DEF PdfLeft, StreamAssumption, StreamInv, TypeOK,
        PageTypeOK, ThreadTypeOK, PdfKept, Legs, RouteStates, Pages, Submitting, Submitted,
        SubmitterAt, PdfAt
  <2> QED BY <1>24, <2>2 DEF PdfLeft, PdfAt, StreamInv, TypeOK, PageTypeOK, ThreadTypeOK,
      PdfKept, Legs, RouteStates, Pages, Submitting, Submitted, SubmitterAt, PdfAt
<1>25. CASE PdfFallback
  BY <1>25, StreamAssumption DEF PdfFallback, PdfAt, record_part_failure, StreamAssumption,
     StreamInv, TypeOK, PageTypeOK, ThreadTypeOK, PdfKept, Legs, RouteStates, Pages, Submitting,
     Submitted, SubmitterAt
<1>26. CASE PdfSubmit
  BY <1>26, StreamAssumption DEF PdfSubmit, PdfAt, StreamAssumption, StreamInv, TypeOK,
     PageTypeOK, ThreadTypeOK, PdfKept, Legs, RouteStates, Pages, Submitting, Submitted,
     SubmitterAt
<1>27. CASE RunOpens
  BY <1>27, StreamAssumption DEF RunOpens, Scheduler!Size, Scheduler!Live, StreamAssumption,
     StreamInv, TypeOK, PageTypeOK, ThreadTypeOK, PdfKept, Legs, RouteStates, Pages, Submitting,
     Submitted, SubmitterAt, PdfAt
<1>28. CASE RunFails
  BY <1>28, StreamAssumption DEF RunFails, Scheduler!Live, Scheduler!Break, StreamAssumption,
     StreamInv, TypeOK, PageTypeOK, ThreadTypeOK, PdfKept, Legs, RouteStates, Pages, Submitting,
     Submitted, SubmitterAt, PdfAt
<1>29. CASE on_document
  BY <1>29, StreamAssumption DEF on_document, Scheduler!Announce, StreamAssumption, StreamInv,
     TypeOK, PageTypeOK, ThreadTypeOK, PdfKept, Legs, RouteStates, Pages, Submitting, Submitted,
     SubmitterAt, PdfAt
<1>30. ASSUME NEW p \in Pages, on_page(p) PROVE ThreadTypeOK'
  BY <1>30, StreamAssumption DEF on_page, pump, Scheduler!DeliverPage, Scheduler!Deliverable,
     Scheduler!Live, StreamAssumption, StreamInv, TypeOK, PageTypeOK, ThreadTypeOK, PdfKept,
     Legs, RouteStates, Pages, Submitting, Submitted, SubmitterAt, PdfAt
<1>31. ASSUME NEW p \in Pages, PageRefused(p) PROVE ThreadTypeOK'
  BY <1>31, StreamAssumption DEF PageRefused, Scheduler!Deliverable, Scheduler!Live,
     Scheduler!Withdraw, request_finish, Overrides, pump, StreamAssumption, StreamInv, TypeOK,
     PageTypeOK, ThreadTypeOK, PdfKept, Legs, RouteStates, Pages, Submitting, Submitted,
     SubmitterAt, PdfAt
<1>32. ASSUME NEW why \in {"none", "failed"}, on_scheduler_finish(why) PROVE ThreadTypeOK'
  BY <1>32, StreamAssumption DEF on_scheduler_finish, Scheduler!Finish, Scheduler!Live, RunStatus,
     PartFailed, PartSucceeded, FinishCall, part_done, record_part_failure, FirstFailure,
     NoFinish, request_finish, Overrides, pump, StreamAssumption, StreamInv, TypeOK, PageTypeOK,
     ThreadTypeOK, PdfKept, Legs, RouteStates, Pages, Submitting, Submitted, SubmitterAt, PdfAt
<1>33. CASE UNCHANGED vars
  BY <1>33 DEF vars, StreamInv, TypeOK, PageTypeOK, ThreadTypeOK, PdfKept, Legs, RouteStates,
     Pages, Submitting, Submitted, SubmitterAt, PdfAt
<1> QED BY StepCases, <1>1, <1>2, <1>3, <1>4, <1>5, <1>6, <1>7, <1>8, <1>9, <1>10, <1>11, <1>12,
    <1>13, <1>14, <1>15, <1>16, <1>17, <1>18, <1>19, <1>20, <1>21, <1>22, <1>23, <1>24, <1>25,
    <1>26, <1>27, <1>28, <1>29, <1>30, <1>31, <1>32, <1>33

\* What the run holds.
LEMMA RunTypesStep ==
  ASSUME StreamInv, [Next]_vars
  PROVE  RunTypes'
<1>1. ASSUME NEW names \in {"same", "none", "other"}, NEW size \in {0, 1}, NEW last \in BOOLEAN,
      NEW room \in BOOLEAN, OnChunk(names, size, last, room) PROVE RunTypes'
  BY <1>1, StreamAssumption DEF OnChunk, FinishCall, request_finish, Overrides, pump, CancelRun,
     Scheduler!Withdraw, StreamAssumption, StreamInv, TypeOK, ThreadTypeOK, RunTypes, Pages, Run
<1>2. CASE ClientHalfClose
  BY <1>2, StreamAssumption DEF ClientHalfClose, StreamAssumption, StreamInv, TypeOK,
     ThreadTypeOK, RunTypes, Pages, Run
<1>3. CASE ClientCancel
  BY <1>3, StreamAssumption DEF ClientCancel, StreamAssumption, StreamInv, TypeOK, ThreadTypeOK,
     RunTypes, Pages, Run
<1>4. CASE OnReadClosed
  BY <1>4, StreamAssumption DEF OnReadClosed, start_processing, FinishCall, request_finish,
     Overrides, pump, CancelRun, Scheduler!Withdraw, StreamAssumption, StreamInv, TypeOK,
     ThreadTypeOK, RunTypes, Pages, Run
<1>5. CASE OnCancel
  BY <1>5, StreamAssumption DEF OnCancel, FinishCall, request_finish, Overrides, pump, CancelRun,
     Scheduler!Withdraw, StreamAssumption, StreamInv, TypeOK, ThreadTypeOK, RunTypes, Pages, Run
<1>6. CASE OnWriteDone

  <2>1. UNCHANGED runvars \/ (owed[Run] > 0 /\ Scheduler!Credit(Run)) BY <1>6 DEF OnWriteDone
  <2>2. CASE UNCHANGED runvars BY <2>2 DEF StreamInv, TypeOK, ThreadTypeOK, RunTypes, Pages, Run
  <2>3. CASE owed[Run] > 0 /\ Scheduler!Credit(Run) BY <2>3 DEF Scheduler!Credit, StreamInv,
      TypeOK, ThreadTypeOK, RunTypes, Pages, Run
  <2> QED BY <2>1, <2>2, <2>3
<1>7. CASE OnWriteFailed
  BY <1>7, StreamAssumption DEF OnWriteFailed, FinishCall, request_finish, Overrides, pump,
     CancelRun, Scheduler!Withdraw, StreamAssumption, StreamInv, TypeOK, ThreadTypeOK, RunTypes,
     Pages, Run
<1>8. CASE OnDone
  BY <1>8, StreamAssumption DEF OnDone, StreamAssumption, StreamInv, TypeOK, ThreadTypeOK,
     RunTypes, Pages, Run
<1>9. CASE DropBuffer
  BY <1>9, StreamAssumption DEF DropBuffer, StreamAssumption, StreamInv, TypeOK, ThreadTypeOK,
     RunTypes, Pages, Run
<1>10. CASE ResolveRefused
  BY <1>10, StreamAssumption DEF ResolveRefused, take_bytes, ProcessEnds, FinishCall,
     request_finish, Overrides, pump, CancelRun, Scheduler!Withdraw, StreamAssumption,
     StreamInv, TypeOK, ThreadTypeOK, RunTypes, Pages, Run
<1>11. ASSUME NEW pl \in Plans, ResolvePlan(pl) PROVE RunTypes'
  BY <1>11, StreamAssumption DEF ResolvePlan, take_bytes, FinishCall, request_finish, Overrides,
     pump, CancelRun, Scheduler!Withdraw, StreamAssumption, StreamInv, TypeOK, ThreadTypeOK,
     RunTypes, Pages, Run
<1>12. CASE ProcessLaunch
  BY <1>12, StreamAssumption DEF ProcessLaunch, StreamAssumption, StreamInv, TypeOK, ThreadTypeOK,
     RunTypes, Pages, Run
<1>13. CASE ProcessGone
  BY <1>13, StreamAssumption DEF ProcessGone, ProcessEnds, StreamAssumption, StreamInv, TypeOK,
     ThreadTypeOK, RunTypes, Pages, Run
<1>14. CASE ProcessThrows
  BY <1>14, StreamAssumption DEF ProcessThrows, ProcessEnds, FinishCall, request_finish,
     Overrides, pump, CancelRun, Scheduler!Withdraw, StreamAssumption, StreamInv, TypeOK,
     ThreadTypeOK, RunTypes, Pages, Run
<1>15. CASE LaunchDone
  BY <1>15, StreamAssumption DEF LaunchDone, StreamAssumption, StreamInv, TypeOK, ThreadTypeOK,
     RunTypes, Pages, Run
<1>16. ASSUME NEW c \in Legs, LaunchLeg(c) PROVE RunTypes'
  BY <1>16, StreamAssumption DEF LaunchLeg, StreamAssumption, StreamInv, TypeOK, ThreadTypeOK,
     RunTypes, Pages, Run
<1>17. ASSUME NEW who \in {"process", "pdf"}, SubmitRun(who) PROVE RunTypes'
  BY <1>17, StreamAssumption DEF SubmitRun, Submitting, SubmitterAt, Scheduler!Admit,
     StreamAssumption, StreamInv, TypeOK, ThreadTypeOK, RunTypes, Pages, Run
<1>18. ASSUME NEW who \in {"process", "pdf"}, SubmitRefused(who) PROVE RunTypes'
  BY <1>18, StreamAssumption DEF SubmitRefused, Submitting, SubmitterAt, PartFailed, part_done,
     record_part_failure, FirstFailure, NoFinish, request_finish, Overrides, pump, CancelRun,
     Scheduler!Withdraw, StreamAssumption, StreamInv, TypeOK, ThreadTypeOK, RunTypes, Pages, Run
<1>19. ASSUME NEW who \in {"process", "pdf"}, SetTicket(who) PROVE RunTypes'
  BY <1>19, StreamAssumption DEF SetTicket, Submitted, SubmitterAt, CancelRun, Scheduler!Withdraw,
     StreamAssumption, StreamInv, TypeOK, ThreadTypeOK, RunTypes, Pages, Run
<1>20. ASSUME NEW c \in Legs, NEW success \in BOOLEAN, NEW k \in Nat, NEW streamed \in BOOLEAN,
      LegLands(c, success, k, streamed) PROVE RunTypes'
  BY <1>20, StreamAssumption DEF LegLands, on_collector_done, DocumentArrived, DocumentRefused,
     PartFailed, PartSucceeded, FinishCall, part_done, record_part_failure, FirstFailure,
     NoFinish, request_finish, Overrides, pump, CancelRun, Scheduler!Withdraw, StreamAssumption,
     StreamInv, TypeOK, ThreadTypeOK, RunTypes, Pages, Run
<1>21. ASSUME NEW clean \in BOOLEAN, PdfSlice(clean) PROVE RunTypes'
  BY <1>21, StreamAssumption DEF PdfSlice, NotStreamed, StreamTakes, on_streamed_page, pump,
     StreamAssumption, StreamInv, TypeOK, ThreadTypeOK, RunTypes, Pages, Run
<1>22. ASSUME NEW success \in BOOLEAN, NEW fast \in BOOLEAN, PdfEnd(success, fast) PROVE
      RunTypes'
  BY <1>22, StreamAssumption DEF PdfEnd, PdfAt, StreamAssumption, StreamInv, TypeOK, ThreadTypeOK,
     RunTypes, Pages, Run
<1>23. CASE PdfHeld
  BY <1>23, StreamAssumption DEF PdfHeld, PdfAt, NotStreamed, StreamTakes, on_streamed_page, pump,
     StreamAssumption, StreamInv, TypeOK, ThreadTypeOK, RunTypes, Pages, Run
<1>24. CASE PdfLeft
  BY <1>24, StreamAssumption DEF PdfLeft, PdfAt, StreamAssumption, StreamInv, TypeOK,
     ThreadTypeOK, RunTypes, Pages, Run
<1>25. CASE PdfFallback
  BY <1>25, StreamAssumption DEF PdfFallback, PdfAt, record_part_failure, StreamAssumption,
     StreamInv, TypeOK, ThreadTypeOK, RunTypes, Pages, Run
<1>26. CASE PdfSubmit
  BY <1>26, StreamAssumption DEF PdfSubmit, PdfAt, StreamAssumption, StreamInv, TypeOK,
     ThreadTypeOK, RunTypes, Pages, Run
<1>27. CASE RunOpens
  BY <1>27, StreamAssumption DEF RunOpens, Scheduler!Size, Scheduler!Live, StreamAssumption,
     StreamInv, TypeOK, ThreadTypeOK, RunTypes, Pages, Run
<1>28. CASE RunFails
  BY <1>28, StreamAssumption DEF RunFails, Scheduler!Live, Scheduler!Break, StreamAssumption,
     StreamInv, TypeOK, ThreadTypeOK, RunTypes, Pages, Run
<1>29. CASE on_document
  BY <1>29, StreamAssumption DEF on_document, Scheduler!Announce, StreamAssumption, StreamInv,
     TypeOK, ThreadTypeOK, RunTypes, Pages, Run
<1>30. ASSUME NEW p \in Pages, on_page(p) PROVE RunTypes'
  BY <1>30, StreamAssumption DEF on_page, pump, Scheduler!DeliverPage, Scheduler!Deliverable,
     Scheduler!Live, StreamAssumption, StreamInv, TypeOK, ThreadTypeOK, RunTypes, Pages, Run
<1>31. ASSUME NEW p \in Pages, PageRefused(p) PROVE RunTypes'
  BY <1>31, StreamAssumption DEF PageRefused, Scheduler!Deliverable, Scheduler!Live,
     Scheduler!Withdraw, request_finish, Overrides, pump, StreamAssumption, StreamInv, TypeOK,
     ThreadTypeOK, RunTypes, Pages, Run
<1>32. ASSUME NEW why \in {"none", "failed"}, on_scheduler_finish(why) PROVE RunTypes'
  BY <1>32, StreamAssumption DEF on_scheduler_finish, Scheduler!Finish, Scheduler!Live, RunStatus,
     PartFailed, PartSucceeded, FinishCall, part_done, record_part_failure, FirstFailure,
     NoFinish, request_finish, Overrides, pump, StreamAssumption, StreamInv, TypeOK,
     ThreadTypeOK, RunTypes, Pages, Run
<1>33. CASE UNCHANGED vars
  BY <1>33 DEF vars, StreamInv, TypeOK, ThreadTypeOK, RunTypes, Pages, Run
<1> QED BY StepCases, <1>1, <1>2, <1>3, <1>4, <1>5, <1>6, <1>7, <1>8, <1>9, <1>10, <1>11, <1>12,
    <1>13, <1>14, <1>15, <1>16, <1>17, <1>18, <1>19, <1>20, <1>21, <1>22, <1>23, <1>24, <1>25,
    <1>26, <1>27, <1>28, <1>29, <1>30, <1>31, <1>32, <1>33


----------------------------------------------------------------------------
\* Queues of events join in any grouping.
LEMMA JoinAssociates ==
  ASSUME NEW q \in Seq(EventType), NEW r \in Seq(EventType), NEW s \in Seq(EventType)
  PROVE  (q \o r) \o s = q \o (r \o s) /\ q \o r \in Seq(EventType)
<1>1. \A S : \A x, y, z \in Seq(S) : (x \o y) \o z = x \o (y \o z)
  BY ConcatAssociative
<1> QED BY <1>1

\* A queue owes finitely many credits.
LEMMA CreditsFinite ==
  ASSUME NEW q \in Seq(EventType)
  PROVE  CreditedIn(q) \subseteq 1..Len(q) /\ IsFiniteSet(CreditedIn(q))
         /\ Cardinality(CreditedIn(q)) \in Nat
<1>1. CreditedIn(q) \subseteq 1..Len(q) BY DEF CreditedIn
<1>2. IsFiniteSet(1..Len(q)) BY FS_Interval
<1> QED BY <1>1, <1>2, FS_Subset, FS_CardinalityType

\* Events that owe nothing change nothing.
LEMMA NoCreditAdded ==
  ASSUME NEW q \in Seq(EventType), NEW r \in Seq(EventType), CreditedIn(r) = {}
  PROVE  CreditedIn(q \o r) = CreditedIn(q)
<1>1. \A i \in 1..Len(r) : ~Credited(r[i]) BY DEF CreditedIn
<1>2. Len(q \o r) = Len(q) + Len(r) /\ DOMAIN (q \o r) = 1..Len(q) + Len(r) /\ DOMAIN q = 1..Len(q)
  OBVIOUS
<1>3. ASSUME NEW i \in 1..Len(q) PROVE (q \o r)[i] = q[i] OBVIOUS
<1>4. ASSUME NEW i \in 1..Len(q) + Len(r), i \notin 1..Len(q) PROVE ~Credited((q \o r)[i])
  <2>1. (q \o r)[i] = r[i - Len(q)] /\ i - Len(q) \in 1..Len(r) BY <1>4
  <2> QED BY <2>1, <1>1
<1> QED BY <1>2, <1>3, <1>4 DEF CreditedIn

\* Events that all owe a credit add one each.
LEMMA CreditsAdded ==
  ASSUME NEW q \in Seq(EventType), NEW r \in Seq(EventType), \A i \in 1..Len(r) : Credited(r[i])
  PROVE  Cardinality(CreditedIn(q \o r)) = Cardinality(CreditedIn(q)) + Len(r)
<1> DEFINE new == Len(q) + 1..Len(q) + Len(r)
<1>1. DOMAIN (q \o r) = 1..Len(q) + Len(r) /\ DOMAIN q = 1..Len(q) OBVIOUS
<1>2. ASSUME NEW i \in 1..Len(q) PROVE (q \o r)[i] = q[i] OBVIOUS
<1>3. ASSUME NEW i \in new PROVE Credited((q \o r)[i])
  <2>1. (q \o r)[i] = r[i - Len(q)] /\ i - Len(q) \in 1..Len(r) OBVIOUS
  <2> QED BY <2>1
<1>4. new \subseteq 1..Len(q) + Len(r) /\ 1..Len(q) \subseteq 1..Len(q) + Len(r)
      /\ \A i \in 1..Len(q) + Len(r) : i \in 1..Len(q) \/ i \in new
  OBVIOUS
<1>5. CreditedIn(q \o r) = CreditedIn(q) \cup new
  BY <1>1, <1>2, <1>3, <1>4 DEF CreditedIn
<1>6. CreditedIn(q) \cap new = {}
  <2>1. CreditedIn(q) \subseteq 1..Len(q) BY CreditsFinite
  <2> QED BY <2>1
<1>7. IsFiniteSet(new) /\ Cardinality(new) = Len(r)
  <2>1. PICK a \in Int, b \in Int : a = Len(q) + 1 /\ b = Len(q) + Len(r) OBVIOUS
  <2>2. IsFiniteSet(a..b) /\ Cardinality(a..b) = IF a > b THEN 0 ELSE b - a + 1
    BY FS_Interval
  <2>3. new = a..b BY <2>1
  <2>4. (IF a > b THEN 0 ELSE b - a + 1) = Len(r) BY <2>1
  <2> QED BY <2>2, <2>3, <2>4
<1>8. IsFiniteSet(CreditedIn(q)) /\ Cardinality(CreditedIn(q)) \in Nat BY CreditsFinite
<1>9. Cardinality(CreditedIn(q) \cup new)
        = Cardinality(CreditedIn(q)) + Cardinality(new) - Cardinality(CreditedIn(q) \cap new)
  BY <1>7, <1>8, FS_Union
<1>10. Cardinality(CreditedIn(q) \cap new) = 0 BY <1>6, FS_EmptySet
<1>11. Len(r) \in Nat OBVIOUS
<1> HIDE DEF new
<1> QED BY <1>5, <1>7, <1>8, <1>9, <1>10, <1>11

\* Writing an event takes its credit, if it owes one.
LEMMA CreditWritten ==
  ASSUME NEW q \in Seq(EventType), q # <<>>
  PROVE  Cardinality(CreditedIn(q))
           = Cardinality(CreditedIn(Tail(q))) + IF Credited(Head(q)) THEN 1 ELSE 0
<1> DEFINE rest == CreditedIn(q) \ {1}
           down == [i \in rest |-> i - 1]
<1>1. /\ Tail(q) \in Seq(EventType) /\ Len(Tail(q)) = Len(q) - 1 /\ Len(q) \in Nat \ {0}
      /\ \A i \in 1..Len(q) - 1 : Tail(q)[i] = q[i + 1]
      /\ Head(q) = q[1] /\ DOMAIN q = 1..Len(q) /\ DOMAIN Tail(q) = 1..Len(q) - 1
  OBVIOUS
<1>2. rest \subseteq 2..Len(q) BY <1>1 DEF CreditedIn
<1>3. \A i \in rest : down[i] \in CreditedIn(Tail(q))
  <2>1. ASSUME NEW i \in rest PROVE i - 1 \in CreditedIn(Tail(q))
    <3>1. i \in 2..Len(q) /\ Credited(q[i]) BY <1>2 DEF CreditedIn
    <3>2. i - 1 \in 1..Len(q) - 1 /\ Tail(q)[i - 1] = q[i] BY <1>1, <3>1
    <3> QED BY <1>1, <3>1, <3>2 DEF CreditedIn
  <2> QED BY <2>1
<1>4. \A j \in CreditedIn(Tail(q)) : j + 1 \in rest /\ down[j + 1] = j
  <2>1. ASSUME NEW j \in CreditedIn(Tail(q)) PROVE j \in Int /\ j + 1 \in rest /\ j + 1 - 1 = j
    <3>1. j \in 1..Len(q) - 1 /\ Credited(q[j + 1]) BY <1>1 DEF CreditedIn
    <3> QED BY <1>1, <3>1 DEF CreditedIn
  <2>2. \A i \in rest : down[i] = i - 1 OBVIOUS
  <2> HIDE DEF rest, down
  <2> QED BY <2>1, <2>2
<1>5. \A i, j \in rest : down[i] = down[j] => i = j
  BY <1>2
<1>6. down \in Bijection(rest, CreditedIn(Tail(q)))
  <2>1. down \in [rest -> CreditedIn(Tail(q))] BY <1>3
  <2> QED BY <2>1, <1>4, <1>5 DEF Bijection, Injection, Surjection, IsInjective
<1>7. IsFiniteSet(CreditedIn(q)) /\ Cardinality(CreditedIn(q)) \in Nat BY CreditsFinite
<1>8. IsFiniteSet(rest) /\ Cardinality(rest) = Cardinality(CreditedIn(q)) - IF 1 \in CreditedIn(q) THEN 1 ELSE 0
  BY <1>7, FS_RemoveElement
<1>9. Cardinality(CreditedIn(Tail(q))) = Cardinality(rest)
  <2>1. ExistsBijection(rest, CreditedIn(Tail(q))) BY <1>6 DEF ExistsBijection
  <2> QED BY <2>1, <1>8, FS_Bijection
<1>10. 1 \in CreditedIn(q) <=> Credited(Head(q)) BY <1>1 DEF CreditedIn
<1> QED BY <1>7, <1>8, <1>9, <1>10


\* The events nothing is owed for.
Unowed(r) == r \in Seq(EventType) /\ CreditedIn(r) = {}

\* The step appends events nothing is owed for.
QueueGrows ==
  /\ \E r \in Seq(EventType) : CreditedIn(r) = {} /\ events' = events \o r
  /\ write_in_flight' = (write_in_flight \/ events' # <<>>)

\* Two runs of events that owe nothing join to one.
LEMMA QuietJoins ==
  ASSUME NEW q, NEW r, Unowed(q), Unowed(r)
  PROVE  Unowed(q \o r)
<1>1. q \o r \in Seq(EventType) BY DEF Unowed
<1> QED BY <1>1, NoCreditAdded DEF Unowed

\* One event that owes nothing.
LEMMA QuietOnes ==
  ASSUME NEW e \in EventType, ~Credited(e)
  PROVE  Unowed(<<e>>)
<1>1. <<e>> \in Seq(EventType) /\ DOMAIN <<e>> = {1} /\ <<e>>[1] = e OBVIOUS
<1> QED BY <1>1 DEF Unowed, CreditedIn

\* No event owes nothing.
LEMMA QuietNone == Unowed(<<>>)
BY DEF Unowed, CreditedIn

\* What a part may add to the queue.
LEMMA QuietEvents ==
  /\ \A c \in Collectors : Unowed(<<Repair(c)>>) /\ Unowed(<<Document(c)>>)
  /\ Unowed(<<Complete>>)
  /\ \A p \in Nat : Unowed(<<StreamedPage(p)>>)
<1>1. \A c \in Collectors : Repair(c) \in EventType /\ ~Credited(Repair(c))
                            /\ Document(c) \in EventType /\ ~Credited(Document(c))
  BY DEF Repair, Document, Event, EventType, Credited
<1>2. Complete \in EventType /\ ~Credited(Complete)
  BY DEF Complete, Event, EventType, Credited
<1>3. \A p \in Nat : StreamedPage(p) \in EventType /\ ~Credited(StreamedPage(p))
  BY DEF StreamedPage, Event, EventType, Credited
<1> QED BY <1>1, <1>2, <1>3, QuietOnes

\* The last part adds at most the repair event and the complete event.
LEMMA PartDoneGrows ==
  ASSUME StreamInv, NEW r, Unowed(r), NEW settled, part_done(events \o r, settled)
  PROVE  QueueGrows
<1>0. events \in Seq(EventType) /\ r \in Seq(EventType)
  BY DEF StreamInv, TypeOK, QueueTypeOK, Unowed
<1>1. PICK with \in BOOLEAN, done \in BOOLEAN :
        pump(IF done THEN (events \o r) \o FoldDelta(settled, with) \o <<Complete>> ELSE events \o r,
             write_in_flight, finish_requested')
  BY DEF part_done
<1>2. Unowed(FoldDelta(settled, with))
  BY QuietNone, QuietEvents DEF FoldDelta, Collectors
<1>3. Unowed(FoldDelta(settled, with) \o <<Complete>>) BY <1>2, QuietEvents, QuietJoins
<1>4. CASE done
  <2> DEFINE d == FoldDelta(settled, with)
             m == <<Complete>>
  <2>1. d \in Seq(EventType) /\ m \in Seq(EventType) BY <1>2, QuietEvents DEF Unowed
  <2>2. events' = (events \o r) \o d \o m BY <1>1, <1>4 DEF pump
  <2> HIDE DEF d, m
  <2>3. events' = events \o (r \o (d \o m))
    <3>1. r \o d \in Seq(EventType) /\ d \o m \in Seq(EventType) BY <1>0, <2>1
    <3>2. (events \o r) \o (d \o m) = events \o (r \o (d \o m)) BY SMTT(30), <1>0, <3>1, JoinAssociates
    <3>3. ((events \o r) \o d) \o m = (events \o r) \o (d \o m)
      BY SMTT(30), <1>0, <2>1, JoinAssociates
    <3> QED BY <2>2, <3>2, <3>3
  <2>4. Unowed(r \o (d \o m)) BY <1>3, QuietJoins DEF d, m
  <2>5. write_in_flight' = (write_in_flight \/ events' # <<>>) BY <1>1 DEF pump
  <2> QED BY <2>3, <2>4, <2>5 DEF QueueGrows, Unowed
<1>5. CASE ~done
  BY <1>0, <1>1, <1>5 DEF pump, QueueGrows, Unowed
<1> QED BY <1>4, <1>5

\* A queue that is left as it is grows by no event.
LEMMA StillGrows ==
  ASSUME StreamInv, events' = events, write_in_flight' = (write_in_flight \/ events # <<>>)
  PROVE  QueueGrows
<1>1. events \o <<>> = events /\ <<>> \in Seq(EventType) BY DEF StreamInv, TypeOK, QueueTypeOK
<1> QED BY <1>1, QuietNone DEF QueueGrows, Unowed

\* A part that lands adds its pages, its repair event and its Document.
LEMMA LandGrows ==
  ASSUME StreamInv, NEW c \in Legs, NEW success \in BOOLEAN, NEW k \in Nat, NEW streamed \in BOOLEAN,
         LegLands(c, success, k, streamed)
  PROVE  QueueGrows
<1>0. events \in Seq(EventType) /\ write_in_flight = (events # <<>>) /\ c \in Collectors
  BY DEF StreamInv, TypeOK, QueueTypeOK, Legs, Collectors
<1>1. CASE UNCHANGED writes BY <1>0, <1>1, StillGrows
<1>2. CASE DocumentRefused
  BY <1>0, <1>2, StillGrows DEF DocumentRefused, FinishCall, pump
<1>3. CASE PartFailed(c, "UNAVAILABLE")
  <2>1. events \o <<>> = events BY <1>0
  <2> QED BY <1>3, <2>1, QuietNone, PartDoneGrows DEF PartFailed
<1>4. CASE DocumentArrived(c, k, streamed)
  <2> DEFINE pages == IF streamed THEN <<>> ELSE [p \in 1..k |-> ProjectedPage(c, p)]
             d == <<Document(c)>>
  <2>1. Unowed(pages)
    <3>1. [p \in 1..k |-> ProjectedPage(c, p)] \in Seq(EventType)
      <4>1. \A p \in Nat : ProjectedPage(c, p) \in EventType
        BY <1>0 DEF ProjectedPage, Event, EventType
      <4>2. \A p \in 1..k : ProjectedPage(c, p) \in EventType BY <4>1
      <4> QED BY <4>2
    <3>2. CreditedIn([p \in 1..k |-> ProjectedPage(c, p)]) = {}
      BY DEF CreditedIn, Credited, ProjectedPage, Event, Legs
    <3> QED BY <3>1, <3>2, QuietNone DEF Unowed
  <2>2. PICK repair, settled : /\ repair \in {<<Repair(c)>>, <<>>}
                               /\ PartSucceeded(events \o pages \o repair \o d, settled)
    <3> DEFINE settles == streamed /\ ~fold_has_cv /\ ~fold_settled
    <3>1. PICK changed \in BOOLEAN :
            PartSucceeded(
              events \o pages
                \o (IF changed /\ (settles \/ pages # <<>>) THEN <<Repair(c)>> ELSE <<>>) \o d,
              fold_settled \/ settles)
      BY <1>4 DEF DocumentArrived
    <3> HIDE DEF settles, pages, d
    <3> QED BY <3>1
  <2>3. Unowed(repair) BY <1>0, <2>2, QuietNone, QuietEvents
  <2>4. Unowed(d) BY <1>0, QuietEvents
  <2> HIDE DEF pages, d
  <2>5. Unowed(pages \o (repair \o d)) BY <2>1, <2>3, <2>4, QuietJoins
  <2>6. events \o pages \o repair \o d = events \o (pages \o (repair \o d))
    <3>0. pages \in Seq(EventType) /\ repair \in Seq(EventType) /\ d \in Seq(EventType)
      BY <2>1, <2>3, <2>4 DEF Unowed
    <3>1. repair \o d \in Seq(EventType) /\ events \o pages \in Seq(EventType) BY <1>0, <3>0
    <3>2. ((events \o pages) \o repair) \o d = (events \o pages) \o (repair \o d)
      BY SMTT(30), <3>0, <3>1, JoinAssociates
    <3>3. (events \o pages) \o (repair \o d) = events \o (pages \o (repair \o d))
      BY <1>0, <3>0, <3>1, JoinAssociates
    <3> QED BY <3>2, <3>3
  <2> QED BY <2>2, <2>5, <2>6, PartDoneGrows DEF PartSucceeded
<1> QED BY <1>1, <1>2, <1>3, <1>4 DEF LegLands, on_collector_done

\* So does the run's end, and a refused submission.
LEMMA RunEndGrows ==
  ASSUME StreamInv,
         (\E why \in {"none", "failed"} : on_scheduler_finish(why))
           \/ \E who \in {"process", "pdf"} : SubmitRefused(who)
  PROVE  QueueGrows
<1>0. events \in Seq(EventType) /\ write_in_flight = (events # <<>>) /\ events \o <<>> = events
  BY DEF StreamInv, TypeOK, QueueTypeOK
<1>1. CASE UNCHANGED writes BY <1>0, <1>1, StillGrows
<1>2. CASE FinishCall("CANCELLED")
  BY <1>0, <1>2, StillGrows DEF FinishCall, pump
<1>3. ASSUME NEW settled, part_done(events, settled) PROVE QueueGrows
  BY <1>0, <1>3, QuietNone, PartDoneGrows
<1> QED BY <1>1, <1>2, <1>3 DEF on_scheduler_finish, SubmitRefused, PartSucceeded, PartFailed

\* And a page the inspector streams.
LEMMA SliceGrows ==
  ASSUME StreamInv, PdfHeld \/ \E clean \in BOOLEAN : PdfSlice(clean)
  PROVE  QueueGrows
<1>0. events \in Seq(EventType) /\ write_in_flight = (events # <<>>) /\ pdf_held \in Seq(Pages)
  BY DEF StreamInv, TypeOK, QueueTypeOK, ThreadTypeOK
<1>1. CASE NotStreamed BY <1>0, <1>1, StillGrows DEF NotStreamed
<1>2. ASSUME NEW p \in Nat, on_streamed_page(p) PROVE QueueGrows
  <2>1. Append(events, StreamedPage(p)) = events \o <<StreamedPage(p)>>
    BY <1>0
  <2>2. Unowed(<<StreamedPage(p)>>) BY QuietEvents
  <2> QED BY <1>2, <2>1, <2>2 DEF on_streamed_page, pump, QueueGrows, Unowed
<1>3. pdf_held # <<>> => Head(pdf_held) \in Pages BY <1>0
<1>4. pdf_next \in Nat /\ Pages \subseteq Nat BY DEF StreamInv, TypeOK, ThreadTypeOK, Pages
<1> QED BY <1>1, <1>2, <1>3, <1>4 DEF PdfHeld, PdfSlice


\* Events nothing is owed for leave the queue typed and its credits alone.
LEMMA GrowsKeeps ==
  ASSUME StreamInv, QueueGrows
  PROVE  /\ events' \in Seq(EventType) /\ write_in_flight' = (events' # <<>>)
         /\ CreditedIn(events') = CreditedIn(events)
<1>1. events \in Seq(EventType) /\ write_in_flight = (events # <<>>)
  BY DEF StreamInv, TypeOK, QueueTypeOK
<1>2. PICK r \in Seq(EventType) : CreditedIn(r) = {} /\ events' = events \o r
  BY DEF QueueGrows
<1>3. events # <<>> => events \o r # <<>> BY <1>1, ConcatEqualIffEmpty
<1>4. write_in_flight' = (write_in_flight \/ events' # <<>>) BY DEF QueueGrows
<1>5. events \o r \in Seq(EventType) BY <1>1
<1> QED BY <1>1, <1>2, <1>3, <1>4, <1>5, NoCreditAdded

\* An accepted page: what goes out, what waits, and that it was not here before.
LEMMA PageAccepted ==
  ASSUME StreamInv, NEW p \in Pages, on_page(p)
  PROVE  LET out == InOrder(completed_pages \cup {p}) IN
         /\ Cardinality(out) \in Nat
         /\ IsFiniteSet(completed_pages) /\ Cardinality(completed_pages) \in Nat
         /\ Cardinality(completed_pages') = Cardinality(completed_pages) + 1 - Cardinality(out)
         /\ events' \in Seq(EventType) /\ write_in_flight' = (events' # <<>>)
         /\ Cardinality(CreditedIn(events')) = Cardinality(CreditedIn(events)) + Cardinality(out)
<1> DEFINE pages == completed_pages \cup {p}
           out   == InOrder(pages)
           fresh == [i \in 1..Cardinality(out) |-> CvPage(next_page + i - 1)]
<1>0. /\ events \in Seq(EventType) /\ write_in_flight = (events # <<>>)
      /\ next_page \in Nat \ {0} /\ completed_pages \subseteq Pages
  BY DEF StreamInv, TypeOK, QueueTypeOK, PageTypeOK
<1>1. out \subseteq pages /\ IsFiniteSet(out) /\ Cardinality(out) \in Nat
  BY InOrderSpan DEF StreamInv, TypeOK
<1>2. IsFiniteSet(completed_pages) /\ Cardinality(completed_pages) \in Nat
  <2>1. IsFiniteSet(Pages) BY FS_Interval, StreamAssumption DEF Pages, StreamAssumption
  <2> QED BY <1>0, <2>1, FS_Subset, FS_CardinalityType
<1>3. IsFiniteSet(pages) /\ Cardinality(pages) = Cardinality(completed_pages) + 1
  <2>1. p \notin completed_pages
    BY DEF on_page, Scheduler!DeliverPage, Scheduler!Deliverable, StreamInv, BufferKept
  <2> QED BY <1>2, <2>1, FS_AddElement
<1>4. Cardinality(completed_pages') = Cardinality(pages) - Cardinality(out)
  <2>1. completed_pages' = pages \ out BY DEF on_page
  <2>2. pages \cap out = out BY <1>1
  <2> QED BY <1>3, <2>1, <2>2, FS_Difference
<1> HIDE DEF out
<1>5. /\ fresh \in Seq(EventType) /\ Len(fresh) = Cardinality(out)
      /\ \A i \in 1..Len(fresh) : Credited(fresh[i])
  <2>1. \A n \in Nat : CvPage(n) \in EventType /\ Credited(CvPage(n))
    BY DEF CvPage, Event, EventType, Credited, Collectors
  <2>2. \A i \in 1..Cardinality(out) : next_page + i - 1 \in Nat BY <1>0, <1>1
  <2>3. \A i \in 1..Cardinality(out) : fresh[i] \in EventType /\ Credited(fresh[i])
    BY <2>1, <2>2
  <2>4. Len(fresh) = Cardinality(out) /\ fresh \in Seq(EventType) BY <1>1, <2>1, <2>2
  <2> QED BY <2>3, <2>4
<1>6. events' = events \o fresh /\ write_in_flight' = (write_in_flight \/ events' # <<>>)
  BY DEF on_page, pump, out
<1> HIDE DEF fresh
<1>7. events \o fresh \in Seq(EventType) /\ (events # <<>> => events \o fresh # <<>>)
  BY <1>0, <1>5, ConcatEqualIffEmpty, JoinAssociates
<1>8. Cardinality(CreditedIn(events \o fresh)) = Cardinality(CreditedIn(events)) + Len(fresh)
  BY <1>0, <1>5, CreditsAdded
<1>9. Cardinality(completed_pages') = Cardinality(completed_pages) + 1 - Cardinality(out)
  BY <1>1, <1>2, <1>3, <1>4
<1>10. Cardinality(CreditedIn(events')) = Cardinality(CreditedIn(events)) + Cardinality(out)
  BY <1>5, <1>6, <1>8
<1>11. events' \in Seq(EventType) /\ write_in_flight' = (events' # <<>>)
  BY <1>0, <1>6, <1>7
<1> QED BY <1>1, <1>2, <1>9, <1>10, <1>11 DEF out

\* A write is in flight whenever an event waits.
LEMMA QueueTypesStep ==
  ASSUME StreamInv, [Next]_vars
  PROVE  QueueTypeOK'
<1>1. ASSUME NEW names \in {"same", "none", "other"}, NEW size \in {0, 1}, NEW last \in BOOLEAN,
      NEW room \in BOOLEAN, OnChunk(names, size, last, room) PROVE QueueTypeOK'
  BY <1>1 DEF OnChunk, FinishCall, request_finish, Overrides, pump, CancelRun, Scheduler!Withdraw,
     StreamInv, TypeOK, QueueTypeOK
<1>2. CASE ClientHalfClose
  BY <1>2 DEF ClientHalfClose, StreamInv, TypeOK, QueueTypeOK
<1>3. CASE ClientCancel
  BY <1>3 DEF ClientCancel, StreamInv, TypeOK, QueueTypeOK
<1>4. CASE OnReadClosed
  BY <1>4 DEF OnReadClosed, start_processing, FinishCall, request_finish, Overrides, pump,
     CancelRun, Scheduler!Withdraw, StreamInv, TypeOK, QueueTypeOK
<1>5. CASE OnCancel
  BY <1>5 DEF OnCancel, FinishCall, request_finish, Overrides, pump, CancelRun,
     Scheduler!Withdraw, StreamInv, TypeOK, QueueTypeOK
<1>6. CASE OnWriteDone

  <2>1. events \in Seq(EventType) /\ events # <<>> BY <1>6 DEF OnWriteDone, StreamInv, TypeOK,
      QueueTypeOK
  <2>2. Tail(events) \in Seq(EventType) BY <2>1
  <2> QED BY <1>6, <2>2 DEF OnWriteDone, pump, StreamInv, TypeOK, QueueTypeOK
<1>7. CASE OnWriteFailed

  <2>1. events' = <<>> /\ write_in_flight' = FALSE BY <1>7 DEF OnWriteFailed, pump
  <2>2. UNCHANGED folds /\ <<>> \in Seq(EventType) BY <1>7 DEF OnWriteFailed
  <2> QED BY <2>1, <2>2 DEF StreamInv, TypeOK, QueueTypeOK
<1>8. CASE OnDone
  BY <1>8 DEF OnDone, StreamInv, TypeOK, QueueTypeOK
<1>9. CASE DropBuffer
  BY <1>9 DEF DropBuffer, StreamInv, TypeOK, QueueTypeOK
<1>10. CASE ResolveRefused
  BY <1>10 DEF ResolveRefused, take_bytes, ProcessEnds, FinishCall, request_finish, Overrides,
     pump, CancelRun, Scheduler!Withdraw, StreamInv, TypeOK, QueueTypeOK
<1>11. ASSUME NEW pl \in Plans, ResolvePlan(pl) PROVE QueueTypeOK'
  BY <1>11 DEF ResolvePlan, take_bytes, FinishCall, request_finish, Overrides, pump, CancelRun,
     Scheduler!Withdraw, StreamInv, TypeOK, QueueTypeOK
<1>12. CASE ProcessLaunch
  BY <1>12 DEF ProcessLaunch, StreamInv, TypeOK, QueueTypeOK
<1>13. CASE ProcessGone
  BY <1>13 DEF ProcessGone, ProcessEnds, StreamInv, TypeOK, QueueTypeOK
<1>14. CASE ProcessThrows
  BY <1>14 DEF ProcessThrows, ProcessEnds, FinishCall, request_finish, Overrides, pump, CancelRun,
     Scheduler!Withdraw, StreamInv, TypeOK, QueueTypeOK
<1>15. CASE LaunchDone
  BY <1>15 DEF LaunchDone, StreamInv, TypeOK, QueueTypeOK
<1>16. ASSUME NEW c \in Legs, LaunchLeg(c) PROVE QueueTypeOK'
  BY <1>16 DEF LaunchLeg, StreamInv, TypeOK, QueueTypeOK
<1>17. ASSUME NEW who \in {"process", "pdf"}, SubmitRun(who) PROVE QueueTypeOK'
  BY <1>17 DEF SubmitRun, Submitting, SubmitterAt, Scheduler!Admit, StreamInv, TypeOK, QueueTypeOK
<1>18. ASSUME NEW who \in {"process", "pdf"}, SubmitRefused(who) PROVE QueueTypeOK'

  <2>1. events' \in Seq(EventType) /\ write_in_flight' = (events' # <<>>)
    BY <1>18, RunEndGrows, GrowsKeeps
  <2>2. {fold_empty', fold_has_cv', fold_settled'} \subseteq BOOLEAN
    BY <1>18 DEF SubmitRefused, PartFailed, part_done, StreamInv, TypeOK, QueueTypeOK
  <2> QED BY <2>1, <2>2 DEF QueueTypeOK
<1>19. ASSUME NEW who \in {"process", "pdf"}, SetTicket(who) PROVE QueueTypeOK'
  BY <1>19 DEF SetTicket, Submitted, SubmitterAt, CancelRun, Scheduler!Withdraw, StreamInv,
     TypeOK, QueueTypeOK
<1>20. ASSUME NEW c \in Legs, NEW success \in BOOLEAN, NEW k \in Nat, NEW streamed \in BOOLEAN,
      LegLands(c, success, k, streamed) PROVE QueueTypeOK'

  <2>1. events' \in Seq(EventType) /\ write_in_flight' = (events' # <<>>)
    BY <1>20, LandGrows, GrowsKeeps
  <2>2. {fold_empty', fold_has_cv', fold_settled'} \subseteq BOOLEAN
    BY <1>20 DEF LegLands, on_collector_done, PartFailed, PartSucceeded, part_done,
        DocumentArrived, DocumentRefused, StreamInv, TypeOK, QueueTypeOK
  <2> QED BY <2>1, <2>2 DEF QueueTypeOK
<1>21. ASSUME NEW clean \in BOOLEAN, PdfSlice(clean) PROVE QueueTypeOK'

  <2>1. events' \in Seq(EventType) /\ write_in_flight' = (events' # <<>>)
    BY <1>21, SliceGrows, GrowsKeeps
  <2>2. {fold_empty', fold_has_cv', fold_settled'} \subseteq BOOLEAN
    BY <1>21 DEF PdfSlice, on_streamed_page, NotStreamed, StreamInv, TypeOK, QueueTypeOK
  <2> QED BY <2>1, <2>2 DEF QueueTypeOK
<1>22. ASSUME NEW success \in BOOLEAN, NEW fast \in BOOLEAN, PdfEnd(success, fast) PROVE
      QueueTypeOK'
  BY <1>22 DEF PdfEnd, PdfAt, StreamInv, TypeOK, QueueTypeOK
<1>23. CASE PdfHeld

  <2>1. events' \in Seq(EventType) /\ write_in_flight' = (events' # <<>>)
    BY <1>23, SliceGrows, GrowsKeeps
  <2>2. {fold_empty', fold_has_cv', fold_settled'} \subseteq BOOLEAN
    BY <1>23 DEF PdfHeld, on_streamed_page, NotStreamed, StreamInv, TypeOK, QueueTypeOK
  <2> QED BY <2>1, <2>2 DEF QueueTypeOK
<1>24. CASE PdfLeft
  BY <1>24 DEF PdfLeft, PdfAt, StreamInv, TypeOK, QueueTypeOK
<1>25. CASE PdfFallback
  BY <1>25 DEF PdfFallback, PdfAt, record_part_failure, StreamInv, TypeOK, QueueTypeOK
<1>26. CASE PdfSubmit
  BY <1>26 DEF PdfSubmit, PdfAt, StreamInv, TypeOK, QueueTypeOK
<1>27. CASE RunOpens
  BY <1>27 DEF RunOpens, Scheduler!Size, Scheduler!Live, StreamInv, TypeOK, QueueTypeOK
<1>28. CASE RunFails
  BY <1>28 DEF RunFails, Scheduler!Live, Scheduler!Break, StreamInv, TypeOK, QueueTypeOK
<1>29. CASE on_document
  BY <1>29 DEF on_document, Scheduler!Announce, StreamInv, TypeOK, QueueTypeOK
<1>30. ASSUME NEW p \in Pages, on_page(p) PROVE QueueTypeOK'

  <2>1. events' \in Seq(EventType) /\ write_in_flight' = (events' # <<>>) BY <1>30, PageAccepted
  <2>2. {fold_empty', fold_has_cv', fold_settled'} \subseteq BOOLEAN
    BY <1>30 DEF on_page, StreamInv, TypeOK, QueueTypeOK
  <2> QED BY <2>1, <2>2 DEF QueueTypeOK
<1>31. ASSUME NEW p \in Pages, PageRefused(p) PROVE QueueTypeOK'

  <2>1. UNCHANGED folds BY <1>31 DEF PageRefused
  <2>2. CASE UNCHANGED writes BY <2>1, <2>2 DEF StreamInv, TypeOK, QueueTypeOK
  <2>3. CASE pump(IF write_in_flight THEN <<Head(events)>> ELSE <<>>, write_in_flight, TRUE)
    <3>1. write_in_flight => Head(events) \in EventType
      <4>1. events \in Seq(EventType) /\ (write_in_flight => events # <<>>) BY DEF StreamInv,
          TypeOK, QueueTypeOK
      <4> QED BY <4>1
    <3>2. <<>> \in Seq(EventType) /\ \A e \in EventType : <<e>> \in Seq(EventType) /\ <<e>> #
        <<>>
      OBVIOUS
    <3> QED BY <2>1, <2>3, <3>1, <3>2 DEF pump, StreamInv, TypeOK, QueueTypeOK
  <2> QED BY <1>31, <2>2, <2>3 DEF PageRefused
<1>32. ASSUME NEW why \in {"none", "failed"}, on_scheduler_finish(why) PROVE QueueTypeOK'

  <2>1. events' \in Seq(EventType) /\ write_in_flight' = (events' # <<>>)
    BY <1>32, RunEndGrows, GrowsKeeps
  <2>2. {fold_empty', fold_has_cv', fold_settled'} \subseteq BOOLEAN
    BY <1>32 DEF on_scheduler_finish, PartFailed, PartSucceeded, part_done, DocumentArrived,
        DocumentRefused, StreamInv, TypeOK, QueueTypeOK
  <2> QED BY <2>1, <2>2 DEF QueueTypeOK
<1>33. CASE UNCHANGED vars
  BY <1>33 DEF vars, StreamInv, TypeOK, QueueTypeOK
<1> QED BY StepCases, <1>1, <1>2, <1>3, <1>4, <1>5, <1>6, <1>7, <1>8, <1>9, <1>10, <1>11, <1>12,
    <1>13, <1>14, <1>15, <1>16, <1>17, <1>18, <1>19, <1>20, <1>21, <1>22, <1>23, <1>24, <1>25,
    <1>26, <1>27, <1>28, <1>29, <1>30, <1>31, <1>32, <1>33

\* The buffer count moves with the credits.
LEMMA BufferStep ==
  ASSUME StreamInv, [Next]_vars
  PROVE  BufferKept'
<1>1. ASSUME NEW names \in {"same", "none", "other"}, NEW size \in {0, 1}, NEW last \in BOOLEAN,
      NEW room \in BOOLEAN, OnChunk(names, size, last, room) PROVE BufferKept'
  BY <1>1 DEF OnChunk, FinishCall, request_finish, Overrides, pump, CancelRun, Scheduler!Withdraw,
     StreamInv, BufferKept, BufferMatchesCredits
<1>2. CASE ClientHalfClose
  BY <1>2 DEF ClientHalfClose, StreamInv, BufferKept, BufferMatchesCredits
<1>3. CASE ClientCancel
  BY <1>3 DEF ClientCancel, StreamInv, BufferKept, BufferMatchesCredits
<1>4. CASE OnReadClosed
  BY <1>4 DEF OnReadClosed, start_processing, FinishCall, request_finish, Overrides, pump,
     CancelRun, Scheduler!Withdraw, StreamInv, BufferKept, BufferMatchesCredits
<1>5. CASE OnCancel
  BY <1>5 DEF OnCancel, FinishCall, request_finish, Overrides, pump, CancelRun,
     Scheduler!Withdraw, StreamInv, BufferKept, BufferMatchesCredits
<1>6. CASE OnWriteDone

  <2>0. /\ events \in Seq(EventType) /\ events # <<>>
        /\ buffered_pages \in Nat /\ owed[Run] \in Nat /\ owed \in [{Run} -> Nat]
    <3>1. write_in_flight BY <1>6 DEF OnWriteDone
    <3>2. events \in Seq(EventType) /\ events # <<>> BY <3>1 DEF StreamInv, TypeOK, QueueTypeOK
    <3>3. buffered_pages \in Nat BY DEF StreamInv, TypeOK, PageTypeOK
    <3>4. owed \in [{Run} -> Nat] BY DEF StreamInv, RunTypes
    <3> QED BY <3>2, <3>3, <3>4
  <2>1. /\ events' = Tail(events)
        /\ UNCHANGED <<client_cancelled, completed_pages, taken>>
    BY <1>6 DEF OnWriteDone, pump, Scheduler!Credit
  <2>2. Cardinality(CreditedIn(events))
          = Cardinality(CreditedIn(Tail(events))) + IF Credited(Head(events)) THEN 1 ELSE 0
    BY <2>0, CreditWritten
  <2>3. CASE client_cancelled BY <2>1, <2>3 DEF StreamInv, BufferKept, BufferMatchesCredits
  <2>4. CASE ~client_cancelled
    <3>0. /\ Cardinality(completed_pages) \in Nat /\ Cardinality(CreditedIn(Tail(events))) \in
             Nat
      <4>1. completed_pages \subseteq Pages /\ IsFiniteSet(Pages)
        BY FS_Interval, StreamAssumption DEF Pages, StreamAssumption, StreamInv, TypeOK,
            PageTypeOK
      <4>2. Tail(events) \in Seq(EventType) BY <2>0
      <4> QED BY <4>1, <4>2, CreditsFinite, FS_Subset, FS_CardinalityType
    <3>1. buffered_pages = owed[Run]
          /\ buffered_pages = Cardinality(completed_pages) + Cardinality(CreditedIn(events))
      BY <2>4 DEF StreamInv, BufferKept, BufferMatchesCredits
    <3>2. CASE Credited(Head(events))
      <4>1. buffered_pages > 0 BY <2>2, <3>0, <3>1, <3>2
      <4>2. ticket_set
        BY <2>0, <3>1, <4>1, <1>6 DEF OnWriteDone, StreamInv, OwedHasTicket
      <4>3. buffered_pages' = buffered_pages - 1 /\ Scheduler!Credit(Run)
        BY <1>6, <3>1, <3>2, <4>1, <4>2 DEF OnWriteDone
      <4>4. owed'[Run] = owed[Run] - 1 BY <2>0, <4>3 DEF Scheduler!Credit
      <4>5. Cardinality(CreditedIn(events)) = Cardinality(CreditedIn(Tail(events))) + 1
        BY <2>2, <3>2
      <4>6. buffered_pages' = owed'[Run]
            /\ buffered_pages' = Cardinality(completed_pages) +
                Cardinality(CreditedIn(Tail(events)))
        <5>1. \A b, o, c, e, t \in Nat :
                b = o /\ b = c + e /\ e = t + 1 => b - 1 = o - 1 /\ b - 1 = c + t
          OBVIOUS
        <5>2. Cardinality(CreditedIn(events)) \in Nat BY <3>0, <4>5
        <5>3. /\ buffered_pages - 1 = owed[Run] - 1
              /\ buffered_pages - 1
                   = Cardinality(completed_pages) + Cardinality(CreditedIn(Tail(events)))
          BY <2>0, <3>0, <3>1, <4>5, <5>1, <5>2
        <5>4. buffered_pages' = buffered_pages - 1 /\ owed'[Run] = owed[Run] - 1 BY <4>3, <4>4
        <5> QED BY <5>3, <5>4
      <4> QED BY <2>1, <4>6 DEF StreamInv, BufferKept, BufferMatchesCredits
    <3>3. CASE ~Credited(Head(events))
      <4>1. UNCHANGED <<buffered_pages, owed>> BY <1>6, <3>3 DEF OnWriteDone
      <4>2. Cardinality(CreditedIn(events)) = Cardinality(CreditedIn(Tail(events)))
        BY <2>2, <3>0, <3>3
      <4>3. buffered_pages' = owed'[Run]
            /\ buffered_pages' = Cardinality(completed_pages) +
                Cardinality(CreditedIn(Tail(events)))
        BY <3>1, <4>1, <4>2
      <4> QED BY <2>1, <4>3 DEF StreamInv, BufferKept, BufferMatchesCredits
    <3> QED BY <3>2, <3>3
  <2> QED BY <2>3, <2>4
<1>7. CASE OnWriteFailed
  BY <1>7 DEF OnWriteFailed, FinishCall, request_finish, Overrides, pump, CancelRun,
     Scheduler!Withdraw, StreamInv, BufferKept, BufferMatchesCredits
<1>8. CASE OnDone
  BY <1>8 DEF OnDone, StreamInv, BufferKept, BufferMatchesCredits
<1>9. CASE DropBuffer
  BY <1>9 DEF DropBuffer, StreamInv, BufferKept, BufferMatchesCredits
<1>10. CASE ResolveRefused
  BY <1>10 DEF ResolveRefused, take_bytes, ProcessEnds, FinishCall, request_finish, Overrides,
     pump, CancelRun, Scheduler!Withdraw, StreamInv, BufferKept, BufferMatchesCredits
<1>11. ASSUME NEW pl \in Plans, ResolvePlan(pl) PROVE BufferKept'
  BY <1>11 DEF ResolvePlan, take_bytes, FinishCall, request_finish, Overrides, pump, CancelRun,
     Scheduler!Withdraw, StreamInv, BufferKept, BufferMatchesCredits
<1>12. CASE ProcessLaunch
  BY <1>12 DEF ProcessLaunch, StreamInv, BufferKept, BufferMatchesCredits
<1>13. CASE ProcessGone
  BY <1>13 DEF ProcessGone, ProcessEnds, StreamInv, BufferKept, BufferMatchesCredits
<1>14. CASE ProcessThrows
  BY <1>14 DEF ProcessThrows, ProcessEnds, FinishCall, request_finish, Overrides, pump, CancelRun,
     Scheduler!Withdraw, StreamInv, BufferKept, BufferMatchesCredits
<1>15. CASE LaunchDone
  BY <1>15 DEF LaunchDone, StreamInv, BufferKept, BufferMatchesCredits
<1>16. ASSUME NEW c \in Legs, LaunchLeg(c) PROVE BufferKept'
  BY <1>16 DEF LaunchLeg, StreamInv, BufferKept, BufferMatchesCredits
<1>17. ASSUME NEW who \in {"process", "pdf"}, SubmitRun(who) PROVE BufferKept'
  BY <1>17 DEF SubmitRun, Submitting, SubmitterAt, Scheduler!Admit, StreamInv, BufferKept,
     BufferMatchesCredits
<1>18. ASSUME NEW who \in {"process", "pdf"}, SubmitRefused(who) PROVE BufferKept'

  <2>1. CreditedIn(events') = CreditedIn(events) BY <1>18, RunEndGrows, GrowsKeeps
  <2>2. UNCHANGED <<buffered_pages, completed_pages, owed, taken>> /\ (client_cancelled =>
      client_cancelled')
    BY <1>18 DEF SubmitRefused, CancelRun, Scheduler!Withdraw
  <2> QED BY <2>1, <2>2 DEF StreamInv, BufferKept, BufferMatchesCredits
<1>19. ASSUME NEW who \in {"process", "pdf"}, SetTicket(who) PROVE BufferKept'
  BY <1>19 DEF SetTicket, Submitted, SubmitterAt, CancelRun, Scheduler!Withdraw, StreamInv,
     BufferKept, BufferMatchesCredits
<1>20. ASSUME NEW c \in Legs, NEW success \in BOOLEAN, NEW k \in Nat, NEW streamed \in BOOLEAN,
      LegLands(c, success, k, streamed) PROVE BufferKept'

  <2>1. CreditedIn(events') = CreditedIn(events) BY <1>20, LandGrows, GrowsKeeps
  <2>2. UNCHANGED <<buffered_pages, completed_pages, owed, taken>> /\ (client_cancelled =>
      client_cancelled')
    BY <1>20 DEF LegLands, on_collector_done, DocumentArrived, DocumentRefused, CancelRun,
        Scheduler!Withdraw
  <2> QED BY <2>1, <2>2 DEF StreamInv, BufferKept, BufferMatchesCredits
<1>21. ASSUME NEW clean \in BOOLEAN, PdfSlice(clean) PROVE BufferKept'

  <2>1. CreditedIn(events') = CreditedIn(events) BY <1>21, SliceGrows, GrowsKeeps
  <2>2. UNCHANGED <<buffered_pages, completed_pages, owed, taken>> /\ (client_cancelled =>
      client_cancelled')
    BY <1>21 DEF PdfSlice, on_streamed_page, NotStreamed
  <2> QED BY <2>1, <2>2 DEF StreamInv, BufferKept, BufferMatchesCredits
<1>22. ASSUME NEW success \in BOOLEAN, NEW fast \in BOOLEAN, PdfEnd(success, fast) PROVE
      BufferKept'
  BY <1>22 DEF PdfEnd, PdfAt, StreamInv, BufferKept, BufferMatchesCredits
<1>23. CASE PdfHeld

  <2>1. CreditedIn(events') = CreditedIn(events) BY <1>23, SliceGrows, GrowsKeeps
  <2>2. UNCHANGED <<buffered_pages, completed_pages, owed, taken>> /\ (client_cancelled =>
      client_cancelled')
    BY <1>23 DEF PdfHeld, on_streamed_page, NotStreamed
  <2> QED BY <2>1, <2>2 DEF StreamInv, BufferKept, BufferMatchesCredits
<1>24. CASE PdfLeft
  BY <1>24 DEF PdfLeft, PdfAt, StreamInv, BufferKept, BufferMatchesCredits
<1>25. CASE PdfFallback
  BY <1>25 DEF PdfFallback, PdfAt, record_part_failure, StreamInv, BufferKept,
     BufferMatchesCredits
<1>26. CASE PdfSubmit
  BY <1>26 DEF PdfSubmit, PdfAt, StreamInv, BufferKept, BufferMatchesCredits
<1>27. CASE RunOpens
  BY <1>27 DEF RunOpens, Scheduler!Size, Scheduler!Live, StreamInv, BufferKept,
     BufferMatchesCredits
<1>28. CASE RunFails
  BY <1>28 DEF RunFails, Scheduler!Live, Scheduler!Break, StreamInv, BufferKept,
     BufferMatchesCredits
<1>29. CASE on_document
  BY <1>29 DEF on_document, Scheduler!Announce, StreamInv, BufferKept, BufferMatchesCredits
<1>30. ASSUME NEW p \in Pages, on_page(p) PROVE BufferKept'

  <2>1. buffered_pages' = buffered_pages + 1 /\ UNCHANGED client_cancelled
    BY <1>30 DEF on_page
  <2>8. Scheduler!DeliverPage(Run, p) BY <1>30 DEF on_page
  <2>9. owed' = [owed EXCEPT ![Run] = owed[Run] + 1]
       /\ taken' = [taken EXCEPT ![Run] = taken[Run] \cup {p}]
    BY <2>8 DEF Scheduler!DeliverPage
  <2>6. completed_pages' \subseteq completed_pages \cup {p} BY <1>30 DEF on_page
  <2>7. owed \in [{Run} -> Nat] /\ taken \in [{Run} -> SUBSET Pages]
    BY DEF StreamInv, RunTypes
  <2>2. owed'[Run] = owed[Run] + 1 /\ taken'[Run] = taken[Run] \cup {p}
    BY <2>7, <2>9
  <2>3. completed_pages' \subseteq taken'[Run] BY <2>2, <2>6 DEF StreamInv, BufferKept,
      BufferMatchesCredits
  <2>4. PICK n \in Nat :
          /\ Cardinality(completed_pages) \in Nat
          /\ Cardinality(completed_pages') = Cardinality(completed_pages) + 1 - n
          /\ Cardinality(CreditedIn(events')) = Cardinality(CreditedIn(events)) + n
    BY <1>30, PageAccepted
  <2>5. Cardinality(CreditedIn(events)) \in Nat
    BY CreditsFinite DEF StreamInv, TypeOK, QueueTypeOK
  <2> QED BY <2>1, <2>2, <2>3, <2>4, <2>5 DEF StreamInv, BufferKept, BufferMatchesCredits
<1>31. ASSUME NEW p \in Pages, PageRefused(p) PROVE BufferKept'

  <2>1. UNCHANGED <<owed, taken, client_cancelled>>
    BY <1>31 DEF PageRefused, Scheduler!Withdraw
  <2>2. CASE UNCHANGED <<writes, buffered_pages, completed_pages>>
    BY <2>1, <2>2 DEF StreamInv, BufferKept, BufferMatchesCredits
  <2>3. CASE ~client_cancelled /\ buffered_pages >= PageWindow
    BY <1>31, <2>3, StreamAssumption DEF PageRefused, Scheduler!Deliverable, StreamInv,
        BufferKept, BufferMatchesCredits,
       TypeOK, PageTypeOK, StreamAssumption
  <2> QED BY <1>31, <2>2, <2>3 DEF PageRefused
<1>32. ASSUME NEW why \in {"none", "failed"}, on_scheduler_finish(why) PROVE BufferKept'

  <2>1. CreditedIn(events') = CreditedIn(events) BY <1>32, RunEndGrows, GrowsKeeps
  <2>2. UNCHANGED <<buffered_pages, completed_pages, owed, taken>> /\ (client_cancelled =>
      client_cancelled')
    BY <1>32 DEF on_scheduler_finish, Scheduler!Finish
  <2> QED BY <2>1, <2>2 DEF StreamInv, BufferKept, BufferMatchesCredits
<1>33. CASE UNCHANGED vars
  BY <1>33 DEF vars, StreamInv, BufferKept, BufferMatchesCredits
<1> QED BY StepCases, <1>1, <1>2, <1>3, <1>4, <1>5, <1>6, <1>7, <1>8, <1>9, <1>10, <1>11, <1>12,
    <1>13, <1>14, <1>15, <1>16, <1>17, <1>18, <1>19, <1>20, <1>21, <1>22, <1>23, <1>24, <1>25,
    <1>26, <1>27, <1>28, <1>29, <1>30, <1>31, <1>32, <1>33

\* A page is only owed to a run whose ticket is stored.
LEMMA OwedStep ==
  ASSUME StreamInv, [Next]_vars
  PROVE  OwedHasTicket'
<1>1. ASSUME NEW names \in {"same", "none", "other"}, NEW size \in {0, 1}, NEW last \in BOOLEAN,
      NEW room \in BOOLEAN, OnChunk(names, size, last, room) PROVE OwedHasTicket'
  BY <1>1 DEF OnChunk, FinishCall, request_finish, Overrides, pump, CancelRun, Scheduler!Withdraw,
     StreamInv, OwedHasTicket, RunTypes, Run
<1>2. CASE ClientHalfClose
  BY <1>2 DEF ClientHalfClose, StreamInv, OwedHasTicket, RunTypes, Run
<1>3. CASE ClientCancel
  BY <1>3 DEF ClientCancel, StreamInv, OwedHasTicket, RunTypes, Run
<1>4. CASE OnReadClosed
  BY <1>4 DEF OnReadClosed, start_processing, FinishCall, request_finish, Overrides, pump,
     CancelRun, Scheduler!Withdraw, StreamInv, OwedHasTicket, RunTypes, Run
<1>5. CASE OnCancel
  BY <1>5 DEF OnCancel, FinishCall, request_finish, Overrides, pump, CancelRun,
     Scheduler!Withdraw, StreamInv, OwedHasTicket, RunTypes, Run
<1>6. CASE OnWriteDone
  BY <1>6 DEF OnWriteDone, pump, Scheduler!Credit, StreamInv, OwedHasTicket, RunTypes, Run
<1>7. CASE OnWriteFailed
  BY <1>7 DEF OnWriteFailed, FinishCall, request_finish, Overrides, pump, CancelRun,
     Scheduler!Withdraw, StreamInv, OwedHasTicket, RunTypes, Run
<1>8. CASE OnDone
  BY <1>8 DEF OnDone, StreamInv, OwedHasTicket, RunTypes, Run
<1>9. CASE DropBuffer
  BY <1>9 DEF DropBuffer, StreamInv, OwedHasTicket, RunTypes, Run
<1>10. CASE ResolveRefused
  BY <1>10 DEF ResolveRefused, take_bytes, ProcessEnds, FinishCall, request_finish, Overrides,
     pump, CancelRun, Scheduler!Withdraw, StreamInv, OwedHasTicket, RunTypes, Run
<1>11. ASSUME NEW pl \in Plans, ResolvePlan(pl) PROVE OwedHasTicket'
  BY <1>11 DEF ResolvePlan, take_bytes, FinishCall, request_finish, Overrides, pump, CancelRun,
     Scheduler!Withdraw, StreamInv, OwedHasTicket, RunTypes, Run
<1>12. CASE ProcessLaunch
  BY <1>12 DEF ProcessLaunch, StreamInv, OwedHasTicket, RunTypes, Run
<1>13. CASE ProcessGone
  BY <1>13 DEF ProcessGone, ProcessEnds, StreamInv, OwedHasTicket, RunTypes, Run
<1>14. CASE ProcessThrows
  BY <1>14 DEF ProcessThrows, ProcessEnds, FinishCall, request_finish, Overrides, pump, CancelRun,
     Scheduler!Withdraw, StreamInv, OwedHasTicket, RunTypes, Run
<1>15. CASE LaunchDone
  BY <1>15 DEF LaunchDone, StreamInv, OwedHasTicket, RunTypes, Run
<1>16. ASSUME NEW c \in Legs, LaunchLeg(c) PROVE OwedHasTicket'
  BY <1>16 DEF LaunchLeg, StreamInv, OwedHasTicket, RunTypes, Run
<1>17. ASSUME NEW who \in {"process", "pdf"}, SubmitRun(who) PROVE OwedHasTicket'
  BY <1>17 DEF SubmitRun, Submitting, SubmitterAt, Scheduler!Admit, StreamInv, OwedHasTicket,
     RunTypes, Run
<1>18. ASSUME NEW who \in {"process", "pdf"}, SubmitRefused(who) PROVE OwedHasTicket'
  BY <1>18 DEF SubmitRefused, Submitting, SubmitterAt, PartFailed, part_done, record_part_failure,
     FirstFailure, NoFinish, request_finish, Overrides, pump, CancelRun, Scheduler!Withdraw,
     StreamInv, OwedHasTicket, RunTypes, Run
<1>19. ASSUME NEW who \in {"process", "pdf"}, SetTicket(who) PROVE OwedHasTicket'
  BY <1>19 DEF SetTicket, Submitted, SubmitterAt, CancelRun, Scheduler!Withdraw, StreamInv,
     OwedHasTicket, RunTypes, Run
<1>20. ASSUME NEW c \in Legs, NEW success \in BOOLEAN, NEW k \in Nat, NEW streamed \in BOOLEAN,
      LegLands(c, success, k, streamed) PROVE OwedHasTicket'
  BY <1>20 DEF LegLands, on_collector_done, DocumentArrived, DocumentRefused, PartFailed,
     PartSucceeded, FinishCall, part_done, record_part_failure, FirstFailure, NoFinish,
     request_finish, Overrides, pump, CancelRun, Scheduler!Withdraw, StreamInv, OwedHasTicket,
     RunTypes, Run
<1>21. ASSUME NEW clean \in BOOLEAN, PdfSlice(clean) PROVE OwedHasTicket'
  BY <1>21 DEF PdfSlice, NotStreamed, StreamTakes, on_streamed_page, pump, StreamInv,
     OwedHasTicket, RunTypes, Run
<1>22. ASSUME NEW success \in BOOLEAN, NEW fast \in BOOLEAN, PdfEnd(success, fast) PROVE
      OwedHasTicket'
  BY <1>22 DEF PdfEnd, PdfAt, StreamInv, OwedHasTicket, RunTypes, Run
<1>23. CASE PdfHeld
  BY <1>23 DEF PdfHeld, PdfAt, NotStreamed, StreamTakes, on_streamed_page, pump, StreamInv,
     OwedHasTicket, RunTypes, Run
<1>24. CASE PdfLeft
  BY <1>24 DEF PdfLeft, PdfAt, StreamInv, OwedHasTicket, RunTypes, Run
<1>25. CASE PdfFallback
  BY <1>25 DEF PdfFallback, PdfAt, record_part_failure, StreamInv, OwedHasTicket, RunTypes, Run
<1>26. CASE PdfSubmit
  BY <1>26 DEF PdfSubmit, PdfAt, StreamInv, OwedHasTicket, RunTypes, Run
<1>27. CASE RunOpens
  BY <1>27 DEF RunOpens, Scheduler!Size, Scheduler!Live, StreamInv, OwedHasTicket, RunTypes, Run
<1>28. CASE RunFails
  BY <1>28 DEF RunFails, Scheduler!Live, Scheduler!Break, StreamInv, OwedHasTicket, RunTypes, Run
<1>29. CASE on_document
  BY <1>29 DEF on_document, Scheduler!Announce, StreamInv, OwedHasTicket, RunTypes, Run
<1>30. ASSUME NEW p \in Pages, on_page(p) PROVE OwedHasTicket'

  <2>1. Run \in admitted /\ gate = "free" /\ ticket_set' = ticket_set
    BY <1>30 DEF on_page, pump, Scheduler!DeliverPage, Scheduler!Deliverable, Scheduler!Live,
        Run
  <2>2. ticket_set BY <2>1 DEF StreamInv, GateKept, AdmissionKept, Submitted
  <2> QED BY <2>1, <2>2 DEF OwedHasTicket
<1>31. ASSUME NEW p \in Pages, PageRefused(p) PROVE OwedHasTicket'
  BY <1>31 DEF PageRefused, Scheduler!Deliverable, Scheduler!Live, Scheduler!Withdraw,
     request_finish, Overrides, pump, StreamInv, OwedHasTicket, RunTypes, Run
<1>32. ASSUME NEW why \in {"none", "failed"}, on_scheduler_finish(why) PROVE OwedHasTicket'
  BY <1>32 DEF on_scheduler_finish, Scheduler!Finish, Scheduler!Live, RunStatus, PartFailed,
     PartSucceeded, FinishCall, part_done, record_part_failure, FirstFailure, NoFinish,
     request_finish, Overrides, pump, StreamInv, OwedHasTicket, RunTypes, Run
<1>33. CASE UNCHANGED vars
  BY <1>33 DEF vars, StreamInv, OwedHasTicket, RunTypes, Run
<1> QED BY StepCases, <1>1, <1>2, <1>3, <1>4, <1>5, <1>6, <1>7, <1>8, <1>9, <1>10, <1>11, <1>12,
    <1>13, <1>14, <1>15, <1>16, <1>17, <1>18, <1>19, <1>20, <1>21, <1>22, <1>23, <1>24, <1>25,
    <1>26, <1>27, <1>28, <1>29, <1>30, <1>31, <1>32, <1>33


----------------------------------------------------------------------------
\* A call that was just made has nothing charged, buffered or owed.
LEMMA InvInit == ASSUME Init PROVE StreamInv
<1> USE StreamAssumption DEF StreamAssumption, Init, Scheduler!DInit
<1>1. CallTypeOK
  <2>1. {half_closed, read_pending, ctx_cancelled, cancel_seen, gone} \subseteq BOOLEAN
    OBVIOUS
  <2>2. {identified, complete_seen} \subseteq BOOLEAN OBVIOUS
  <2> QED BY <2>1, <2>2 DEF CallTypeOK
<1>2. FinishTypeOK
  <2>1. {client_cancelled, finish_requested, finish_started, ticket_set, ticket_cancelled}
          \subseteq BOOLEAN
    OBVIOUS
  <2> QED BY <2>1 DEF FinishTypeOK, Codes
<1>3. QueueTypeOK /\ PageTypeOK
  <2>1. {fold_empty, fold_has_cv, fold_settled} \subseteq BOOLEAN OBVIOUS
  <2>2. events \in Seq(EventType) OBVIOUS
  <2>4. write_in_flight = (events # <<>>) OBVIOUS
  <2>3. PageTypeOK BY DEF PageTypeOK
  <2> QED BY <2>1, <2>2, <2>3, <2>4 DEF QueueTypeOK
<1>11. ThreadTypeOK
  <2>1. {pdf_open, pdf_run_open} \subseteq BOOLEAN OBVIOUS
  <2>2. pdf_held \in Seq(Pages) OBVIOUS
  <2>3. leg \in [Legs -> {"idle", "planned", "running", "done"} \cup RouteStates] OBVIOUS
  <2> QED BY <2>1, <2>2, <2>3 DEF ThreadTypeOK, Pages
<1>4. RunTypes BY DEF RunTypes, Pages
<1>5. ChargesKept BY DEF ChargesKept, ChargeConserved
<1>6. GateKept /\ PdfKept BY DEF GateKept, PdfKept, Legs, RouteStates
<1>7. AdmissionKept BY DEF AdmissionKept, Submitted, Legs, Run
<1>8. PartsKept
  BY DEF PartsKept, PartsOpen, LegOpen, RunOpen, Legs, Scheduler!Live
<1>9. TicketsKept BY DEF TicketsKept
<1>10. BufferKept /\ OwedHasTicket
  <2>1. CreditedIn(<<>>) = {} BY DEF CreditedIn
  <2>2. Cardinality(CreditedIn(events)) = 0 /\ Cardinality(completed_pages) = 0
    BY <2>1, FS_EmptySet
  <2>3. owed[Run] = 0 BY DEF Run
  <2> QED BY <2>2, <2>3 DEF BufferKept, BufferMatchesCredits, OwedHasTicket
<1> QED BY <1>1, <1>2, <1>3, <1>4, <1>5, <1>6, <1>7, <1>8, <1>9, <1>10, <1>11 DEF StreamInv, TypeOK

\* StreamInv is inductive.
LEMMA InvStep == ASSUME StreamInv, [Next]_vars PROVE StreamInv'
<1>1. PartsKept' BY PartsStep
<1>2. CallTypeOK' /\ FinishTypeOK' /\ QueueTypeOK' /\ PageTypeOK' /\ ThreadTypeOK'
  BY <1>1, CallTypesStep, FinishTypesStep, QueueTypesStep, PageTypesStep, ThreadTypesStep
<1>3. RunTypes' /\ ChargesKept' /\ GateKept' /\ AdmissionKept' /\ TicketsKept'
  BY RunTypesStep, ChargesStep, GateStep, AdmissionStep, TicketsStep
<1>4. BufferKept' /\ OwedHasTicket' /\ PdfKept' BY BufferStep, OwedStep, PdfStep
<1> QED BY <1>1, <1>2, <1>3, <1>4 DEF StreamInv, TypeOK

\* StreamInv holds in every state of a call.
THEOREM StreamInvKept == Spec => []StreamInv
<1>1. Init => StreamInv BY InvInit
<1>2. StreamInv /\ [Next]_vars => StreamInv' BY InvStep
<1> QED BY <1>1, <1>2, PTL DEF Spec

\* The reactor's fields, its queue, its threads' stages and its parts stay
\* within their types.
THEOREM StreamTypeCorrect == Spec => []TypeOK
<1>1. StreamInv => TypeOK BY DEF StreamInv
<1> QED BY <1>1, StreamInvKept, PTL

\* A charge has exactly one owner until it is returned: OnChunk charges the
\* reactor, take_bytes_locked() moves the charge to the shared buffer, whose
\* last holder or OnDone() returns it.
THEOREM ChargesAlwaysConserved == Spec => []ChargeConserved
<1>1. StreamInv => ChargeConserved BY DEF StreamInv, ChargesKept
<1> QED BY <1>1, StreamInvKept, PTL

\* The buffer count, the buffered pages and the credits the scheduler is owed
\* stay one number through every order of pages, writes and refusals.
THEOREM BufferAlwaysMatches == Spec => []BufferMatchesCredits
<1>1. StreamInv => BufferMatchesCredits BY DEF StreamInv, BufferKept
<1> QED BY <1>1, StreamInvKept, PTL

\* Finish never leaves a live CV run that nobody will cancel: a call that ends
\* OK has no part open, and a failed one cancels the ticket now or when
\* submit_cv() stores it.
THEOREM NoRunOrphaned == Spec => []NoOrphanRun
<1>1. StreamInv => NoOrphanRun
  <2> SUFFICES ASSUME StreamInv, finish_started, Scheduler!Live(Run), ~withdrawn[Run]
               PROVE  \E who \in {"process", "pdf"} : Submitted(who)
    BY DEF NoOrphanRun
  <2>1. finish_requested /\ RunOpen = 1 BY DEF StreamInv, TicketsKept, RunOpen
  <2>2. PartsOpen # 0 BY <2>1 DEF PartsOpen, LegOpen
  <2>3. finish_status # "OK" BY <2>1, <2>2 DEF StreamInv, PartsKept
  <2>4. ~ticket_set BY <2>1, <2>3 DEF StreamInv, TicketsKept
  <2>5. Run \in admitted BY DEF Scheduler!Live
  <2> QED BY <2>4, <2>5 DEF StreamInv, AdmissionKept
<1> QED BY <1>1, StreamInvKept, PTL
============================================================================
