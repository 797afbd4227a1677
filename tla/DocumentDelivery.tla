-------------------------- MODULE DocumentDelivery --------------------------
(***************************************************************************)
(* What PageScheduler promises the caller of submit(), whatever threads    *)
(* carry the pages: a document is admitted, sized once, announced, each    *)
(* page of its span is delivered at most once and never past page_window   *)
(* uncredited pages, and on_finish runs once, after which no page arrives. *)
(* A document that finishes cleanly and was never withdrawn has delivered  *)
(* its whole span.                                                         *)
(***************************************************************************)
EXTENDS Integers

CONSTANTS Docs, MaxPage, PageWindow, Results

VARIABLES
  admitted,    \* documents submit() accepted
  withdrawn,   \* documents cancelled by the caller or by a failure
  failed,      \* documents with a failure recorded
  lo, hi,      \* the page span, hi = 0 before the document is sized
  announced,   \* on_document ran
  taken,       \* pages on_page accepted
  owed,        \* accepted pages not yet credited
  result       \* the argument of on_finish, "pending" before it

dvars == <<admitted, withdrawn, failed, lo, hi, announced, taken, owed, result>>

DInit ==
  /\ admitted = {}
  /\ withdrawn = [d \in Docs |-> FALSE] /\ failed = [d \in Docs |-> FALSE]
  /\ lo = [d \in Docs |-> 1] /\ hi = [d \in Docs |-> 0]
  /\ announced = [d \in Docs |-> FALSE]
  /\ taken = [d \in Docs |-> {}] /\ owed = [d \in Docs |-> 0]
  /\ result = [d \in Docs |-> "pending"]

Live(d) == d \in admitted /\ result[d] = "pending"

Admit(d) ==
  /\ d \notin admitted
  /\ admitted' = admitted \cup {d}
  /\ UNCHANGED <<withdrawn, failed, lo, hi, announced, taken, owed, result>>

Withdraw(d) ==
  /\ d \in admitted
  /\ withdrawn' = [withdrawn EXCEPT ![d] = TRUE]
  /\ UNCHANGED <<admitted, failed, lo, hi, announced, taken, owed, result>>

\* A failure is recorded, which also withdraws the document.
Break(d) ==
  /\ d \in admitted
  /\ failed' = [failed EXCEPT ![d] = TRUE]
  /\ withdrawn' = [withdrawn EXCEPT ![d] = TRUE]
  /\ UNCHANGED <<admitted, lo, hi, announced, taken, owed, result>>

\* page_count() answered: the document spans the pages f to l.
Size(d, f, l) ==
  /\ Live(d) /\ hi[d] = 0
  /\ lo' = [lo EXCEPT ![d] = f] /\ hi' = [hi EXCEPT ![d] = l]
  /\ UNCHANGED <<admitted, withdrawn, failed, announced, taken, owed, result>>

\* on_document; a withdrawn document may have finished by then.
Announce(d) ==
  /\ hi[d] > 0 /\ ~announced[d]
  /\ result[d] = "pending" \/ withdrawn[d]
  /\ announced' = [announced EXCEPT ![d] = TRUE]
  /\ UNCHANGED <<admitted, withdrawn, failed, lo, hi, taken, owed, result>>

\* The scheduler may call on_page with p: a page of the span not taken yet,
\* within the window.
Deliverable(d, p) ==
  /\ Live(d) /\ announced[d] /\ owed[d] < PageWindow
  /\ p \in lo[d]..hi[d] /\ p \notin taken[d]

\* on_page accepted p.
DeliverPage(d, p) ==
  /\ Deliverable(d, p)
  /\ taken' = [taken EXCEPT ![d] = @ \cup {p}]
  /\ owed' = [owed EXCEPT ![d] = @ + 1]
  /\ UNCHANGED <<admitted, withdrawn, failed, lo, hi, announced, result>>

Credit(d) ==
  /\ owed[d] > 0
  /\ owed' = [owed EXCEPT ![d] = @ - 1]
  /\ UNCHANGED <<admitted, withdrawn, failed, lo, hi, announced, taken, result>>

\* on_finish reports a failure exactly when one is recorded; a shutdown
\* records its own in the step that finishes the document.
Finish(d, why) ==
  /\ Live(d)
  /\ result' = [result EXCEPT ![d] = why]
  /\ (why = "none" /\ ~withdrawn[d]) => (hi[d] > 0 /\ taken[d] = lo[d]..hi[d])
  /\ IF why = "none" THEN ~failed[d] /\ UNCHANGED <<failed, withdrawn>>
     ELSE /\ failed' = [failed EXCEPT ![d] = TRUE]
          /\ withdrawn' = [withdrawn EXCEPT ![d] = TRUE]
  /\ UNCHANGED <<admitted, lo, hi, announced, taken, owed>>

DNext ==
  \E d \in Docs :
    \/ Admit(d) \/ Withdraw(d) \/ Break(d) \/ Announce(d) \/ Credit(d)
    \/ \E f \in 1..MaxPage : \E l \in f..MaxPage : Size(d, f, l)
    \/ \E p \in 1..MaxPage : DeliverPage(d, p)
    \/ \E why \in Results : Finish(d, why)

DSpec == DInit /\ [][DNext]_dvars
=============================================================================
