------------------------- MODULE StreamOrderProofs -------------------------
(***************************************************************************)
(* The order of a streaming call's events and what its OK promises: the    *)
(* two properties of DocumentStream that speak of everything a client is   *)
(* written, proved for every number of pages, window, plan and bound.      *)
(*                                                                         *)
(* The argument is about Outgoing, the events already given to StartWrite  *)
(* and the ones queued behind them.  A step adds events at its end, or     *)
(* leaves it, or (a write that failed) cuts it and fails the call; what it *)
(* adds goes on from what is there (OneFollows, PagesFollow,               *)
(* ProjectedFollow), so Outgoing stays Ordered and the wire, a prefix of   *)
(* it, is too.  WireInv relates Outgoing to the parts, the pages and the   *)
(* run that are still to land.                                             *)
(***************************************************************************)
EXTENDS DocumentStreamProofs

USE DEF call, upload, charges, finishes, writes, pagevars, parts, folds, tickets, threads, pdfvars,
        runvars, reactor

\* The events the client has been or will be written: the ones given to
\* StartWrite, and the queue behind the write in flight.
Outgoing == IF events = <<>> THEN wire ELSE wire \o Tail(events)
\* What s holds, and how many pages of the document have streamed in it.
Has(s, e) == \E i \in DOMAIN s : s[i] = e
Streamed(s) == StreamedIn(s, Len(s))

\* What may come after s: nothing after a complete event, the next page, no
\* page a repair has spoken of, and a repair before its Document and once.
Follows(s, e) ==
  /\ ~Has(s, Complete)
  /\ OneAtATime(e) => e.page = Streamed(s) + 1
  /\ \A c \in Collectors : Has(s, Repair(c)) => e # Repair(c) /\ ~PageOf(e, c)
  /\ \A c \in Collectors : e = Repair(c) => ~Has(s, Document(c))

----------------------------------------------------------------------------
(* Sequences of events: what they hold, and what may follow them. *)

\* A count of pages is a number.
LEMMA StreamedFinite ==
  ASSUME NEW s \in Seq(EventType), NEW n \in Nat
  PROVE  /\ IsFiniteSet({j \in 1..n : OneAtATime(s[j])})
         /\ StreamedIn(s, n) \in Nat
<1>1. IsFiniteSet(1..n) BY FS_Interval
<1>2. {j \in 1..n : OneAtATime(s[j])} \subseteq 1..n OBVIOUS
<1>3. IsFiniteSet({j \in 1..n : OneAtATime(s[j])}) BY <1>1, <1>2, FS_Subset
<1> QED BY <1>3, FS_CardinalityType DEF StreamedIn

\* Sequences that agree on their first n events have as many pages there.
LEMMA StreamedSame ==
  ASSUME NEW s, NEW u, NEW n \in Nat, \A j \in 1..n : s[j] = u[j]
  PROVE  StreamedIn(s, n) = StreamedIn(u, n)
<1>1. {j \in 1..n : OneAtATime(s[j])} = {j \in 1..n : OneAtATime(u[j])} OBVIOUS
<1> QED BY <1>1 DEF StreamedIn

\* Events a batch adds after the first n: all of them pages of the stream.
LEMMA StreamedBatch ==
  ASSUME NEW s \in Seq(EventType), NEW n \in Nat, NEW k \in Nat,
         \A j \in n + 1..n + k : OneAtATime(s[j])
  PROVE  StreamedIn(s, n + k) = StreamedIn(s, n) + k
<1> DEFINE old == {j \in 1..n : OneAtATime(s[j])}
           new == n + 1..n + k
           both == {j \in 1..n + k : OneAtATime(s[j])}
<1>1. both = old \cup new
  <2>1. ASSUME NEW j \in 1..n + k PROVE j \in 1..n \/ j \in n + 1..n + k OBVIOUS
  <2>2. 1..n \subseteq 1..n + k /\ n + 1..n + k \subseteq 1..n + k OBVIOUS
  <2> QED BY <2>1, <2>2
<1>2. old \cap new = {} OBVIOUS
<1>3. IsFiniteSet(old) /\ Cardinality(old) \in Nat BY StreamedFinite, FS_CardinalityType
<1>4. IsFiniteSet(new) /\ Cardinality(new) = k
  <2>1. PICK a \in Int, b \in Int : a = n + 1 /\ b = n + k OBVIOUS
  <2>2. IsFiniteSet(a..b) /\ Cardinality(a..b) = IF a > b THEN 0 ELSE b - a + 1
    BY FS_Interval
  <2>3. new = a..b BY <2>1
  <2>4. (IF a > b THEN 0 ELSE b - a + 1) = k BY <2>1
  <2> QED BY <2>2, <2>3, <2>4
<1>5. Cardinality(old \cup new) = Cardinality(old) + Cardinality(new) - Cardinality(old \cap new)
  BY <1>3, <1>4, FS_Union
<1>6. Cardinality(old \cap new) = 0 BY <1>2, FS_EmptySet
<1>7. Cardinality(both) = Cardinality(old) + k
  <2> HIDE DEF old, new, both
  <2> QED BY <1>1, <1>3, <1>4, <1>5, <1>6
<1> QED BY <1>7 DEF StreamedIn

\* Events that are none of them add nothing.
LEMMA StreamedNone ==
  ASSUME NEW s \in Seq(EventType), NEW n \in Nat, NEW k \in Nat,
         \A j \in n + 1..n + k : ~OneAtATime(s[j])
  PROVE  StreamedIn(s, n + k) = StreamedIn(s, n)
<1>1. ASSUME NEW j \in 1..n + k PROVE j \in 1..n \/ j \in n + 1..n + k OBVIOUS
<1>2. 1..n \subseteq 1..n + k OBVIOUS
<1>3. {j \in 1..n + k : OneAtATime(s[j])} = {j \in 1..n : OneAtATime(s[j])} BY <1>1, <1>2
<1> QED BY <1>3 DEF StreamedIn

\* The events of a joined sequence.
LEMMA JoinedAt ==
  ASSUME NEW s \in Seq(EventType), NEW t \in Seq(EventType)
  PROVE  /\ s \o t \in Seq(EventType) /\ Len(s \o t) = Len(s) + Len(t)
         /\ DOMAIN (s \o t) = 1..Len(s) + Len(t) /\ DOMAIN s = 1..Len(s) /\ DOMAIN t = 1..Len(t)
         /\ Len(s) \in Nat /\ Len(t) \in Nat
         /\ \A i \in 1..Len(s) : i \in 1..Len(s) + Len(t) /\ (s \o t)[i] = s[i]
         /\ \A i \in 1..Len(t) : Len(s) + i \in 1..Len(s) + Len(t) /\ (s \o t)[Len(s) + i] = t[i]
         /\ \A i \in 1..Len(s) + Len(t) : i \in 1..Len(s) \/ i - Len(s) \in 1..Len(t)
         /\ \A i \in 1..Len(s) + Len(t) : i - Len(s) \in 1..Len(t) =>
              (s \o t)[i] = t[i - Len(s)]
OBVIOUS

\* Joins may be grouped either way (JoinAssociates' equation, by a name that
\* the provers match).
Regroups(q, r, s) == (q \o r) \o s = q \o (r \o s)
LEMMA Regrouping ==
  ASSUME NEW q \in Seq(EventType), NEW r \in Seq(EventType), NEW s \in Seq(EventType)
  PROVE  Regroups(q, r, s)
BY JoinAssociates DEF Regroups

\* What is behind a sequence does not change how many pages streamed in it.
LEMMA StreamedPrefix ==
  ASSUME NEW s \in Seq(EventType), NEW t \in Seq(EventType)
  PROVE  StreamedIn(s \o t, Len(s)) = Streamed(s) /\ Streamed(s) \in Nat
<1>1. Len(s) \in Nat /\ \A j \in 1..Len(s) : (s \o t)[j] = s[j] BY JoinedAt
<1>2. StreamedIn(s, Len(s)) \in Nat BY <1>1, StreamedFinite
<1> DEFINE u == s \o t
<1> HIDE DEF u
<1>3. \A j \in 1..Len(s) : u[j] = s[j] BY <1>1 DEF u
<1>4. StreamedIn(u, Len(s)) = StreamedIn(s, Len(s)) BY <1>1, <1>3, StreamedSame
<1> QED BY <1>2, <1>4 DEF u, Streamed

\* A joined sequence has the events of both.
LEMMA JoinHas ==
  ASSUME NEW s \in Seq(EventType), NEW t \in Seq(EventType), NEW e
  PROVE  Has(s \o t, e) <=> Has(s, e) \/ Has(t, e)
<1>1. ASSUME Has(s \o t, e) PROVE Has(s, e) \/ Has(t, e)
  <2>1. PICK i \in 1..Len(s) + Len(t) : (s \o t)[i] = e BY <1>1, JoinedAt DEF Has
  <2>2. CASE i \in 1..Len(s) BY <2>1, <2>2, JoinedAt DEF Has
  <2>3. CASE i - Len(s) \in 1..Len(t) BY <2>1, <2>3, JoinedAt DEF Has
  <2> QED BY <2>2, <2>3, JoinedAt
<1>2. ASSUME Has(s, e) PROVE Has(s \o t, e) BY <1>2, JoinedAt DEF Has
<1>3. ASSUME Has(t, e) PROVE Has(s \o t, e)
  <2>1. PICK i \in 1..Len(t) : t[i] = e BY <1>3, JoinedAt DEF Has
  <2>2. Len(s) + i \in DOMAIN (s \o t) /\ (s \o t)[Len(s) + i] = e BY <2>1, JoinedAt
  <2> QED BY <2>2 DEF Has
<1> QED BY <1>1, <1>2, <1>3

\* What makes a joined sequence ordered: s is, and t goes on from it.
LEMMA JoinOrdered ==
  ASSUME NEW s \in Seq(EventType), NEW t \in Seq(EventType), Ordered(s),
         t # <<>> => ~Has(s, Complete),
         \A i \in 1..Len(t) : OneAtATime(t[i]) => t[i].page = StreamedIn(s \o t, Len(s) + i),
         \A c \in Collectors : Has(s, Repair(c)) =>
           \A j \in 1..Len(t) : t[j] # Repair(c) /\ ~PageOf(t[j], c),
         \A c \in Collectors, i \in 1..Len(t) : t[i] = Repair(c) =>
           /\ ~Has(s, Document(c))
           /\ \A j \in i + 1..Len(t) : t[j] # Repair(c) /\ ~PageOf(t[j], c)
           /\ \A j \in 1..i - 1 : t[j] # Document(c),
         \A i \in 1..Len(t) : t[i] = Complete => i = Len(t)
  PROVE  Ordered(s \o t)
<1> DEFINE u == s \o t
<1>0. /\ u \in Seq(EventType) /\ Len(u) = Len(s) + Len(t)
      /\ DOMAIN u = 1..Len(s) + Len(t) /\ DOMAIN s = 1..Len(s)
      /\ Len(s) \in Nat /\ Len(t) \in Nat
      /\ \A i \in 1..Len(s) : u[i] = s[i]
      /\ \A i \in 1..Len(s) + Len(t) :
           i \in 1..Len(s) \/ (i - Len(s) \in 1..Len(t) /\ u[i] = t[i - Len(s)])
      /\ \A i \in 1..Len(s) + Len(t) :
           i > Len(s) => i - Len(s) \in 1..Len(t) /\ u[i] = t[i - Len(s)]
  BY JoinedAt
<1> HIDE DEF u
<1>1. ASSUME NEW i \in DOMAIN u, OneAtATime(u[i]) PROVE u[i].page = StreamedIn(u, i)
  <2>1. CASE i \in 1..Len(s)
    <3>1. u[i] = s[i] /\ s[i].page = StreamedIn(s, i) BY <1>0, <1>1, <2>1 DEF Ordered
    <3>2. i \in Nat /\ \A j \in 1..i : s[j] = u[j] BY <1>0, <2>1
    <3> QED BY <3>1, <3>2, StreamedSame
  <2>2. CASE i - Len(s) \in 1..Len(t) /\ u[i] = t[i - Len(s)]
    <3>1. t[i - Len(s)].page = StreamedIn(u, Len(s) + (i - Len(s))) BY <1>1, <2>2 DEF u
    <3>2. Len(s) + (i - Len(s)) = i BY <1>0, <1>1
    <3> QED BY <2>2, <3>1, <3>2
  <2> QED BY <1>0, <2>1, <2>2
<1>2. ASSUME NEW c \in Collectors, NEW i \in DOMAIN u, u[i] = Repair(c)
      PROVE  /\ \A j \in i + 1..Len(u) : u[j] # Repair(c) /\ ~PageOf(u[j], c)
             /\ \A j \in 1..i - 1 : u[j] # Document(c)
  <2>1. CASE i \in 1..Len(s)
    <3>1. s[i] = Repair(c) /\ Has(s, Repair(c)) BY <1>0, <1>2, <2>1 DEF Has
    <3>2. ASSUME NEW j \in i + 1..Len(u) PROVE u[j] # Repair(c) /\ ~PageOf(u[j], c)
      <4>0. j \in 1..Len(s) + Len(t) BY <1>0, <2>1, <3>2
      <4>1. CASE j \in 1..Len(s)
        <5>1. j \in i + 1..Len(s) BY <1>0, <2>1, <3>2, <4>1
        <5> QED BY <1>0, <2>1, <3>1, <4>1, <5>1 DEF Ordered
      <4>2. CASE j - Len(s) \in 1..Len(t) /\ u[j] = t[j - Len(s)] BY <3>1, <4>2
      <4> QED BY <1>0, <4>0, <4>1, <4>2
    <3>3. ASSUME NEW j \in 1..i - 1 PROVE u[j] # Document(c)
      <4>1. j \in 1..Len(s) BY <1>0, <2>1
      <4> QED BY <1>0, <2>1, <3>1, <4>1 DEF Ordered
    <3> QED BY <3>2, <3>3
  <2>2. CASE i - Len(s) \in 1..Len(t) /\ u[i] = t[i - Len(s)]
    <3>1. t[i - Len(s)] = Repair(c) BY <1>2, <2>2
    <3>2. ASSUME NEW j \in i + 1..Len(u) PROVE u[j] # Repair(c) /\ ~PageOf(u[j], c)
      <4>1. j \in 1..Len(s) + Len(t) /\ j > Len(s) BY <1>0, <2>2, <3>2
      <4>2. j - Len(s) \in (i - Len(s)) + 1..Len(t) /\ u[j] = t[j - Len(s)]
        BY <1>0, <2>2, <3>2, <4>1
      <4> QED BY <2>2, <3>1, <4>2
    <3>3. ASSUME NEW j \in 1..i - 1 PROVE u[j] # Document(c)
      <4>0. j \in 1..Len(s) + Len(t) BY <1>0, <2>2, <3>3
      <4>1. CASE j \in 1..Len(s)
        <5>1. ~Has(s, Document(c)) BY <2>2, <3>1
        <5> QED BY <1>0, <4>1, <5>1 DEF Has
      <4>2. CASE j - Len(s) \in 1..Len(t) /\ u[j] = t[j - Len(s)]
        <5>1. j - Len(s) \in 1..(i - Len(s)) - 1 BY <1>0, <2>2, <3>3, <4>2
        <5> QED BY <2>2, <3>1, <4>2, <5>1
      <4> QED BY <1>0, <4>0, <4>1, <4>2
    <3> QED BY <3>2, <3>3
  <2> QED BY <1>0, <2>1, <2>2
<1>3. ASSUME NEW i \in DOMAIN u, u[i] = Complete PROVE i = Len(u)
  <2>1. CASE i \in 1..Len(s)
    <3>1. s[i] = Complete /\ Has(s, Complete) BY <1>0, <1>3, <2>1 DEF Has
    <3>2. i = Len(s) BY <1>0, <2>1, <3>1 DEF Ordered
    <3>3. Len(t) = 0 BY <3>1
    <3> QED BY <1>0, <3>2, <3>3
  <2>2. CASE i - Len(s) \in 1..Len(t) /\ u[i] = t[i - Len(s)]
    <3>1. i - Len(s) = Len(t) BY <1>3, <2>2
    <3> QED BY <1>0, <1>3, <3>1
  <2> QED BY <1>0, <2>1, <2>2
<1>4. Ordered(u) BY <1>1, <1>2, <1>3 DEF Ordered
<1> QED BY <1>4 DEF u

\* The events that are not pages.
Mark(e) == e.kind # "page"

\* The events of different kinds, and of different collectors, are different.
LEMMA Kinds ==
  /\ \A c \in Collectors : /\ Repair(c) \in EventType /\ Document(c) \in EventType
                           /\ Mark(Repair(c)) /\ Mark(Document(c)) /\ Repair(c) # Complete
                           /\ Document(c) # Complete
                           /\ \A d \in Collectors : /\ Repair(c) # Document(d)
                                                    /\ Repair(c) = Repair(d) => c = d
                                                    /\ Document(c) = Document(d) => c = d
  /\ Complete \in EventType /\ Mark(Complete)
  /\ \A p \in Nat, c \in Collectors : CvPage(p) \in EventType /\ StreamedPage(p) \in EventType
                                      /\ ProjectedPage(c, p) \in EventType
  /\ \A e \in EventType, c \in Collectors : Mark(e) => ~OneAtATime(e) /\ ~PageOf(e, c)
BY DEF Repair, Document, Complete, CvPage, StreamedPage, ProjectedPage, Event, EventType, Mark,
       Collectors, OneAtATime, PageOf

\* One event that may follow keeps the order.
LEMMA OneFollows ==
  ASSUME NEW s \in Seq(EventType), NEW e \in EventType, Ordered(s), Follows(s, e)
  PROVE  /\ s \o <<e>> \in Seq(EventType) /\ Ordered(s \o <<e>>)
         /\ Streamed(s \o <<e>>) = Streamed(s) + (IF OneAtATime(e) THEN 1 ELSE 0)
         /\ \A x : Has(s \o <<e>>, x) <=> Has(s, x) \/ x = e
<1> DEFINE t == <<e>>
<1>0. t \in Seq(EventType) /\ Len(t) = 1 /\ t[1] = e /\ DOMAIN t = {1} OBVIOUS
<1>1. \A i \in 1..Len(t) : i = 1 /\ t[i] = e BY <1>0
<1>h. \A x : Has(t, x) <=> x = e BY <1>0 DEF Has
<1> HIDE DEF t
<1>2. /\ s \o t \in Seq(EventType) /\ Len(s \o t) = Len(s) + 1 /\ Len(s) \in Nat
      /\ \A i \in 1..Len(s) : (s \o t)[i] = s[i]
      /\ (s \o t)[Len(s) + 1] = e
  <2>1. 1 \in 1..Len(t) BY <1>0
  <2>2. Len(s \o t) = Len(s) + Len(t) /\ (s \o t)[Len(s) + 1] = t[1] BY <1>0, <2>1, JoinedAt
  <2> QED BY <1>0, <2>2, JoinedAt
<1>3. StreamedIn(s \o t, Len(s)) = Streamed(s) /\ Streamed(s) \in Nat
  BY <1>0, StreamedPrefix
<1>4. Streamed(s \o t) = Streamed(s) + (IF OneAtATime(e) THEN 1 ELSE 0)
  <2>1. CASE OneAtATime(e)
    <3>1. \A j \in Len(s) + 1..Len(s) + 1 : OneAtATime((s \o t)[j]) BY <1>2, <2>1
    <3>2. StreamedIn(s \o t, Len(s) + 1) = StreamedIn(s \o t, Len(s)) + 1
      BY <1>2, <3>1, StreamedBatch
    <3> QED BY <1>2, <1>3, <2>1, <3>2 DEF Streamed
  <2>2. CASE ~OneAtATime(e)
    <3>1. \A j \in Len(s) + 1..Len(s) + 1 : ~OneAtATime((s \o t)[j]) BY <1>2, <2>2
    <3>2. StreamedIn(s \o t, Len(s) + 1) = StreamedIn(s \o t, Len(s))
      BY <1>2, <3>1, StreamedNone
    <3> QED BY <1>2, <1>3, <2>2, <3>2 DEF Streamed
  <2> QED BY <2>1, <2>2
<1>5. Ordered(s \o t)
  <2>1. ASSUME NEW i \in 1..Len(t), OneAtATime(t[i])
        PROVE  t[i].page = StreamedIn(s \o t, Len(s) + i)
    BY <1>1, <1>2, <1>3, <1>4, <2>1 DEF Follows, Streamed
  <2>2. \A c \in Collectors : Has(s, Repair(c)) =>
          \A j \in 1..Len(t) : t[j] # Repair(c) /\ ~PageOf(t[j], c)
    BY <1>1 DEF Follows
  <2>3. ASSUME NEW c \in Collectors, NEW i \in 1..Len(t), t[i] = Repair(c)
        PROVE  /\ ~Has(s, Document(c))
               /\ \A j \in i + 1..Len(t) : t[j] # Repair(c) /\ ~PageOf(t[j], c)
               /\ \A j \in 1..i - 1 : t[j] # Document(c)
    <3>1. i = 1 /\ e = Repair(c) BY <1>1, <2>3
    <3> QED BY <1>0, <3>1 DEF Follows
  <2>4. \A i \in 1..Len(t) : t[i] = Complete => i = Len(t) BY <1>0, <1>1
  <2>5. ~Has(s, Complete) BY DEF Follows
  <2> QED BY <1>0, <2>1, <2>2, <2>3, <2>4, <2>5, JoinOrdered
<1>6. \A x : Has(s \o t, x) <=> Has(s, x) \/ x = e BY <1>0, <1>h, JoinHas
<1> QED BY <1>2, <1>4, <1>5, <1>6 DEF t

\* A batch of recognized pages is the next ones of the stream.
LEMMA PagesFollow ==
  ASSUME NEW s \in Seq(EventType), NEW t \in Seq(EventType), Ordered(s), ~Has(s, Complete),
         \A i \in 1..Len(t) : OneAtATime(t[i]) /\ t[i].page = Streamed(s) + i,
         \A c \in Collectors, i \in 1..Len(t) : Has(s, Repair(c)) => ~PageOf(t[i], c)
  PROVE  /\ s \o t \in Seq(EventType) /\ Ordered(s \o t)
         /\ Streamed(s \o t) = Streamed(s) + Len(t)
         /\ \A x : Mark(x) => (Has(s \o t, x) <=> Has(s, x))
<1>1. /\ s \o t \in Seq(EventType) /\ Len(s \o t) = Len(s) + Len(t)
      /\ Len(s) \in Nat /\ Len(t) \in Nat
      /\ \A i \in 1..Len(s) : (s \o t)[i] = s[i]
      /\ \A i \in 1..Len(t) : (s \o t)[Len(s) + i] = t[i]
  BY JoinedAt
<1>2. StreamedIn(s \o t, Len(s)) = Streamed(s) /\ Streamed(s) \in Nat
  BY StreamedPrefix
<1>3. ASSUME NEW i \in 0..Len(t) PROVE StreamedIn(s \o t, Len(s) + i) = Streamed(s) + i
  <2>1. ASSUME NEW j \in Len(s) + 1..Len(s) + i PROVE OneAtATime((s \o t)[j])
    <3>1. j - Len(s) \in 1..Len(t) /\ Len(s) + (j - Len(s)) = j BY <1>1
    <3>2. (s \o t)[Len(s) + (j - Len(s))] = t[j - Len(s)] BY <1>1, <3>1
    <3> QED BY <3>1, <3>2
  <2>2. i \in Nat BY <1>1
  <2>3. StreamedIn(s \o t, Len(s) + i) = StreamedIn(s \o t, Len(s)) + i
    BY <1>1, <2>1, <2>2, StreamedBatch
  <2> QED BY <1>2, <2>3
<1>4. \A i \in 1..Len(t) : t[i].kind = "page" BY DEF OneAtATime
<1>5. \A i \in 1..Len(t), c \in Collectors : t[i] # Repair(c) /\ t[i] # Complete
  BY <1>4, Kinds DEF Mark
<1>6. Ordered(s \o t)
  <2>1. \A i \in 1..Len(t) : OneAtATime(t[i]) => t[i].page = StreamedIn(s \o t, Len(s) + i)
    BY <1>1, <1>3
  <2>2. \A c \in Collectors : Has(s, Repair(c)) =>
          \A j \in 1..Len(t) : t[j] # Repair(c) /\ ~PageOf(t[j], c)
    BY <1>5
  <2>3. \A c \in Collectors, i \in 1..Len(t) : t[i] = Repair(c) =>
          /\ ~Has(s, Document(c))
          /\ \A j \in i + 1..Len(t) : t[j] # Repair(c) /\ ~PageOf(t[j], c)
          /\ \A j \in 1..i - 1 : t[j] # Document(c)
    BY <1>5
  <2>4. \A i \in 1..Len(t) : t[i] = Complete => i = Len(t)
    <3>1. ASSUME NEW i \in 1..Len(t) PROVE t[i] # Complete
      <4>1. PICK c \in Collectors : TRUE BY DEF Collectors
      <4> QED BY <1>5, <4>1
    <3> QED BY <3>1
  <2> QED BY <2>1, <2>2, <2>3, <2>4, JoinOrdered
<1>7. Streamed(s \o t) = Streamed(s) + Len(t) BY <1>1, <1>3 DEF Streamed
<1>8. ASSUME NEW x, Mark(x) PROVE Has(s \o t, x) <=> Has(s, x)
  <2>1. ~Has(t, x) BY <1>1, <1>4, <1>8 DEF Has, Mark
  <2> QED BY <2>1, JoinHas
<1> QED BY <1>1, <1>6, <1>7, <1>8

\* A Document's pages are not counted in the stream.
LEMMA ProjectedFollow ==
  ASSUME NEW s \in Seq(EventType), NEW t \in Seq(EventType), Ordered(s), ~Has(s, Complete),
         \A i \in 1..Len(t) : ~OneAtATime(t[i]) /\ t[i].kind = "page",
         \A c \in Collectors, i \in 1..Len(t) : Has(s, Repair(c)) => ~PageOf(t[i], c)
  PROVE  /\ s \o t \in Seq(EventType) /\ Ordered(s \o t)
         /\ Streamed(s \o t) = Streamed(s)
         /\ \A x : Mark(x) => (Has(s \o t, x) <=> Has(s, x))
<1>1. /\ s \o t \in Seq(EventType) /\ Len(s \o t) = Len(s) + Len(t)
      /\ Len(s) \in Nat /\ Len(t) \in Nat
      /\ \A i \in 1..Len(s) : (s \o t)[i] = s[i]
      /\ \A i \in 1..Len(t) : (s \o t)[Len(s) + i] = t[i]
  BY JoinedAt
<1>2. StreamedIn(s \o t, Len(s)) = Streamed(s)
  BY StreamedPrefix
<1>3. StreamedIn(s \o t, Len(s) + Len(t)) = Streamed(s)
  <2>1. ASSUME NEW j \in Len(s) + 1..Len(s) + Len(t) PROVE ~OneAtATime((s \o t)[j])
    <3>1. j - Len(s) \in 1..Len(t) /\ Len(s) + (j - Len(s)) = j BY <1>1
    <3>2. (s \o t)[Len(s) + (j - Len(s))] = t[j - Len(s)] BY <1>1, <3>1
    <3> QED BY <3>1, <3>2
  <2> QED BY <1>1, <1>2, <2>1, StreamedNone
<1>5. \A i \in 1..Len(t), c \in Collectors : t[i] # Repair(c) /\ t[i] # Complete
  BY Kinds DEF Mark
<1>6. Ordered(s \o t)
  <2>1. \A i \in 1..Len(t) : OneAtATime(t[i]) => t[i].page = StreamedIn(s \o t, Len(s) + i)
    OBVIOUS
  <2>2. \A c \in Collectors : Has(s, Repair(c)) =>
          \A j \in 1..Len(t) : t[j] # Repair(c) /\ ~PageOf(t[j], c)
    BY <1>5
  <2>3. \A c \in Collectors, i \in 1..Len(t) : t[i] = Repair(c) =>
          /\ ~Has(s, Document(c))
          /\ \A j \in i + 1..Len(t) : t[j] # Repair(c) /\ ~PageOf(t[j], c)
          /\ \A j \in 1..i - 1 : t[j] # Document(c)
    BY <1>5
  <2>4. \A i \in 1..Len(t) : t[i] = Complete => i = Len(t)
    <3>1. ASSUME NEW i \in 1..Len(t) PROVE t[i] # Complete
      <4>1. PICK c \in Collectors : TRUE BY DEF Collectors
      <4> QED BY <1>5, <4>1
    <3> QED BY <3>1
  <2> QED BY <2>1, <2>2, <2>3, <2>4, JoinOrdered
<1>7. Streamed(s \o t) = Streamed(s) BY <1>1, <1>3 DEF Streamed
<1>8. ASSUME NEW x, Mark(x) PROVE Has(s \o t, x) <=> Has(s, x)
  <2>1. ~Has(t, x) BY <1>1, <1>8 DEF Has, Mark
  <2> QED BY <2>1, JoinHas
<1> QED BY <1>1, <1>6, <1>7, <1>8

\* What is written is in order when what is to be written is.
LEMMA PrefixOrdered ==
  ASSUME NEW s \in Seq(EventType), NEW t \in Seq(EventType), Ordered(s \o t)
  PROVE  Ordered(s)
<1> DEFINE u == s \o t
<1>0. /\ Len(u) = Len(s) + Len(t)
      /\ DOMAIN u = 1..Len(s) + Len(t) /\ DOMAIN s = 1..Len(s)
      /\ Len(s) \in Nat /\ Len(t) \in Nat
      /\ \A i \in 1..Len(s) : i \in 1..Len(u) /\ u[i] = s[i]
  BY JoinedAt
<1>00. Ordered(u) OBVIOUS
<1> HIDE DEF u
<1>1. ASSUME NEW i \in DOMAIN s, OneAtATime(s[i]) PROVE s[i].page = StreamedIn(s, i)
  <2>1. u[i].page = StreamedIn(u, i) BY <1>0, <1>00, <1>1 DEF Ordered
  <2>2. i \in Nat /\ \A j \in 1..i : u[j] = s[j] BY <1>0
  <2> QED BY <1>0, <2>1, <2>2, StreamedSame
<1>2. ASSUME NEW c \in Collectors, NEW i \in DOMAIN s, s[i] = Repair(c)
      PROVE  /\ \A j \in i + 1..Len(s) : s[j] # Repair(c) /\ ~PageOf(s[j], c)
             /\ \A j \in 1..i - 1 : s[j] # Document(c)
  <2>1. i \in DOMAIN u /\ u[i] = Repair(c) BY <1>0, <1>2
  <2>2. /\ \A j \in i + 1..Len(u) : u[j] # Repair(c) /\ ~PageOf(u[j], c)
        /\ \A j \in 1..i - 1 : u[j] # Document(c)
    BY <1>00, <2>1 DEF Ordered
  <2>3. \A j \in i + 1..Len(s) : j \in i + 1..Len(u) /\ u[j] = s[j] BY <1>0
  <2>4. \A j \in 1..i - 1 : u[j] = s[j] BY <1>0
  <2> QED BY <2>2, <2>3, <2>4
<1>3. ASSUME NEW i \in DOMAIN s, s[i] = Complete PROVE i = Len(s)
  <2>1. i \in 1..Len(s) /\ i \in DOMAIN u /\ u[i] = Complete BY <1>0, <1>3
  <2>2. i = Len(u) BY <1>00, <2>1 DEF Ordered
  <2>3. i <= Len(s) /\ Len(s) <= Len(u) BY <1>0, <2>1
  <2>4. i \in Int /\ Len(s) \in Int BY <1>0, <2>1
  <2> QED BY <2>2, <2>3, <2>4
<1> QED BY <1>1, <1>2, <1>3 DEF Ordered

\* The queue grows at its end, and pump_locked() moves its first event to the
\* wire: what is to be written grows by the same events.
LEMMA PumpJoins ==
  ASSUME StreamInv, wire \in Seq(EventType), NEW t \in Seq(EventType), NEW requested,
         pump(events \o t, write_in_flight, requested)
  PROVE  Outgoing \in Seq(EventType) /\ Outgoing' = Outgoing \o t /\ wire' \in Seq(EventType)
<1>0. events \in Seq(EventType) /\ write_in_flight = (events # <<>>)
  BY DEF StreamInv, TypeOK, QueueTypeOK
<1>1. CASE events = <<>>
  <2>1. events \o t = t BY <1>1
  <2>2. CASE t = <<>>
    <3>1. events' = <<>> /\ wire' = wire BY <1>0, <1>1, <2>1, <2>2 DEF pump
    <3>2. wire \o t = wire BY <2>2
    <3> QED BY <1>1, <3>1, <3>2 DEF Outgoing
  <2>3. CASE t # <<>>
    <3>1. events' = t /\ wire' = Append(wire, Head(t)) BY <1>0, <1>1, <2>1, <2>3 DEF pump
    <3>2. /\ Append(wire, Head(t)) \o Tail(t) = wire \o t
          /\ Append(wire, Head(t)) \in Seq(EventType)
      BY <2>3
    <3> QED BY <1>1, <2>3, <3>1, <3>2 DEF Outgoing
  <2> QED BY <2>2, <2>3
<1>2. CASE events # <<>>
  <2>1. events \o t # <<>> /\ Tail(events \o t) = Tail(events) \o t /\ Tail(events) \in Seq(EventType)
    BY <1>0, <1>2
  <2>2. events' = events \o t /\ wire' = wire BY <1>0, <1>2 DEF pump
  <2>3. /\ wire \o (Tail(events) \o t) = (wire \o Tail(events)) \o t
        /\ wire \o Tail(events) \in Seq(EventType)
    BY <2>1, JoinAssociates
  <2> QED BY <1>2, <2>1, <2>2, <2>3 DEF Outgoing
<1> QED BY <1>1, <1>2

----------------------------------------------------------------------------
(* The inductive invariant. *)

\* The plan is resolved.
Resolved == process \notin {"none", "resolving"}
\* Every part has landed.
Over == Resolved /\ PartsOpen = 0
\* Nothing was dropped from the queue: only a write that failed does that.
Intact == ~client_cancelled \/ finish_status = "OK"
\* No failure has finished the call.
Unfailed == ~finish_requested \/ finish_status = "OK"

\* The events are in order and one page behind next_page; the complete event
\* is the end, a Document the end of its leg, and a repair comes with one of
\* the two.
OrderKept ==
  /\ wire \in Seq(EventType) /\ Ordered(Outgoing)
  /\ Intact => Streamed(Outgoing) = next_page - 1
  /\ Has(Outgoing, Complete) => Over
  /\ \A c \in Collectors : Has(Outgoing, Document(c)) => c \in Legs /\ leg[c] = "done"
  /\ \A c \in Collectors : Has(Outgoing, Repair(c)) => Over \/ (c \in Legs /\ leg[c] = "done")
  /\ plan = {"pdf"} /\ (Has(Outgoing, Document("pdf")) \/ Has(Outgoing, Repair("pdf"))) => Over

\* The inspector's pages are the next ones: those it streams, and then those
\* it held.
RouteKept ==
  /\ Run \notin admitted /\ leg["pdf"] \in {"idle", "planned", "router", "running"} => next_page = 1
  /\ leg["pdf"] \in {"idle", "planned", "router", "running"} =>
       pdf_next = 1 /\ pdf_streamed = 0 /\ pdf_held = <<>>
  /\ plan = {"pdf"} /\ leg["pdf"] = "running" => Run \notin admitted
  /\ leg["pdf"] \in {"reading", "held"} /\ StreamTakes =>
       /\ pdf_next = next_page + Len(pdf_held)
       /\ \A i \in DOMAIN pdf_held : pdf_held[i] = next_page + i - 1
  /\ leg["pdf"] = "reading" /\ StreamTakes /\ pdf_run_open => pdf_held = <<>>
  /\ leg["pdf"] = "held" => pdf_streamed > 0
  /\ ~fold_empty /\ ~fold_has_cv => plan = {"pdf"} /\ pdf_streamed > 0

\* A call finished as OK has said so, and nothing waits behind its Finish.
Said == finish_requested /\ finish_status = "OK" => Has(Outgoing, Complete) /\ succeeded_parts > 0
Drained == finish_started /\ finish_status = "OK" => events = <<>>
\* The pdf collector alone is one part, whoever takes it over.
Alone == plan = {"pdf"} => succeeded_parts + PartsOpen <= 1
\* A leg runs for each collector of the plan that needs one, and no other.
LegsPlanned ==
  /\ Resolved => \A c \in plan \cap Legs : leg[c] # "idle"
  /\ \A c \in Legs : leg[c] # "idle" => c \in plan

EndKept == Said /\ Drained /\ Alone /\ LegsPlanned

\* A run whose ticket is not stored yet is live.
SubmittedLive == \A who \in {"process", "pdf"} : Submitted(who) => Scheduler!Live(Run)
\* The run is withdrawn only by a failure, its own or the call's.
WithdrawnFailed == withdrawn[Run] => failed[Run] \/ ~Unfailed
\* A page the run delivered has gone out or waits.
TakenOut ==
  /\ taken[Run] \subseteq 1..next_page - 1 \cup completed_pages
  /\ hi[Run] = 0 => taken[Run] = {}

RunKept == SubmittedLive /\ WithdrawnFailed /\ TakenOut

\* What each part of the plan has left behind while no failure finished the
\* call: a collector this build cannot run its failure ...
Unwired == plan \ {"cv", "pdf", "leg"} \subseteq failures
\* ... a leg its Document or its failure, unless the CV run took its part ...
LegsServed ==
  \A c \in plan \cap Legs : leg[c] = "done" =>
    \/ Has(Outgoing, Document(c)) \/ c \in failures
    \/ plan = {"pdf"} /\ Run \in admitted
\* ... a CV part that could not be submitted its failure ...
CvSubmitted == "cv" \in plan /\ process = "done" /\ Run \notin admitted => "cv" \in failures
\* ... the run its failure or every page ...
RunServed ==
  Run \in admitted /\ ~Scheduler!Live(Run) => "cv" \in failures \/ next_page = DocPages + 1
\* ... which would have failed a call of the pdf collector alone.
PdfAlone == plan = {"pdf"} => "cv" \notin failures
\* A part that succeeded has served somebody.
SomeServed ==
  succeeded_parts > 0 =>
    next_page = DocPages + 1 \/ \E c \in Legs \cap plan : Has(Outgoing, Document(c))

AllServed == Unwired /\ LegsServed /\ CvSubmitted /\ RunServed /\ PdfAlone /\ SomeServed
ServedKept == Unfailed => AllServed

WireInv == OrderKept /\ RouteKept /\ EndKept /\ RunKept /\ ServedKept

----------------------------------------------------------------------------
(* Parts and the status only go one way. *)

\* Nothing of the plan is taken back: a landed leg stays landed, a recorded
\* failure stays recorded, an ended run stays ended.
ThreadsOnward ==
  /\ Resolved => Resolved' /\ plan' = plan /\ failures \subseteq failures'
  /\ \A c \in Legs : leg[c] = "done" => leg'[c] = "done"
  /\ succeeded_parts \in Nat /\ succeeded_parts' \in Nat /\ succeeded_parts' >= succeeded_parts
  /\ Run \in admitted => Run \in admitted'
  /\ result[Run] # "pending" => result'[Run] # "pending"

\* A failed call stays failed, and a started Finish keeps its status.
StatusOnward ==
  /\ ~Unfailed => ~Unfailed'
  /\ ~Intact => ~Intact'
  /\ finish_started => finish_started' /\ finish_status' = finish_status
  /\ finish_requested => finish_requested'
  /\ ~StreamTakes => ~StreamTakes'

\* The threads go one way.
LEMMA ThreadsStep ==
  ASSUME StreamInv, TypeOK', [Next]_vars
  PROVE  ThreadsOnward
<1>1. ASSUME NEW names \in {"same", "none", "other"}, NEW size \in {0, 1}, NEW last \in BOOLEAN,
      NEW room \in BOOLEAN, OnChunk(names, size, last, room) PROVE ThreadsOnward
  <2>1. UNCHANGED <<plan, leg, parts>> BY <1>1 DEF OnChunk, FinishCall, request_finish,
      Overrides, pump, CancelRun, Scheduler!Withdraw
  <2>2. UNCHANGED <<admitted, result>> BY <1>1 DEF OnChunk, FinishCall, request_finish,
      Overrides, pump, CancelRun, Scheduler!Withdraw
  <2>3. Resolved => Resolved' BY <1>1 DEF OnChunk, FinishCall, request_finish, Overrides, pump,
      CancelRun, Scheduler!Withdraw, Resolved, StreamInv, ChargesKept
  <2>4. succeeded_parts \in Nat BY DEF StreamInv, TypeOK, FinishTypeOK
  <2> QED BY <2>1, <2>2, <2>3, <2>4 DEF ThreadsOnward
<1>2. CASE ClientHalfClose
  BY <1>2, StreamAssumption DEF ClientHalfClose, StreamInv, TypeOK, FinishTypeOK, ThreadTypeOK,
     RunTypes, GateKept, ThreadsOnward, Resolved, Legs, RouteStates, Submitting, Submitted,
     SubmitterAt, PdfAt
<1>3. CASE ClientCancel
  BY <1>3, StreamAssumption DEF ClientCancel, StreamInv, TypeOK, FinishTypeOK, ThreadTypeOK,
     RunTypes, GateKept, ThreadsOnward, Resolved, Legs, RouteStates, Submitting, Submitted,
     SubmitterAt, PdfAt
<1>4. CASE OnReadClosed
  <2>1. UNCHANGED <<plan, leg, parts>> BY <1>4 DEF OnReadClosed, start_processing, FinishCall,
      request_finish, Overrides, pump, CancelRun, Scheduler!Withdraw
  <2>2. UNCHANGED <<admitted, result>> BY <1>4 DEF OnReadClosed, start_processing, FinishCall,
      request_finish, Overrides, pump, CancelRun, Scheduler!Withdraw
  <2>3. Resolved => Resolved' BY <1>4 DEF OnReadClosed, start_processing, FinishCall,
      request_finish, Overrides, pump, CancelRun, Scheduler!Withdraw, Resolved, StreamInv,
      ChargesKept
  <2>4. succeeded_parts \in Nat BY DEF StreamInv, TypeOK, FinishTypeOK
  <2> QED BY <2>1, <2>2, <2>3, <2>4 DEF ThreadsOnward
<1>5. CASE OnCancel
  BY <1>5, StreamAssumption DEF OnCancel, FinishCall, request_finish, Overrides, pump, CancelRun,
     Scheduler!Withdraw, StreamInv, TypeOK, FinishTypeOK, ThreadTypeOK, RunTypes, GateKept,
     ThreadsOnward, Resolved, Legs, RouteStates, Submitting, Submitted, SubmitterAt, PdfAt
<1>6. CASE OnWriteDone
  <2>1. UNCHANGED <<plan, leg, parts>> BY <1>6 DEF OnWriteDone, pump, Scheduler!Credit
  <2>2. UNCHANGED <<admitted, result>> BY <1>6 DEF OnWriteDone, pump, Scheduler!Credit
  <2>3. Resolved => Resolved' BY <1>6 DEF OnWriteDone, pump, Scheduler!Credit, Resolved,
      StreamInv, ChargesKept
  <2>4. succeeded_parts \in Nat BY DEF StreamInv, TypeOK, FinishTypeOK
  <2> QED BY <2>1, <2>2, <2>3, <2>4 DEF ThreadsOnward
<1>7. CASE OnWriteFailed
  BY <1>7, StreamAssumption DEF OnWriteFailed, FinishCall, request_finish, Overrides, pump,
     CancelRun, Scheduler!Withdraw, StreamInv, TypeOK, FinishTypeOK, ThreadTypeOK, RunTypes,
     GateKept, ThreadsOnward, Resolved, Legs, RouteStates, Submitting, Submitted, SubmitterAt,
     PdfAt
<1>8. CASE OnDone
  BY <1>8, StreamAssumption DEF OnDone, StreamInv, TypeOK, FinishTypeOK, ThreadTypeOK, RunTypes,
     GateKept, ThreadsOnward, Resolved, Legs, RouteStates, Submitting, Submitted, SubmitterAt,
     PdfAt
<1>9. CASE DropBuffer
  BY <1>9, StreamAssumption DEF DropBuffer, StreamInv, TypeOK, FinishTypeOK, ThreadTypeOK,
     RunTypes, GateKept, ThreadsOnward, Resolved, Legs, RouteStates, Submitting, Submitted,
     SubmitterAt, PdfAt
<1>10. CASE ResolveRefused
  BY <1>10, StreamAssumption DEF ResolveRefused, take_bytes, ProcessEnds, FinishCall,
     request_finish, Overrides, pump, CancelRun, Scheduler!Withdraw, StreamInv, TypeOK,
     FinishTypeOK, ThreadTypeOK, RunTypes, GateKept, ThreadsOnward, Resolved, Legs, RouteStates,
     Submitting, Submitted, SubmitterAt, PdfAt
<1>11. ASSUME NEW pl \in Plans, ResolvePlan(pl) PROVE ThreadsOnward
  BY <1>11, StreamAssumption DEF ResolvePlan, take_bytes, FinishCall, request_finish, Overrides,
     pump, CancelRun, Scheduler!Withdraw, StreamInv, TypeOK, FinishTypeOK, ThreadTypeOK,
     RunTypes, GateKept, ThreadsOnward, Resolved, Legs, RouteStates, Submitting, Submitted,
     SubmitterAt, PdfAt
<1>12. CASE ProcessLaunch
  BY <1>12, StreamAssumption DEF ProcessLaunch, StreamInv, TypeOK, FinishTypeOK, ThreadTypeOK,
     RunTypes, GateKept, ThreadsOnward, Resolved, Legs, RouteStates, Submitting, Submitted,
     SubmitterAt, PdfAt
<1>13. CASE ProcessGone
  BY <1>13, StreamAssumption DEF ProcessGone, ProcessEnds, StreamInv, TypeOK, FinishTypeOK,
     ThreadTypeOK, RunTypes, GateKept, ThreadsOnward, Resolved, Legs, RouteStates, Submitting,
     Submitted, SubmitterAt, PdfAt
<1>14. CASE ProcessThrows
  BY <1>14, StreamAssumption DEF ProcessThrows, ProcessEnds, FinishCall, request_finish,
     Overrides, pump, CancelRun, Scheduler!Withdraw, StreamInv, TypeOK, FinishTypeOK,
     ThreadTypeOK, RunTypes, GateKept, ThreadsOnward, Resolved, Legs, RouteStates, Submitting,
     Submitted, SubmitterAt, PdfAt
<1>15. CASE LaunchDone
  BY <1>15, StreamAssumption DEF LaunchDone, StreamInv, TypeOK, FinishTypeOK, ThreadTypeOK,
     RunTypes, GateKept, ThreadsOnward, Resolved, Legs, RouteStates, Submitting, Submitted,
     SubmitterAt, PdfAt
<1>16. ASSUME NEW c \in Legs, LaunchLeg(c) PROVE ThreadsOnward
  BY <1>16, StreamAssumption DEF LaunchLeg, StreamInv, TypeOK, FinishTypeOK, ThreadTypeOK,
     RunTypes, GateKept, ThreadsOnward, Resolved, Legs, RouteStates, Submitting, Submitted,
     SubmitterAt, PdfAt
<1>17. ASSUME NEW who \in {"process", "pdf"}, SubmitRun(who) PROVE ThreadsOnward
  BY <1>17, StreamAssumption DEF SubmitRun, Submitting, SubmitterAt, Scheduler!Admit, StreamInv,
     TypeOK, FinishTypeOK, ThreadTypeOK, RunTypes, GateKept, ThreadsOnward, Resolved, Legs,
     RouteStates, Submitted, PdfAt
<1>18. ASSUME NEW who \in {"process", "pdf"}, SubmitRefused(who) PROVE ThreadsOnward
  BY <1>18, StreamAssumption DEF SubmitRefused, Submitting, SubmitterAt, PartFailed, part_done,
     record_part_failure, FirstFailure, NoFinish, request_finish, Overrides, pump, CancelRun,
     Scheduler!Withdraw, StreamInv, TypeOK, FinishTypeOK, ThreadTypeOK, RunTypes, GateKept,
     ThreadsOnward, Resolved, Legs, RouteStates, Submitted, PdfAt
<1>19. ASSUME NEW who \in {"process", "pdf"}, SetTicket(who) PROVE ThreadsOnward
  BY <1>19, StreamAssumption DEF SetTicket, Submitted, SubmitterAt, CancelRun, Scheduler!Withdraw,
     StreamInv, TypeOK, FinishTypeOK, ThreadTypeOK, RunTypes, GateKept, ThreadsOnward, Resolved,
     Legs, RouteStates, Submitting, PdfAt
<1>20. ASSUME NEW c \in Legs, NEW success \in BOOLEAN, NEW k \in Nat, NEW streamed \in BOOLEAN,
      LegLands(c, success, k, streamed) PROVE ThreadsOnward
  <2>1. UNCHANGED <<plan, process, admitted, result>> BY <1>20 DEF LegLands, on_collector_done,
      DocumentArrived, DocumentRefused, CancelRun, Scheduler!Withdraw
  <2>2. failures \subseteq failures' /\ (succeeded_parts' = succeeded_parts \/ succeeded_parts'
      = succeeded_parts + 1)
    BY <1>20 DEF LegLands, on_collector_done, DocumentArrived, DocumentRefused, PartFailed,
        PartSucceeded, record_part_failure
  <2>3. \A x \in Legs : leg[x] = "done" => leg'[x] = "done"
    BY <1>20 DEF LegLands, on_collector_done, StreamInv, TypeOK, ThreadTypeOK
  <2>4. succeeded_parts \in Nat BY DEF StreamInv, TypeOK, FinishTypeOK
  <2> QED BY <2>1, <2>2, <2>3, <2>4 DEF ThreadsOnward, Resolved
<1>21. ASSUME NEW clean \in BOOLEAN, PdfSlice(clean) PROVE ThreadsOnward
  <2>1. UNCHANGED <<plan, process, leg, failures, succeeded_parts, admitted, result>>
    BY <1>21 DEF PdfSlice
  <2>2. succeeded_parts \in Nat BY DEF StreamInv, TypeOK, FinishTypeOK
  <2> QED BY <2>1, <2>2 DEF ThreadsOnward, Resolved
<1>22. ASSUME NEW success \in BOOLEAN, NEW fast \in BOOLEAN, PdfEnd(success, fast) PROVE
      ThreadsOnward
  BY <1>22, StreamAssumption DEF PdfEnd, PdfAt, StreamInv, TypeOK, FinishTypeOK, ThreadTypeOK,
     RunTypes, GateKept, ThreadsOnward, Resolved, Legs, RouteStates, Submitting, Submitted,
     SubmitterAt
<1>23. CASE PdfHeld
  BY <1>23, StreamAssumption DEF PdfHeld, PdfAt, NotStreamed, StreamTakes, on_streamed_page, pump,
     StreamInv, TypeOK, FinishTypeOK, ThreadTypeOK, RunTypes, GateKept, ThreadsOnward, Resolved,
     Legs, RouteStates, Submitting, Submitted, SubmitterAt
<1>24. CASE PdfLeft
  BY <1>24, StreamAssumption DEF PdfLeft, PdfAt, StreamInv, TypeOK, FinishTypeOK, ThreadTypeOK,
     RunTypes, GateKept, ThreadsOnward, Resolved, Legs, RouteStates, Submitting, Submitted,
     SubmitterAt
<1>25. CASE PdfFallback
  BY <1>25, StreamAssumption DEF PdfFallback, PdfAt, record_part_failure, StreamInv, TypeOK,
     FinishTypeOK, ThreadTypeOK, RunTypes, GateKept, ThreadsOnward, Resolved, Legs, RouteStates,
     Submitting, Submitted, SubmitterAt
<1>26. CASE PdfSubmit
  BY <1>26, StreamAssumption DEF PdfSubmit, PdfAt, StreamInv, TypeOK, FinishTypeOK, ThreadTypeOK,
     RunTypes, GateKept, ThreadsOnward, Resolved, Legs, RouteStates, Submitting, Submitted,
     SubmitterAt
<1>27. CASE RunOpens
  BY <1>27, StreamAssumption DEF RunOpens, Scheduler!Size, Scheduler!Live, StreamInv, TypeOK,
     FinishTypeOK, ThreadTypeOK, RunTypes, GateKept, ThreadsOnward, Resolved, Legs, RouteStates,
     Submitting, Submitted, SubmitterAt, PdfAt
<1>28. CASE RunFails
  BY <1>28, StreamAssumption DEF RunFails, Scheduler!Live, Scheduler!Break, StreamInv, TypeOK,
     FinishTypeOK, ThreadTypeOK, RunTypes, GateKept, ThreadsOnward, Resolved, Legs, RouteStates,
     Submitting, Submitted, SubmitterAt, PdfAt
<1>29. CASE on_document
  BY <1>29, StreamAssumption DEF on_document, Scheduler!Announce, StreamInv, TypeOK, FinishTypeOK,
     ThreadTypeOK, RunTypes, GateKept, ThreadsOnward, Resolved, Legs, RouteStates, Submitting,
     Submitted, SubmitterAt, PdfAt
<1>30. ASSUME NEW p \in Pages, on_page(p) PROVE ThreadsOnward
  BY <1>30, StreamAssumption DEF on_page, pump, Scheduler!DeliverPage, Scheduler!Deliverable,
     Scheduler!Live, StreamInv, TypeOK, FinishTypeOK, ThreadTypeOK, RunTypes, GateKept,
     ThreadsOnward, Resolved, Legs, RouteStates, Submitting, Submitted, SubmitterAt, PdfAt
<1>31. ASSUME NEW p \in Pages, PageRefused(p) PROVE ThreadsOnward
  BY <1>31, StreamAssumption DEF PageRefused, Scheduler!Deliverable, Scheduler!Live,
     Scheduler!Withdraw, request_finish, Overrides, pump, StreamInv, TypeOK, FinishTypeOK,
     ThreadTypeOK, RunTypes, GateKept, ThreadsOnward, Resolved, Legs, RouteStates, Submitting,
     Submitted, SubmitterAt, PdfAt
<1>32. ASSUME NEW why \in {"none", "failed"}, on_scheduler_finish(why) PROVE ThreadsOnward
  BY <1>32, StreamAssumption DEF on_scheduler_finish, Scheduler!Finish, Scheduler!Live, RunStatus,
     PartFailed, PartSucceeded, FinishCall, part_done, record_part_failure, FirstFailure,
     NoFinish, request_finish, Overrides, pump, StreamInv, TypeOK, FinishTypeOK, ThreadTypeOK,
     RunTypes, GateKept, ThreadsOnward, Resolved, Legs, RouteStates, Submitting, Submitted,
     SubmitterAt, PdfAt
<1>33. CASE UNCHANGED vars
  BY <1>33 DEF vars, StreamInv, TypeOK, FinishTypeOK, ThreadTypeOK, RunTypes, GateKept,
     ThreadsOnward, Resolved, Legs, RouteStates, Submitting, Submitted, SubmitterAt, PdfAt
<1> QED BY StepCases, <1>1, <1>2, <1>3, <1>4, <1>5, <1>6, <1>7, <1>8, <1>9, <1>10, <1>11, <1>12,
    <1>13, <1>14, <1>15, <1>16, <1>17, <1>18, <1>19, <1>20, <1>21, <1>22, <1>23, <1>24, <1>25,
    <1>26, <1>27, <1>28, <1>29, <1>30, <1>31, <1>32, <1>33

\* The status goes one way.
LEMMA StatusStep ==
  ASSUME StreamInv, [Next]_vars
  PROVE  StatusOnward
<1>1. ASSUME NEW names \in {"same", "none", "other"}, NEW size \in {0, 1}, NEW last \in BOOLEAN,
      NEW room \in BOOLEAN, OnChunk(names, size, last, room) PROVE StatusOnward
  BY <1>1, StreamAssumption DEF OnChunk, FinishCall, request_finish, Overrides, pump, CancelRun,
     Scheduler!Withdraw, StreamInv, TypeOK, FinishTypeOK, CallTypeOK, TicketsKept, StatusOnward,
     Unfailed, Intact, StreamTakes
<1>2. CASE ClientHalfClose
  BY <1>2, StreamAssumption DEF ClientHalfClose, StreamInv, TypeOK, FinishTypeOK, CallTypeOK,
     TicketsKept, StatusOnward, Unfailed, Intact, StreamTakes
<1>3. CASE ClientCancel
  BY <1>3, StreamAssumption DEF ClientCancel, StreamInv, TypeOK, FinishTypeOK, CallTypeOK,
     TicketsKept, StatusOnward, Unfailed, Intact, StreamTakes
<1>4. CASE OnReadClosed
  BY <1>4, StreamAssumption DEF OnReadClosed, start_processing, FinishCall, request_finish,
     Overrides, pump, CancelRun, Scheduler!Withdraw, StreamInv, TypeOK, FinishTypeOK,
     CallTypeOK, TicketsKept, StatusOnward, Unfailed, Intact, StreamTakes
<1>5. CASE OnCancel
  BY <1>5, StreamAssumption DEF OnCancel, FinishCall, request_finish, Overrides, pump, CancelRun,
     Scheduler!Withdraw, StreamInv, TypeOK, FinishTypeOK, CallTypeOK, TicketsKept, StatusOnward,
     Unfailed, Intact, StreamTakes
<1>6. CASE OnWriteDone
  BY <1>6, StreamAssumption DEF OnWriteDone, pump, Scheduler!Credit, StreamInv, TypeOK,
     FinishTypeOK, CallTypeOK, TicketsKept, StatusOnward, Unfailed, Intact, StreamTakes
<1>7. CASE OnWriteFailed
  BY <1>7, StreamAssumption DEF OnWriteFailed, FinishCall, request_finish, Overrides, pump,
     CancelRun, Scheduler!Withdraw, StreamInv, TypeOK, FinishTypeOK, CallTypeOK, TicketsKept,
     StatusOnward, Unfailed, Intact, StreamTakes
<1>8. CASE OnDone
  BY <1>8, StreamAssumption DEF OnDone, StreamInv, TypeOK, FinishTypeOK, CallTypeOK, TicketsKept,
     StatusOnward, Unfailed, Intact, StreamTakes
<1>9. CASE DropBuffer
  BY <1>9, StreamAssumption DEF DropBuffer, StreamInv, TypeOK, FinishTypeOK, CallTypeOK,
     TicketsKept, StatusOnward, Unfailed, Intact, StreamTakes
<1>10. CASE ResolveRefused
  BY <1>10, StreamAssumption DEF ResolveRefused, take_bytes, ProcessEnds, FinishCall,
     request_finish, Overrides, pump, CancelRun, Scheduler!Withdraw, StreamInv, TypeOK,
     FinishTypeOK, CallTypeOK, TicketsKept, StatusOnward, Unfailed, Intact, StreamTakes
<1>11. ASSUME NEW pl \in Plans, ResolvePlan(pl) PROVE StatusOnward
  BY <1>11, StreamAssumption DEF ResolvePlan, take_bytes, FinishCall, request_finish, Overrides,
     pump, CancelRun, Scheduler!Withdraw, StreamInv, TypeOK, FinishTypeOK, CallTypeOK,
     TicketsKept, StatusOnward, Unfailed, Intact, StreamTakes
<1>12. CASE ProcessLaunch
  BY <1>12, StreamAssumption DEF ProcessLaunch, StreamInv, TypeOK, FinishTypeOK, CallTypeOK,
     TicketsKept, StatusOnward, Unfailed, Intact, StreamTakes
<1>13. CASE ProcessGone
  BY <1>13, StreamAssumption DEF ProcessGone, ProcessEnds, StreamInv, TypeOK, FinishTypeOK,
     CallTypeOK, TicketsKept, StatusOnward, Unfailed, Intact, StreamTakes
<1>14. CASE ProcessThrows
  BY <1>14, StreamAssumption DEF ProcessThrows, ProcessEnds, FinishCall, request_finish,
     Overrides, pump, CancelRun, Scheduler!Withdraw, StreamInv, TypeOK, FinishTypeOK,
     CallTypeOK, TicketsKept, StatusOnward, Unfailed, Intact, StreamTakes
<1>15. CASE LaunchDone
  BY <1>15, StreamAssumption DEF LaunchDone, StreamInv, TypeOK, FinishTypeOK, CallTypeOK,
     TicketsKept, StatusOnward, Unfailed, Intact, StreamTakes
<1>16. ASSUME NEW c \in Legs, LaunchLeg(c) PROVE StatusOnward
  BY <1>16, StreamAssumption DEF LaunchLeg, StreamInv, TypeOK, FinishTypeOK, CallTypeOK,
     TicketsKept, StatusOnward, Unfailed, Intact, StreamTakes
<1>17. ASSUME NEW who \in {"process", "pdf"}, SubmitRun(who) PROVE StatusOnward
  BY <1>17, StreamAssumption DEF SubmitRun, Submitting, SubmitterAt, Scheduler!Admit, StreamInv,
     TypeOK, FinishTypeOK, CallTypeOK, TicketsKept, StatusOnward, Unfailed, Intact, StreamTakes
<1>18. ASSUME NEW who \in {"process", "pdf"}, SubmitRefused(who) PROVE StatusOnward
  BY <1>18, StreamAssumption DEF SubmitRefused, Submitting, SubmitterAt, PartFailed, part_done,
     record_part_failure, FirstFailure, NoFinish, request_finish, Overrides, pump, CancelRun,
     Scheduler!Withdraw, StreamInv, TypeOK, FinishTypeOK, CallTypeOK, TicketsKept, StatusOnward,
     Unfailed, Intact, StreamTakes
<1>19. ASSUME NEW who \in {"process", "pdf"}, SetTicket(who) PROVE StatusOnward
  BY <1>19, StreamAssumption DEF SetTicket, Submitted, SubmitterAt, CancelRun, Scheduler!Withdraw,
     StreamInv, TypeOK, FinishTypeOK, CallTypeOK, TicketsKept, StatusOnward, Unfailed, Intact,
     StreamTakes
<1>20. ASSUME NEW c \in Legs, NEW success \in BOOLEAN, NEW k \in Nat, NEW streamed \in BOOLEAN,
      LegLands(c, success, k, streamed) PROVE StatusOnward
  BY <1>20, StreamAssumption DEF LegLands, on_collector_done, DocumentArrived, DocumentRefused,
     PartFailed, PartSucceeded, FinishCall, part_done, record_part_failure, FirstFailure,
     NoFinish, request_finish, Overrides, pump, CancelRun, Scheduler!Withdraw, StreamInv,
     TypeOK, FinishTypeOK, CallTypeOK, TicketsKept, StatusOnward, Unfailed, Intact, StreamTakes
<1>21. ASSUME NEW clean \in BOOLEAN, PdfSlice(clean) PROVE StatusOnward
  BY <1>21, StreamAssumption DEF PdfSlice, NotStreamed, StreamTakes, on_streamed_page, pump,
     StreamInv, TypeOK, FinishTypeOK, CallTypeOK, TicketsKept, StatusOnward, Unfailed, Intact
<1>22. ASSUME NEW success \in BOOLEAN, NEW fast \in BOOLEAN, PdfEnd(success, fast) PROVE
      StatusOnward
  BY <1>22, StreamAssumption DEF PdfEnd, PdfAt, StreamInv, TypeOK, FinishTypeOK, CallTypeOK,
     TicketsKept, StatusOnward, Unfailed, Intact, StreamTakes
<1>23. CASE PdfHeld
  BY <1>23, StreamAssumption DEF PdfHeld, PdfAt, NotStreamed, StreamTakes, on_streamed_page, pump,
     StreamInv, TypeOK, FinishTypeOK, CallTypeOK, TicketsKept, StatusOnward, Unfailed, Intact
<1>24. CASE PdfLeft
  BY <1>24, StreamAssumption DEF PdfLeft, PdfAt, StreamInv, TypeOK, FinishTypeOK, CallTypeOK,
     TicketsKept, StatusOnward, Unfailed, Intact, StreamTakes
<1>25. CASE PdfFallback
  BY <1>25, StreamAssumption DEF PdfFallback, PdfAt, record_part_failure, StreamInv, TypeOK,
     FinishTypeOK, CallTypeOK, TicketsKept, StatusOnward, Unfailed, Intact, StreamTakes
<1>26. CASE PdfSubmit
  BY <1>26, StreamAssumption DEF PdfSubmit, PdfAt, StreamInv, TypeOK, FinishTypeOK, CallTypeOK,
     TicketsKept, StatusOnward, Unfailed, Intact, StreamTakes
<1>27. CASE RunOpens
  BY <1>27, StreamAssumption DEF RunOpens, Scheduler!Size, Scheduler!Live, StreamInv, TypeOK,
     FinishTypeOK, CallTypeOK, TicketsKept, StatusOnward, Unfailed, Intact, StreamTakes
<1>28. CASE RunFails
  BY <1>28, StreamAssumption DEF RunFails, Scheduler!Live, Scheduler!Break, StreamInv, TypeOK,
     FinishTypeOK, CallTypeOK, TicketsKept, StatusOnward, Unfailed, Intact, StreamTakes
<1>29. CASE on_document
  BY <1>29, StreamAssumption DEF on_document, Scheduler!Announce, StreamInv, TypeOK, FinishTypeOK,
     CallTypeOK, TicketsKept, StatusOnward, Unfailed, Intact, StreamTakes
<1>30. ASSUME NEW p \in Pages, on_page(p) PROVE StatusOnward
  BY <1>30, StreamAssumption DEF on_page, pump, Scheduler!DeliverPage, Scheduler!Deliverable,
     Scheduler!Live, StreamInv, TypeOK, FinishTypeOK, CallTypeOK, TicketsKept, StatusOnward,
     Unfailed, Intact, StreamTakes
<1>31. ASSUME NEW p \in Pages, PageRefused(p) PROVE StatusOnward
  BY <1>31, StreamAssumption DEF PageRefused, Scheduler!Deliverable, Scheduler!Live,
     Scheduler!Withdraw, request_finish, Overrides, pump, StreamInv, TypeOK, FinishTypeOK,
     CallTypeOK, TicketsKept, StatusOnward, Unfailed, Intact, StreamTakes
<1>32. ASSUME NEW why \in {"none", "failed"}, on_scheduler_finish(why) PROVE StatusOnward
  BY <1>32, StreamAssumption DEF on_scheduler_finish, Scheduler!Finish, Scheduler!Live, RunStatus,
     PartFailed, PartSucceeded, FinishCall, part_done, record_part_failure, FirstFailure,
     NoFinish, request_finish, Overrides, pump, StreamInv, TypeOK, FinishTypeOK, CallTypeOK,
     TicketsKept, StatusOnward, Unfailed, Intact, StreamTakes
<1>33. CASE UNCHANGED vars
  BY <1>33 DEF vars, StreamInv, TypeOK, FinishTypeOK, CallTypeOK, TicketsKept, StatusOnward,
     Unfailed, Intact, StreamTakes
<1> QED BY StepCases, <1>1, <1>2, <1>3, <1>4, <1>5, <1>6, <1>7, <1>8, <1>9, <1>10, <1>11, <1>12,
    <1>13, <1>14, <1>15, <1>16, <1>17, <1>18, <1>19, <1>20, <1>21, <1>22, <1>23, <1>24, <1>25,
    <1>26, <1>27, <1>28, <1>29, <1>30, <1>31, <1>32, <1>33

\* A plan that is over opens no part again.
LEMMA OverStep ==
  ASSUME StreamInv, Over, [Next]_vars
  PROVE  Over'
<1>1. ASSUME NEW names \in {"same", "none", "other"}, NEW size \in {0, 1}, NEW last \in BOOLEAN,
      NEW room \in BOOLEAN, OnChunk(names, size, last, room) PROVE Over'
  BY <1>1, StreamAssumption DEF OnChunk, FinishCall, request_finish, Overrides, pump, CancelRun,
     Scheduler!Withdraw, StreamInv, TypeOK, FinishTypeOK, ThreadTypeOK, RunTypes, GateKept,
     AdmissionKept, Over, Resolved, PartsOpen, LegOpen, RunOpen, Scheduler!Live, Legs,
     RouteStates, Submitting, Submitted, SubmitterAt, PdfAt
<1>2. CASE ClientHalfClose
  BY <1>2, StreamAssumption DEF ClientHalfClose, StreamInv, TypeOK, FinishTypeOK, ThreadTypeOK,
     RunTypes, GateKept, AdmissionKept, Over, Resolved, PartsOpen, LegOpen, RunOpen,
     Scheduler!Live, Legs, RouteStates, Submitting, Submitted, SubmitterAt, PdfAt
<1>3. CASE ClientCancel
  BY <1>3, StreamAssumption DEF ClientCancel, StreamInv, TypeOK, FinishTypeOK, ThreadTypeOK,
     RunTypes, GateKept, AdmissionKept, Over, Resolved, PartsOpen, LegOpen, RunOpen,
     Scheduler!Live, Legs, RouteStates, Submitting, Submitted, SubmitterAt, PdfAt
<1>4. CASE OnReadClosed
  <2>1. UNCHANGED <<plan, leg, process, admitted, result>> BY <1>4 DEF OnReadClosed,
      start_processing, FinishCall, request_finish, Overrides, pump, CancelRun,
      Scheduler!Withdraw, Over, Resolved, StreamInv, ChargesKept
  <2> QED BY <2>1 DEF Over, Resolved, PartsOpen, LegOpen, RunOpen, Scheduler!Live
<1>5. CASE OnCancel
  BY <1>5, StreamAssumption DEF OnCancel, FinishCall, request_finish, Overrides, pump, CancelRun,
     Scheduler!Withdraw, StreamInv, TypeOK, FinishTypeOK, ThreadTypeOK, RunTypes, GateKept,
     AdmissionKept, Over, Resolved, PartsOpen, LegOpen, RunOpen, Scheduler!Live, Legs,
     RouteStates, Submitting, Submitted, SubmitterAt, PdfAt
<1>6. CASE OnWriteDone
  BY <1>6, StreamAssumption DEF OnWriteDone, pump, Scheduler!Credit, StreamInv, TypeOK,
     FinishTypeOK, ThreadTypeOK, RunTypes, GateKept, AdmissionKept, Over, Resolved, PartsOpen,
     LegOpen, RunOpen, Scheduler!Live, Legs, RouteStates, Submitting, Submitted, SubmitterAt,
     PdfAt
<1>7. CASE OnWriteFailed
  BY <1>7, StreamAssumption DEF OnWriteFailed, FinishCall, request_finish, Overrides, pump,
     CancelRun, Scheduler!Withdraw, StreamInv, TypeOK, FinishTypeOK, ThreadTypeOK, RunTypes,
     GateKept, AdmissionKept, Over, Resolved, PartsOpen, LegOpen, RunOpen, Scheduler!Live, Legs,
     RouteStates, Submitting, Submitted, SubmitterAt, PdfAt
<1>8. CASE OnDone
  BY <1>8, StreamAssumption DEF OnDone, StreamInv, TypeOK, FinishTypeOK, ThreadTypeOK, RunTypes,
     GateKept, AdmissionKept, Over, Resolved, PartsOpen, LegOpen, RunOpen, Scheduler!Live, Legs,
     RouteStates, Submitting, Submitted, SubmitterAt, PdfAt
<1>9. CASE DropBuffer
  BY <1>9, StreamAssumption DEF DropBuffer, StreamInv, TypeOK, FinishTypeOK, ThreadTypeOK,
     RunTypes, GateKept, AdmissionKept, Over, Resolved, PartsOpen, LegOpen, RunOpen,
     Scheduler!Live, Legs, RouteStates, Submitting, Submitted, SubmitterAt, PdfAt
<1>10. CASE ResolveRefused
  BY <1>10, StreamAssumption DEF ResolveRefused, take_bytes, ProcessEnds, FinishCall,
     request_finish, Overrides, pump, CancelRun, Scheduler!Withdraw, StreamInv, TypeOK,
     FinishTypeOK, ThreadTypeOK, RunTypes, GateKept, AdmissionKept, Over, Resolved, PartsOpen,
     LegOpen, RunOpen, Scheduler!Live, Legs, RouteStates, Submitting, Submitted, SubmitterAt,
     PdfAt
<1>11. ASSUME NEW pl \in Plans, ResolvePlan(pl) PROVE Over'
  BY <1>11, StreamAssumption DEF ResolvePlan, take_bytes, FinishCall, request_finish, Overrides,
     pump, CancelRun, Scheduler!Withdraw, StreamInv, TypeOK, FinishTypeOK, ThreadTypeOK,
     RunTypes, GateKept, AdmissionKept, Over, Resolved, PartsOpen, LegOpen, RunOpen,
     Scheduler!Live, Legs, RouteStates, Submitting, Submitted, SubmitterAt, PdfAt
<1>12. CASE ProcessLaunch
  BY <1>12, StreamAssumption DEF ProcessLaunch, StreamInv, TypeOK, FinishTypeOK, ThreadTypeOK,
     RunTypes, GateKept, AdmissionKept, Over, Resolved, PartsOpen, LegOpen, RunOpen,
     Scheduler!Live, Legs, RouteStates, Submitting, Submitted, SubmitterAt, PdfAt
<1>13. CASE ProcessGone
  BY <1>13, StreamAssumption DEF ProcessGone, ProcessEnds, StreamInv, TypeOK, FinishTypeOK,
     ThreadTypeOK, RunTypes, GateKept, AdmissionKept, Over, Resolved, PartsOpen, LegOpen,
     RunOpen, Scheduler!Live, Legs, RouteStates, Submitting, Submitted, SubmitterAt, PdfAt
<1>14. CASE ProcessThrows
  BY <1>14, StreamAssumption DEF ProcessThrows, ProcessEnds, FinishCall, request_finish,
     Overrides, pump, CancelRun, Scheduler!Withdraw, StreamInv, TypeOK, FinishTypeOK,
     ThreadTypeOK, RunTypes, GateKept, AdmissionKept, Over, Resolved, PartsOpen, LegOpen,
     RunOpen, Scheduler!Live, Legs, RouteStates, Submitting, Submitted, SubmitterAt, PdfAt
<1>15. CASE LaunchDone
  BY <1>15, StreamAssumption DEF LaunchDone, StreamInv, TypeOK, FinishTypeOK, ThreadTypeOK,
     RunTypes, GateKept, AdmissionKept, Over, Resolved, PartsOpen, LegOpen, RunOpen,
     Scheduler!Live, Legs, RouteStates, Submitting, Submitted, SubmitterAt, PdfAt
<1>16. ASSUME NEW c \in Legs, LaunchLeg(c) PROVE Over'
  BY <1>16, StreamAssumption DEF LaunchLeg, StreamInv, TypeOK, FinishTypeOK, ThreadTypeOK,
     RunTypes, GateKept, AdmissionKept, Over, Resolved, PartsOpen, LegOpen, RunOpen,
     Scheduler!Live, Legs, RouteStates, Submitting, Submitted, SubmitterAt, PdfAt
<1>17. ASSUME NEW who \in {"process", "pdf"}, SubmitRun(who) PROVE Over'
  BY <1>17, StreamAssumption DEF SubmitRun, Submitting, SubmitterAt, Scheduler!Admit, StreamInv,
     TypeOK, FinishTypeOK, ThreadTypeOK, RunTypes, GateKept, AdmissionKept, Over, Resolved,
     PartsOpen, LegOpen, RunOpen, Scheduler!Live, Legs, RouteStates, Submitted, PdfAt
<1>18. ASSUME NEW who \in {"process", "pdf"}, SubmitRefused(who) PROVE Over'
  BY <1>18, StreamAssumption DEF SubmitRefused, Submitting, SubmitterAt, PartFailed, part_done,
     record_part_failure, FirstFailure, NoFinish, request_finish, Overrides, pump, CancelRun,
     Scheduler!Withdraw, StreamInv, TypeOK, FinishTypeOK, ThreadTypeOK, RunTypes, GateKept,
     AdmissionKept, Over, Resolved, PartsOpen, LegOpen, RunOpen, Scheduler!Live, Legs,
     RouteStates, Submitted, PdfAt
<1>19. ASSUME NEW who \in {"process", "pdf"}, SetTicket(who) PROVE Over'
  BY <1>19, StreamAssumption DEF SetTicket, Submitted, SubmitterAt, CancelRun, Scheduler!Withdraw,
     StreamInv, TypeOK, FinishTypeOK, ThreadTypeOK, RunTypes, GateKept, AdmissionKept, Over,
     Resolved, PartsOpen, LegOpen, RunOpen, Scheduler!Live, Legs, RouteStates, Submitting, PdfAt
<1>20. ASSUME NEW c \in Legs, NEW success \in BOOLEAN, NEW k \in Nat, NEW streamed \in BOOLEAN,
      LegLands(c, success, k, streamed) PROVE Over'
  <2>1. c \in {"pdf", "leg"} /\ leg[c] \notin {"idle", "done", "ticket"}
    BY <1>20 DEF LegLands, on_collector_done, Legs
  <2>2. LegOpen("pdf") \in {0, 1} /\ LegOpen("leg") \in {0, 1} /\ RunOpen \in {0, 1} /\ LegOpen(c) = 1
    BY <2>1 DEF LegOpen, RunOpen
  <2>3. PartsOpen # 0 BY <2>1, <2>2 DEF PartsOpen
  <2> QED BY <2>3 DEF Over
<1>21. ASSUME NEW clean \in BOOLEAN, PdfSlice(clean) PROVE Over'
  BY <1>21, StreamAssumption DEF PdfSlice, NotStreamed, StreamTakes, on_streamed_page, pump,
     StreamInv, TypeOK, FinishTypeOK, ThreadTypeOK, RunTypes, GateKept, AdmissionKept, Over,
     Resolved, PartsOpen, LegOpen, RunOpen, Scheduler!Live, Legs, RouteStates, Submitting,
     Submitted, SubmitterAt, PdfAt
<1>22. ASSUME NEW success \in BOOLEAN, NEW fast \in BOOLEAN, PdfEnd(success, fast) PROVE Over'
  BY <1>22, StreamAssumption DEF PdfEnd, PdfAt, StreamInv, TypeOK, FinishTypeOK, ThreadTypeOK,
     RunTypes, GateKept, AdmissionKept, Over, Resolved, PartsOpen, LegOpen, RunOpen,
     Scheduler!Live, Legs, RouteStates, Submitting, Submitted, SubmitterAt
<1>23. CASE PdfHeld
  BY <1>23, StreamAssumption DEF PdfHeld, PdfAt, NotStreamed, StreamTakes, on_streamed_page, pump,
     StreamInv, TypeOK, FinishTypeOK, ThreadTypeOK, RunTypes, GateKept, AdmissionKept, Over,
     Resolved, PartsOpen, LegOpen, RunOpen, Scheduler!Live, Legs, RouteStates, Submitting,
     Submitted, SubmitterAt
<1>24. CASE PdfLeft
  BY <1>24, StreamAssumption DEF PdfLeft, PdfAt, StreamInv, TypeOK, FinishTypeOK, ThreadTypeOK,
     RunTypes, GateKept, AdmissionKept, Over, Resolved, PartsOpen, LegOpen, RunOpen,
     Scheduler!Live, Legs, RouteStates, Submitting, Submitted, SubmitterAt
<1>25. CASE PdfFallback
  BY <1>25, StreamAssumption DEF PdfFallback, PdfAt, record_part_failure, StreamInv, TypeOK,
     FinishTypeOK, ThreadTypeOK, RunTypes, GateKept, AdmissionKept, Over, Resolved, PartsOpen,
     LegOpen, RunOpen, Scheduler!Live, Legs, RouteStates, Submitting, Submitted, SubmitterAt
<1>26. CASE PdfSubmit
  BY <1>26, StreamAssumption DEF PdfSubmit, PdfAt, StreamInv, TypeOK, FinishTypeOK, ThreadTypeOK,
     RunTypes, GateKept, AdmissionKept, Over, Resolved, PartsOpen, LegOpen, RunOpen,
     Scheduler!Live, Legs, RouteStates, Submitting, Submitted, SubmitterAt
<1>27. CASE RunOpens
  BY <1>27, StreamAssumption DEF RunOpens, Scheduler!Size, Scheduler!Live, StreamInv, TypeOK,
     FinishTypeOK, ThreadTypeOK, RunTypes, GateKept, AdmissionKept, Over, Resolved, PartsOpen,
     LegOpen, RunOpen, Legs, RouteStates, Submitting, Submitted, SubmitterAt, PdfAt
<1>28. CASE RunFails
  BY <1>28, StreamAssumption DEF RunFails, Scheduler!Live, Scheduler!Break, StreamInv, TypeOK,
     FinishTypeOK, ThreadTypeOK, RunTypes, GateKept, AdmissionKept, Over, Resolved, PartsOpen,
     LegOpen, RunOpen, Legs, RouteStates, Submitting, Submitted, SubmitterAt, PdfAt
<1>29. CASE on_document
  BY <1>29, StreamAssumption DEF on_document, Scheduler!Announce, StreamInv, TypeOK, FinishTypeOK,
     ThreadTypeOK, RunTypes, GateKept, AdmissionKept, Over, Resolved, PartsOpen, LegOpen,
     RunOpen, Scheduler!Live, Legs, RouteStates, Submitting, Submitted, SubmitterAt, PdfAt
<1>30. ASSUME NEW p \in Pages, on_page(p) PROVE Over'
  BY <1>30, StreamAssumption DEF on_page, pump, Scheduler!DeliverPage, Scheduler!Deliverable,
     Scheduler!Live, StreamInv, TypeOK, FinishTypeOK, ThreadTypeOK, RunTypes, GateKept,
     AdmissionKept, Over, Resolved, PartsOpen, LegOpen, RunOpen, Legs, RouteStates, Submitting,
     Submitted, SubmitterAt, PdfAt
<1>31. ASSUME NEW p \in Pages, PageRefused(p) PROVE Over'
  BY <1>31, StreamAssumption DEF PageRefused, Scheduler!Deliverable, Scheduler!Live,
     Scheduler!Withdraw, request_finish, Overrides, pump, StreamInv, TypeOK, FinishTypeOK,
     ThreadTypeOK, RunTypes, GateKept, AdmissionKept, Over, Resolved, PartsOpen, LegOpen,
     RunOpen, Legs, RouteStates, Submitting, Submitted, SubmitterAt, PdfAt
<1>32. ASSUME NEW why \in {"none", "failed"}, on_scheduler_finish(why) PROVE Over'
  BY <1>32, StreamAssumption DEF on_scheduler_finish, Scheduler!Finish, Scheduler!Live, RunStatus,
     PartFailed, PartSucceeded, FinishCall, part_done, record_part_failure, FirstFailure,
     NoFinish, request_finish, Overrides, pump, StreamInv, TypeOK, FinishTypeOK, ThreadTypeOK,
     RunTypes, GateKept, AdmissionKept, Over, Resolved, PartsOpen, LegOpen, RunOpen, Legs,
     RouteStates, Submitting, Submitted, SubmitterAt, PdfAt
<1>33. CASE UNCHANGED vars
  BY <1>33 DEF vars, StreamInv, TypeOK, FinishTypeOK, ThreadTypeOK, RunTypes, GateKept,
     AdmissionKept, Over, Resolved, PartsOpen, LegOpen, RunOpen, Scheduler!Live, Legs,
     RouteStates, Submitting, Submitted, SubmitterAt, PdfAt
<1> QED BY StepCases, <1>1, <1>2, <1>3, <1>4, <1>5, <1>6, <1>7, <1>8, <1>9, <1>10, <1>11, <1>12,
    <1>13, <1>14, <1>15, <1>16, <1>17, <1>18, <1>19, <1>20, <1>21, <1>22, <1>23, <1>24, <1>25,
    <1>26, <1>27, <1>28, <1>29, <1>30, <1>31, <1>32, <1>33

----------------------------------------------------------------------------
(* What a pump and a part's end add to what is to be written. *)

\* A pump that adds nothing, and one after a write, leave what is to be written.
LEMMA PumpStill ==
  ASSUME StreamInv, wire \in Seq(EventType), NEW requested,
         \/ pump(events, write_in_flight, requested)
         \/ write_in_flight /\ pump(Tail(events), FALSE, requested)
         \/ UNCHANGED <<events, wire>>
  PROVE  Outgoing' = Outgoing /\ wire' \in Seq(EventType)
<1>0. events \in Seq(EventType) /\ write_in_flight = (events # <<>>)
  BY DEF StreamInv, TypeOK, QueueTypeOK
<1>1. CASE pump(events, write_in_flight, requested)
  <2>1. events \o <<>> = events /\ <<>> \in Seq(EventType) BY <1>0
  <2>2. Outgoing' = Outgoing \o <<>> /\ Outgoing \in Seq(EventType) /\ wire' \in Seq(EventType)
    BY <1>1, <2>1, PumpJoins
  <2> QED BY <2>2
<1>2. CASE write_in_flight /\ pump(Tail(events), FALSE, requested)
  <2>a. write_in_flight BY <1>2
  <2>b. events # <<>> BY <1>0, <2>a
  <2>0. events # <<>> /\ Tail(events) \in Seq(EventType) BY <1>0, <2>b
  <2>1. CASE Tail(events) = <<>>
    <3>1. events' = <<>> /\ wire' = wire BY <1>2, <2>1 DEF pump
    <3>2. wire \o Tail(events) = wire
      <4>1. wire \o <<>> = wire OBVIOUS
      <4> QED BY <2>1, <4>1
    <3> QED BY <2>0, <3>1, <3>2 DEF Outgoing
  <2>2. CASE Tail(events) # <<>>
    <3>1. events' = Tail(events) /\ wire' = Append(wire, Head(Tail(events)))
      BY <1>2, <2>2 DEF pump
    <3>2. PICK q \in Seq(EventType) : q = Tail(events) BY <2>0
    <3>3. q # <<>> BY <2>2, <3>2
    <3>4. /\ Append(wire, Head(q)) \o Tail(q) = wire \o q
          /\ Append(wire, Head(q)) \in Seq(EventType)
      BY <3>3
    <3> QED BY <2>0, <2>2, <3>1, <3>2, <3>4 DEF Outgoing
  <2> QED BY <2>1, <2>2
<1>3. CASE UNCHANGED <<events, wire>> BY <1>3 DEF Outgoing
<1> QED BY <1>1, <1>2, <1>3

\* The part's events are queued, and the call is not finished as OK.
Joined(r) ==
  /\ Outgoing' = Outgoing \o r
  /\ ~finish_requested /\ finish_requested' => finish_status' # "OK"

\* The part's events are queued and the last part completes the call.
Completed(r, settled) ==
  /\ ~finish_requested /\ finish_requested' /\ finish_status' = "OK"
  /\ succeeded_parts' > 0 /\ pending_parts <= 1
  /\ \E with \in BOOLEAN :
       Outgoing' = (Outgoing \o r) \o (FoldDelta(settled, with) \o <<Complete>>)

\* The repair for the streamed pages and the complete event are events.
LEMMA FoldDeltaTyped ==
  ASSUME NEW settled, NEW with
  PROVE  /\ FoldDelta(settled, with) \in Seq(EventType) /\ <<Complete>> \in Seq(EventType)
         /\ FoldDelta(settled, with) \o <<Complete>> \in Seq(EventType)
<1>1. \A c \in {"cv", "pdf"} : <<Repair(c)>> \in Seq(EventType)
  BY Kinds DEF Collectors
<1>2. <<Complete>> \in Seq(EventType) BY Kinds
<1>3. FoldDelta(settled, with) \in Seq(EventType) BY <1>1 DEF FoldDelta
<1> QED BY <1>2, <1>3

\* part_done() adds the part's events, and completes the call after the last
\* part when one has succeeded.
LEMMA PartDoneJoins ==
  ASSUME StreamInv, wire \in Seq(EventType), NEW r \in Seq(EventType), NEW settled,
         part_done(events \o r, settled), succeeded_parts' \in Nat
  PROVE  /\ Joined(r) \/ Completed(r, settled)
         /\ wire' \in Seq(EventType)
<1>0. events \in Seq(EventType) /\ pending_parts \in Nat
  BY DEF StreamInv, TypeOK, QueueTypeOK, FinishTypeOK
<1> DEFINE left == IF pending_parts > 0 THEN pending_parts - 1 ELSE 0
           last == left = 0 /\ ~finish_requested
           done == last /\ succeeded_parts' > 0
<1>1. PICK with \in BOOLEAN :
        pump(IF done THEN (events \o r) \o FoldDelta(settled, with) \o <<Complete>> ELSE events \o r,
             write_in_flight, finish_requested')
  BY DEF part_done
<1>2. IF ~last THEN NoFinish ELSE request_finish(IF done THEN "OK" ELSE FirstFailure)
  BY DEF part_done
<1>3. left = 0 => pending_parts <= 1 BY <1>0
<1>4. CASE done
  <2> DEFINE d == FoldDelta(settled, with)
             m == <<Complete>>
  <2>1. d \in Seq(EventType) /\ m \in Seq(EventType) /\ d \o m \in Seq(EventType)
    BY FoldDeltaTyped
  <2>2. pump(((events \o r) \o d) \o m, write_in_flight, finish_requested') BY <1>1, <1>4
  <2>3. finish_requested' /\ finish_status' = "OK"
    <3>1. ~finish_requested => finish_status = "OK" BY DEF StreamInv, TicketsKept
    <3> QED BY <1>2, <1>4, <3>1 DEF request_finish
  <2> HIDE DEF d, m
  <2>4. ((events \o r) \o d) \o m = events \o (r \o (d \o m)) /\ r \o (d \o m) \in Seq(EventType)
    <3>1. r \o d \in Seq(EventType) /\ events \o r \in Seq(EventType) BY <1>0, <2>1
    <3>2. Regroups(events, r, d \o m) /\ Regroups(events \o r, d, m)
      BY <1>0, <2>1, <3>1, Regrouping
    <3>3. r \o (d \o m) \in Seq(EventType) BY <2>1
    <3> QED BY <3>2, <3>3 DEF Regroups
  <2>5. /\ Outgoing \in Seq(EventType) /\ Outgoing' = Outgoing \o (r \o (d \o m))
        /\ wire' \in Seq(EventType)
    <3>1. pump(events \o (r \o (d \o m)), write_in_flight, finish_requested') BY <2>2, <2>4
    <3> QED BY <2>4, <3>1, PumpJoins
  <2>6. Outgoing \o (r \o (d \o m)) = (Outgoing \o r) \o (d \o m)
    <3>1. Regroups(Outgoing, r, d \o m) BY <2>1, <2>5, Regrouping
    <3> QED BY <3>1 DEF Regroups
  <2> QED BY <1>3, <1>4, <2>3, <2>5, <2>6 DEF Completed, d, m
<1>5. CASE ~done
  <2>1. pump(events \o r, write_in_flight, finish_requested') BY <1>1, <1>5
  <2>2. Outgoing' = Outgoing \o r /\ wire' \in Seq(EventType) BY <2>1, PumpJoins
  <2>3. ~finish_requested /\ finish_requested' => finish_status' # "OK"
    <3>1. ~finish_requested => ~finish_started BY DEF StreamInv, TicketsKept
    <3>2. FirstFailure # "OK" BY DEF FirstFailure
    <3> QED BY <1>2, <1>5, <3>1, <3>2 DEF request_finish, Overrides, NoFinish
  <2> QED BY <2>2, <2>3 DEF Joined
<1> QED BY <1>4, <1>5

\* The last part, when none has succeeded, fails the call.
LEMMA PartDoneFails ==
  ASSUME StreamInv, NEW q, NEW settled, part_done(q, settled),
         ~finish_requested, pending_parts <= 1, ~(succeeded_parts' > 0)
  PROVE  ~Unfailed'
<1>1. pending_parts \in Nat /\ ~finish_started
  BY DEF StreamInv, TypeOK, FinishTypeOK, TicketsKept
<1>2. request_finish(FirstFailure) BY <1>1 DEF part_done
<1>3. FirstFailure # "OK" BY DEF FirstFailure
<1> QED BY <1>1, <1>2, <1>3 DEF request_finish, Overrides, Unfailed

\* The marks of s agree with where the parts are after the step.
MarkedAfter(s) ==
  /\ Has(s, Complete) => Over'
  /\ \A c \in Collectors : Has(s, Document(c)) => c \in Legs /\ leg'[c] = "done"
  /\ \A c \in Collectors : Has(s, Repair(c)) => Over' \/ (c \in Legs /\ leg'[c] = "done")
  /\ plan' = {"pdf"} /\ (Has(s, Document("pdf")) \/ Has(s, Repair("pdf"))) => Over'

\* What was to be written keeps agreeing with the parts.
LEMMA MarksOnward ==
  ASSUME StreamInv, TypeOK', OrderKept, [Next]_vars
  PROVE  MarkedAfter(Outgoing)
<1>1. ThreadsOnward BY ThreadsStep
<1>2. Over => Over' BY OverStep
<1>3. \A c \in Legs : leg[c] = "done" => leg'[c] = "done" BY <1>1 DEF ThreadsOnward
<1>4. ASSUME plan' = {"pdf"}, Has(Outgoing, Document("pdf")) \/ Has(Outgoing, Repair("pdf"))
      PROVE  Over'
  <2>1. Over \/ ("pdf" \in Legs /\ leg["pdf"] = "done") BY <1>4 DEF OrderKept, Collectors
  <2>2. CASE ~Over
    <3>1. Resolved BY <2>1, <2>2 DEF StreamInv, GateKept, Resolved
    <3>2. plan = {"pdf"} BY <1>1, <1>4, <3>1 DEF ThreadsOnward
    <3> QED BY <1>2, <1>4, <3>2 DEF OrderKept
  <2> QED BY <1>2, <2>2
<1>5. Has(Outgoing, Complete) => Over' BY <1>2 DEF OrderKept
<1>6. \A c \in Collectors : Has(Outgoing, Document(c)) => c \in Legs /\ leg'[c] = "done"
  BY <1>3 DEF OrderKept
<1>7. \A c \in Collectors : Has(Outgoing, Repair(c)) => Over' \/ (c \in Legs /\ leg'[c] = "done")
  BY <1>2, <1>3 DEF OrderKept
<1> QED BY <1>4, <1>5, <1>6, <1>7 DEF MarkedAfter

\* The queue's order is kept by what follows it.
LEMMA OrderFrom ==
  ASSUME wire' \in Seq(EventType), Ordered(Outgoing'), MarkedAfter(Outgoing'),
         Intact' => Streamed(Outgoing') = next_page' - 1
  PROVE  OrderKept'
BY DEF OrderKept, MarkedAfter

\* A sequence streams a number of pages.
LEMMA StreamedNat == ASSUME NEW s \in Seq(EventType) PROVE Streamed(s) \in Nat
<1>1. Len(s) \in Nat OBVIOUS
<1> QED BY <1>1, StreamedFinite DEF Streamed

\* Complete, and a repair before it, may follow the last part.
LEMMA CompleteFollows ==
  ASSUME NEW s \in Seq(EventType), Ordered(s), NEW settled, NEW with \in BOOLEAN,
         ~Has(s, Complete), ~Has(s, Repair("cv")), ~Has(s, Document("cv")),
         ~fold_empty /\ ~settled /\ ~fold_has_cv => ~Has(s, Repair("pdf")) /\ ~Has(s, Document("pdf"))
  PROVE  LET u == s \o (FoldDelta(settled, with) \o <<Complete>>) IN
         /\ u \in Seq(EventType) /\ Ordered(u) /\ Streamed(u) = Streamed(s)
         /\ Has(u, Complete)
         /\ \A c \in Collectors :
              /\ Has(u, Document(c)) <=> Has(s, Document(c))
              /\ Has(u, Repair(c)) /\ ~Has(s, Repair(c)) => ~fold_empty
<1> DEFINE r == IF fold_has_cv THEN "cv" ELSE "pdf"
<1>0. r \in Collectors /\ Repair(r) \in EventType /\ Mark(Repair(r)) /\ Repair(r) # Complete
      /\ ~OneAtATime(Repair(r))
  <2>1. r \in Collectors BY DEF Collectors
  <2> HIDE DEF r
  <2> QED BY <2>1, Kinds
<1>c. Complete \in EventType /\ Mark(Complete) /\ ~OneAtATime(Complete)
  <2>1. PICK c \in Collectors : TRUE BY DEF Collectors
  <2> QED BY <2>1, Kinds
<1>1. CASE FoldDelta(settled, with) = <<>>
  <2>1. FoldDelta(settled, with) \o <<Complete>> = <<Complete>>
    BY <1>1, <1>c
  <2>2. Follows(s, Complete) BY <1>c, Kinds DEF Follows
  <2>3. /\ s \o <<Complete>> \in Seq(EventType) /\ Ordered(s \o <<Complete>>)
        /\ Streamed(s \o <<Complete>>) = Streamed(s) + (IF OneAtATime(Complete) THEN 1 ELSE 0)
        /\ \A x : Has(s \o <<Complete>>, x) <=> Has(s, x) \/ x = Complete
    BY <1>c, <2>2, OneFollows
  <2>4. Streamed(s) \in Nat BY StreamedNat
  <2>5. Streamed(s \o <<Complete>>) = Streamed(s) BY <1>c, <2>3, <2>4
  <2>6. \A c \in Collectors : Document(c) # Complete /\ Repair(c) # Complete BY Kinds
  <2> QED BY <2>1, <2>3, <2>5, <2>6
<1>2. CASE FoldDelta(settled, with) # <<>>
  <2>0. ~fold_empty /\ ~settled /\ FoldDelta(settled, with) = <<Repair(r)>>
    BY <1>2 DEF FoldDelta
  <2>1. ~Has(s, Repair(r)) /\ ~Has(s, Document(r)) BY <2>0
  <2> DEFINE q == s \o <<Repair(r)>>
  <2> HIDE DEF r
  <2>2. Follows(s, Repair(r))
    <3>1. \A c \in Collectors : Repair(r) = Repair(c) => c = r BY <1>0, Kinds
    <3>2. \A c \in Collectors : ~PageOf(Repair(r), c) BY <1>0, Kinds
    <3> QED BY <1>0, <2>1, <3>1, <3>2 DEF Follows
  <2>3. /\ q \in Seq(EventType) /\ Ordered(q)
        /\ Streamed(q) = Streamed(s) + (IF OneAtATime(Repair(r)) THEN 1 ELSE 0)
        /\ \A x : Has(q, x) <=> Has(s, x) \/ x = Repair(r)
    BY <1>0, <2>2, OneFollows
  <2> HIDE DEF q
  <2>4. Follows(q, Complete)
    <3>1. \A c \in Collectors : ~PageOf(Complete, c) /\ Complete # Repair(c) BY <1>c, Kinds
    <3>2. ~Has(q, Complete) BY <1>0, <2>3
    <3> QED BY <1>c, <3>1, <3>2 DEF Follows
  <2>5. /\ q \o <<Complete>> \in Seq(EventType) /\ Ordered(q \o <<Complete>>)
        /\ Streamed(q \o <<Complete>>) = Streamed(q) + (IF OneAtATime(Complete) THEN 1 ELSE 0)
        /\ \A x : Has(q \o <<Complete>>, x) <=> Has(q, x) \/ x = Complete
    BY <1>c, <2>3, <2>4, OneFollows
  <2>6. q \o <<Complete>> = s \o (FoldDelta(settled, with) \o <<Complete>>)
    <3>1. <<Repair(r)>> \in Seq(EventType) /\ <<Complete>> \in Seq(EventType) BY <1>0, <1>c
    <3>2. Regroups(s, <<Repair(r)>>, <<Complete>>) BY <3>1, Regrouping
    <3>3. q \o <<Complete>> = s \o (<<Repair(r)>> \o <<Complete>>)
      BY <3>2 DEF Regroups, q
    <3> QED BY <2>0, <3>3
  <2>7. Streamed(s) \in Nat BY StreamedNat
  <2>8. Streamed(q \o <<Complete>>) = Streamed(s) BY <1>0, <1>c, <2>3, <2>5, <2>7
  <2>9. \A c \in Collectors : Document(c) # Repair(r) /\ Document(c) # Complete BY <1>0, Kinds
  <2> QED BY <2>0, <2>3, <2>5, <2>6, <2>8, <2>9
<1> QED BY <1>1, <1>2

\* What a part whose Document arrived adds.
DocumentTail(c, k, streamed, changed) ==
  LET pages   == IF streamed THEN <<>> ELSE [p \in 1..k |-> ProjectedPage(c, p)]
      settles == streamed /\ ~fold_has_cv /\ ~fold_settled
  IN pages \o ((IF changed /\ (settles \/ pages # <<>>) THEN <<Repair(c)>> ELSE <<>>)
                 \o <<Document(c)>>)

\* u is s and c's Document after it.
DocumentAfter(s, u, c) ==
  /\ u \in Seq(EventType) /\ Ordered(u) /\ Streamed(u) = Streamed(s)
  /\ \A x : Mark(x) => (Has(u, x) => Has(s, x) \/ x = Document(c) \/ x = Repair(c))
  /\ \A x : Mark(x) => (Has(s, x) \/ x = Document(c) => Has(u, x))

\* A Document and its pages may follow while the leg has not landed.
LEMMA DocumentFollows ==
  ASSUME NEW s \in Seq(EventType), Ordered(s), NEW c \in Legs, NEW k \in Nat,
         NEW streamed \in BOOLEAN, NEW changed \in BOOLEAN,
         NEW t, t = DocumentTail(c, k, streamed, changed),
         ~Has(s, Complete), ~Has(s, Repair(c)), ~Has(s, Document(c))
  PROVE  t \in Seq(EventType) /\ DocumentAfter(s, s \o t, c)
<1> DEFINE pages == IF streamed THEN <<>> ELSE [p \in 1..k |-> ProjectedPage(c, p)]
           settles == streamed /\ ~fold_has_cv /\ ~fold_settled
           rep == IF changed /\ (settles \/ pages # <<>>) THEN <<Repair(c)>> ELSE <<>>
           d == <<Document(c)>>
<1>0. c \in Collectors BY DEF Legs, Collectors
<1>k. /\ Repair(c) \in EventType /\ Document(c) \in EventType
      /\ Mark(Repair(c)) /\ Mark(Document(c)) /\ Repair(c) # Complete /\ Document(c) # Complete
      /\ ~OneAtATime(Repair(c)) /\ ~OneAtATime(Document(c)) /\ Repair(c) # Document(c)
  BY <1>0, Kinds
<1>p. /\ pages \in Seq(EventType)
      /\ \A i \in 1..Len(pages) : pages[i].kind = "page" /\ pages[i].from = c
  <2>1. CASE streamed BY <2>1
  <2>2. CASE ~streamed
    <3>1. \A p \in Nat : ProjectedPage(c, p) \in EventType /\ ProjectedPage(c, p).kind = "page"
                         /\ ProjectedPage(c, p).from = c
      BY <1>0 DEF ProjectedPage, Event, EventType
    <3>2. pages = [p \in 1..k |-> ProjectedPage(c, p)] BY <2>2
    <3>3. pages \in Seq(EventType) /\ Len(pages) = k BY <3>1, <3>2
    <3> QED BY <3>1, <3>2, <3>3
  <2> QED BY <2>1, <2>2
<1>r. rep = <<>> \/ rep = <<Repair(c)>> OBVIOUS
<1>t. t = pages \o (rep \o d) BY DEF DocumentTail
<1> HIDE DEF pages, settles, rep
<1>1. \A i \in 1..Len(pages) : ~OneAtATime(pages[i]) /\ pages[i].kind = "page"
  BY <1>p DEF OneAtATime, Legs
<1>2. \A x \in Collectors, i \in 1..Len(pages) : Has(s, Repair(x)) => ~PageOf(pages[i], x)
  BY <1>p DEF PageOf, Legs
<1>3. /\ s \o pages \in Seq(EventType) /\ Ordered(s \o pages)
      /\ Streamed(s \o pages) = Streamed(s)
      /\ \A x : Mark(x) => (Has(s \o pages, x) <=> Has(s, x))
  BY <1>p, <1>1, <1>2, ProjectedFollow
<1>4. PICK q : q = s \o pages OBVIOUS
<1>5. ~Has(q, Complete) /\ ~Has(q, Repair(c)) /\ ~Has(q, Document(c))
  <2>1. Mark(Complete) BY <1>0, Kinds
  <2> QED BY <1>k, <1>3, <1>4, <2>1
<1>6. /\ q \o rep \in Seq(EventType) /\ Ordered(q \o rep) /\ rep \in Seq(EventType)
      /\ Streamed(q \o rep) = Streamed(q)
      /\ \A x : Has(q \o rep, x) => Has(q, x) \/ x = Repair(c)
      /\ \A x : Has(q, x) => Has(q \o rep, x)
  <2>1. CASE rep = <<>>
    <3>1. q \o rep = q BY <1>3, <1>4, <2>1
    <3> QED BY <1>3, <1>4, <2>1, <3>1
  <2>2. CASE rep = <<Repair(c)>>
    <3>1. Follows(q, Repair(c))
      <4>1. \A x \in Collectors : ~PageOf(Repair(c), x) /\ (Repair(c) = Repair(x) => x = c)
        BY <1>0, <1>k, Kinds
      <4> QED BY <1>5, <1>k, <4>1 DEF Follows
    <3>0. q \in Seq(EventType) /\ Ordered(q) BY <1>3, <1>4
    <3>2. Streamed(q) \in Nat BY <3>0, StreamedNat
    <3>3. /\ q \o <<Repair(c)>> \in Seq(EventType) /\ Ordered(q \o <<Repair(c)>>)
          /\ Streamed(q \o <<Repair(c)>>) = Streamed(q) + (IF OneAtATime(Repair(c)) THEN 1 ELSE 0)
          /\ \A x : Has(q \o <<Repair(c)>>, x) <=> Has(q, x) \/ x = Repair(c)
      BY <3>0, <1>k, <3>1, OneFollows
    <3> QED BY <1>k, <2>2, <3>2, <3>3
  <2> QED BY <1>r, <2>1, <2>2
<1>7. PICK w : w = q \o rep OBVIOUS
<1>8. /\ w \o d \in Seq(EventType) /\ Ordered(w \o d)
      /\ Streamed(w \o d) = Streamed(w)
      /\ \A x : Has(w \o d, x) <=> Has(w, x) \/ x = Document(c)
  <2>1. Follows(w, Document(c))
    <3>1. \A x \in Collectors : ~PageOf(Document(c), x) /\ Document(c) # Repair(x)
      BY <1>0, <1>k, Kinds
    <3>2. ~Has(w, Complete) BY <1>5, <1>6, <1>7, <1>k
    <3> QED BY <1>k, <3>1, <3>2 DEF Follows
  <2>0. w \in Seq(EventType) /\ Ordered(w) BY <1>6, <1>7
  <2>2. Streamed(w) \in Nat BY <2>0, StreamedNat
  <2>3. /\ w \o <<Document(c)>> \in Seq(EventType) /\ Ordered(w \o <<Document(c)>>)
        /\ Streamed(w \o <<Document(c)>>) = Streamed(w) + (IF OneAtATime(Document(c)) THEN 1 ELSE 0)
        /\ \A x : Has(w \o <<Document(c)>>, x) <=> Has(w, x) \/ x = Document(c)
    BY <2>0, <1>k, <2>1, OneFollows
  <2> QED BY <1>k, <2>2, <2>3
<1>9. d \in Seq(EventType) BY <1>k
<1> HIDE DEF d
<1>10. rep \o d \in Seq(EventType) /\ pages \o (rep \o d) \in Seq(EventType)
  BY <1>6, <1>9, <1>p
<1>11. w \o d = s \o (pages \o (rep \o d))
  <2>0. q \in Seq(EventType) /\ rep \in Seq(EventType) BY <1>3, <1>4, <1>6
  <2>1. Regroups(q, rep, d) BY <2>0, <1>9, Regrouping
  <2>2. Regroups(s, pages, rep \o d) BY <1>p, <1>10, Regrouping
  <2> QED BY <1>4, <1>7, <2>1, <2>2 DEF Regroups
<1>12. \A x : Mark(x) => (Has(w \o d, x) => Has(s, x) \/ x = Document(c) \/ x = Repair(c))
  BY <1>3, <1>4, <1>6, <1>7, <1>8
<1>13. \A x : Mark(x) => (Has(s, x) \/ x = Document(c) => Has(w \o d, x))
  BY <1>3, <1>4, <1>6, <1>7, <1>8
<1>14. Streamed(w \o d) = Streamed(s) BY <1>3, <1>4, <1>6, <1>7, <1>8
<1>15. PICK u : u = w \o d OBVIOUS
<1>16. t = pages \o (rep \o d) BY <1>t DEF d
<1> QED BY <1>8, <1>10, <1>11, <1>12, <1>13, <1>14, <1>15, <1>16 DEF DocumentAfter

----------------------------------------------------------------------------
(* What is to be written stays in order. *)

\* A call that is completed has no part open.
LEMMA CompletedOver ==
  ASSUME StreamInv', finish_requested', finish_status' = "OK"
  PROVE  Over'
BY DEF StreamInv, PartsKept, TicketsKept, Over, Resolved

\* An open leg, and a CV part that is not settled, keep the plan open.
LEMMA OpenParts ==
  /\ \A c \in Legs : leg[c] \notin {"idle", "done", "ticket"} => ~Over
  /\ "cv" \in plan /\ process \in {"origin", "launch", "submit"} => ~Over
  /\ Scheduler!Live(Run) => ~Over
BY DEF Over, PartsOpen, LegOpen, RunOpen, Legs

\* A step that adds nothing and moves no page.
LEMMA OrderStill ==
  ASSUME StreamInv, TypeOK', OrderKept, [Next]_vars,
         Outgoing' = Outgoing, wire' \in Seq(EventType), next_page' = next_page
  PROVE  OrderKept'
<1>1. MarkedAfter(Outgoing) BY MarksOnward
<1>2. Intact' => Intact BY StatusStep DEF StatusOnward
<1> QED BY <1>1, <1>2, OrderFrom DEF OrderKept

\* A step that lands a part with nothing to say.
LEMMA OrderEnds ==
  ASSUME StreamInv, StreamInv', OrderKept, RouteKept, [Next]_vars, ~Over,
         part_done(events, fold_settled), next_page' = next_page
  PROVE  OrderKept'
<1>0. /\ wire \in Seq(EventType) /\ events \in Seq(EventType) /\ succeeded_parts' \in Nat
      /\ TypeOK'
  BY DEF OrderKept, StreamInv, TypeOK, QueueTypeOK, FinishTypeOK
<1>1. events \o <<>> = events /\ <<>> \in Seq(EventType) BY <1>0
<1>2. /\ Joined(<<>>) \/ Completed(<<>>, fold_settled)
      /\ wire' \in Seq(EventType)
  BY <1>0, <1>1, PartDoneJoins
<1>o. Outgoing \in Seq(EventType) /\ Outgoing \o <<>> = Outgoing
  <2>1. Outgoing \in Seq(EventType) BY <1>0, <1>1 DEF Outgoing
  <2> QED BY <2>1
<1>3. CASE Joined(<<>>)
  <2>1. Outgoing' = Outgoing BY <1>3, <1>o DEF Joined
  <2> QED BY <1>0, <1>2, <2>1, OrderStill
<1>4. CASE Completed(<<>>, fold_settled)
  <2>1. PICK with \in BOOLEAN :
          Outgoing' = Outgoing \o (FoldDelta(fold_settled, with) \o <<Complete>>)
    BY <1>4, <1>o DEF Completed
  <2>2. Over' BY <1>4, CompletedOver DEF Completed
  <2>3. ~Has(Outgoing, Complete) /\ ~Has(Outgoing, Repair("cv")) /\ ~Has(Outgoing, Document("cv"))
    BY DEF OrderKept, Collectors, Legs
  <2>4. ~fold_empty /\ ~fold_settled /\ ~fold_has_cv =>
          ~Has(Outgoing, Repair("pdf")) /\ ~Has(Outgoing, Document("pdf"))
    BY DEF RouteKept, OrderKept
  <2> DEFINE u == Outgoing \o (FoldDelta(fold_settled, with) \o <<Complete>>)
  <2>5. Ordered(Outgoing) BY DEF OrderKept
  <2>6. /\ u \in Seq(EventType) /\ Ordered(u) /\ Streamed(u) = Streamed(Outgoing)
        /\ Has(u, Complete)
        /\ \A c \in Collectors :
             /\ Has(u, Document(c)) <=> Has(Outgoing, Document(c))
             /\ Has(u, Repair(c)) /\ ~Has(Outgoing, Repair(c)) => ~fold_empty
    BY <1>o, <2>3, <2>4, <2>5, CompleteFollows
  <2> HIDE DEF u
  <2>7. MarkedAfter(Outgoing) BY <1>0, MarksOnward
  <2>8. MarkedAfter(u) BY <2>2, <2>6, <2>7 DEF MarkedAfter
  <2>9. Intact' => Intact BY StatusStep DEF StatusOnward
  <2>10. Outgoing' = u BY <2>1 DEF u
  <2>11. Intact' => Streamed(Outgoing') = next_page' - 1 BY <2>6, <2>9, <2>10 DEF OrderKept
  <2> QED BY <1>2, <2>6, <2>8, <2>10, <2>11, OrderFrom
<1> QED BY <1>2, <1>3, <1>4

\* A Document that arrives lands its part with its tail.
LEMMA ArrivedTail ==
  ASSUME StreamInv, NEW c \in Legs, NEW k \in Nat, NEW streamed \in BOOLEAN,
         DocumentArrived(c, k, streamed)
  PROVE  \E changed \in BOOLEAN :
           /\ DocumentTail(c, k, streamed, changed) \in Seq(EventType)
           /\ part_done(events \o DocumentTail(c, k, streamed, changed),
                        fold_settled \/ (streamed /\ ~fold_has_cv /\ ~fold_settled))
<1>0. events \in Seq(EventType) BY DEF StreamInv, TypeOK, QueueTypeOK
<1>c. c \in Collectors BY DEF Legs, Collectors
<1> DEFINE settles == streamed /\ ~fold_has_cv /\ ~fold_settled
           settled == fold_settled \/ settles
           pages == IF streamed THEN <<>> ELSE [p \in 1..k |-> ProjectedPage(c, p)]
           d == <<Document(c)>>
<1>1. PICK changed \in BOOLEAN :
        part_done(events \o pages
            \o (IF changed /\ (settles \/ pages # <<>>) THEN <<Repair(c)>> ELSE <<>>) \o d,
          settled)
  BY DEF DocumentArrived, PartSucceeded
<1>2. PICK rep : rep = IF changed /\ (settles \/ pages # <<>>) THEN <<Repair(c)>> ELSE <<>>
  OBVIOUS
<1>3. DocumentTail(c, k, streamed, changed) = pages \o (rep \o d) BY <1>2 DEF DocumentTail
<1>4. part_done(events \o pages \o rep \o d, settled) BY <1>1, <1>2
<1>5. pages \in Seq(EventType) /\ rep \in Seq(EventType) /\ d \in Seq(EventType)
  <2>1. \A p \in Nat : ProjectedPage(c, p) \in EventType BY <1>c, Kinds
  <2>2. [p \in 1..k |-> ProjectedPage(c, p)] \in Seq(EventType) BY <2>1
  <2>3. Repair(c) \in EventType /\ Document(c) \in EventType BY <1>c, Kinds
  <2> QED BY <1>2, <2>2, <2>3
<1> HIDE DEF pages, d, settled
<1>6. events \o pages \o rep \o d = events \o (pages \o (rep \o d))
  <2>1. rep \o d \in Seq(EventType) /\ events \o pages \in Seq(EventType) BY <1>0, <1>5
  <2>2. Regroups(events \o pages, rep, d) /\ Regroups(events, pages, rep \o d)
    BY <1>0, <1>5, <2>1, Regrouping
  <2> QED BY <2>2 DEF Regroups
<1>7. pages \o (rep \o d) \in Seq(EventType) BY <1>5
<1> QED BY <1>1, <1>3, <1>4, <1>6, <1>7 DEF settled, settles

\* A step that delivers a Document.
LEMMA OrderLands ==
  ASSUME StreamInv, StreamInv', OrderKept, RouteKept, EndKept', [Next]_vars,
         NEW c \in Legs, NEW k \in Nat, NEW streamed \in BOOLEAN,
         leg[c] \in {"running", "deliver_ok"}, leg'[c] = "done",
         streamed = (leg[c] = "deliver_ok" /\ pdf_streamed > 0),
         DocumentArrived(c, k, streamed)
  PROVE  OrderKept'
<1>0. /\ wire \in Seq(EventType) /\ events \in Seq(EventType) /\ succeeded_parts' \in Nat
      /\ succeeded_parts \in Nat /\ TypeOK'
  BY DEF OrderKept, StreamInv, TypeOK, QueueTypeOK, FinishTypeOK
<1>c. c \in Collectors BY DEF Legs, Collectors
<1>v. ~Over BY OpenParts
<1>n. next_page' = next_page /\ succeeded_parts' = succeeded_parts + 1
  BY DEF DocumentArrived, PartSucceeded
<1> DEFINE settles == streamed /\ ~fold_has_cv /\ ~fold_settled
           settled == fold_settled \/ settles
<1>o. Outgoing \in Seq(EventType) BY <1>0 DEF Outgoing
<1>m. ~Has(Outgoing, Complete) /\ ~Has(Outgoing, Repair(c)) /\ ~Has(Outgoing, Document(c))
  BY <1>c, <1>v DEF OrderKept
<1>1. PICK changed \in BOOLEAN :
        part_done(events \o DocumentTail(c, k, streamed, changed), settled)
  BY ArrivedTail
<1> DEFINE t == DocumentTail(c, k, streamed, changed)
           s == Outgoing \o t
<1>2. t \in Seq(EventType) /\ DocumentAfter(Outgoing, s, c)
  <2>1. Ordered(Outgoing) BY DEF OrderKept
  <2>2. t = DocumentTail(c, k, streamed, changed) OBVIOUS
  <2>3. changed \in BOOLEAN BY <1>1
  <2> HIDE DEF t
  <2> QED BY <1>o, <1>m, <2>1, <2>2, <2>3, DocumentFollows
<1> HIDE DEF t, settled, settles
<1>3. /\ Joined(t) \/ Completed(t, settled)
      /\ wire' \in Seq(EventType)
  BY <1>0, <1>1, <1>2, PartDoneJoins DEF t
<1> HIDE DEF s
<1>4. \A x \in Collectors : /\ Mark(Document(x)) /\ Mark(Repair(x)) /\ Mark(Complete)
                            /\ Document(c) # Repair(x) /\ Repair(c) # Document(x)
                            /\ (Document(x) = Document(c) => x = c)
                            /\ (Repair(x) = Repair(c) => x = c)
                            /\ Complete # Document(x) /\ Complete # Repair(x)
  BY <1>c, Kinds
<1>5. MarkedAfter(s)
  <2>1. MarkedAfter(Outgoing) BY <1>0, MarksOnward
  <2>2. Has(s, Complete) => Has(Outgoing, Complete) BY <1>2, <1>4, <1>c DEF DocumentAfter
  <2>3. \A x \in Collectors : /\ Has(s, Document(x)) => Has(Outgoing, Document(x)) \/ x = c
                              /\ Has(s, Repair(x)) => Has(Outgoing, Repair(x)) \/ x = c
    BY <1>2, <1>4 DEF DocumentAfter
  <2>4. plan' = {"pdf"} /\ c = "pdf" => Over'
    <3>1. leg["pdf"] # "idle" /\ c = "pdf" => Resolved
      BY DEF StreamInv, GateKept, Resolved, Legs
    <3>2. c = "pdf" => Resolved' BY <3>1, ThreadsStep, <1>0 DEF ThreadsOnward
    <3>3. plan' = {"pdf"} => succeeded_parts' + PartsOpen' <= 1 BY DEF EndKept, Alone
    <3>4. PartsOpen' \in Nat BY DEF PartsOpen, LegOpen, RunOpen
    <3>6. succeeded_parts \in Nat BY <1>0
    <3>7. PICK n \in Nat : n = PartsOpen' BY <3>4
    <3>8. plan' = {"pdf"} => succeeded_parts + 1 + n <= 1 BY <1>n, <3>3, <3>7
    <3>9. succeeded_parts + 1 + n <= 1 => n = 0 BY <3>6
    <3>5. plan' = {"pdf"} => n = 0 BY <3>8, <3>9
    <3> QED BY <3>2, <3>5, <3>7 DEF Over
  <2>5. c = "leg" => ~(Has(s, Document("pdf")) /\ ~Has(Outgoing, Document("pdf")))
                     /\ ~(Has(s, Repair("pdf")) /\ ~Has(Outgoing, Repair("pdf")))
    BY <2>3 DEF Collectors
  <2>6. plan' = {"pdf"} /\ (Has(s, Document("pdf")) \/ Has(s, Repair("pdf"))) => Over'
    BY <2>1, <2>4, <2>5 DEF MarkedAfter, Legs
  <2> QED BY <2>1, <2>2, <2>3, <2>6 DEF MarkedAfter
<1>6. Intact' => Streamed(s) = next_page' - 1
  <2>1. Intact' => Intact BY StatusStep DEF StatusOnward
  <2> QED BY <1>2, <1>n, <2>1 DEF OrderKept, DocumentAfter
<1>7. CASE Joined(t)
  <2>1. Outgoing' = s BY <1>7 DEF Joined, s
  <2> QED BY <1>2, <1>3, <1>5, <1>6, <2>1, OrderFrom DEF DocumentAfter
<1>8. CASE Completed(t, settled)
  <2>1. PICK with \in BOOLEAN :
          Outgoing' = s \o (FoldDelta(settled, with) \o <<Complete>>)
    BY <1>8 DEF Completed, s
  <2>2. Over' BY <1>8, CompletedOver DEF Completed
  <2>3. ~Has(s, Complete) /\ ~Has(s, Repair("cv")) /\ ~Has(s, Document("cv"))
    <3>1. /\ ~Has(Outgoing, Complete) /\ ~Has(Outgoing, Repair("cv"))
          /\ ~Has(Outgoing, Document("cv"))
      BY <1>v DEF OrderKept, Collectors, Legs
    <3>2. c # "cv" /\ "cv" \in Collectors BY DEF Legs, Collectors
    <3>3. Mark(Complete) /\ Mark(Repair("cv")) /\ Mark(Document("cv")) BY <1>4, <3>2
    <3>4. Complete # Document(c) /\ Complete # Repair(c) BY <1>4, <1>c
    <3>5. /\ Repair("cv") # Document(c) /\ Repair("cv") # Repair(c)
          /\ Document("cv") # Document(c) /\ Document("cv") # Repair(c)
      BY <1>4, <3>2
    <3> QED BY <1>2, <3>1, <3>3, <3>4, <3>5 DEF DocumentAfter
  <2>4. ~fold_empty /\ ~fold_has_cv => settled
    <3> SUFFICES ASSUME ~fold_empty, ~fold_has_cv PROVE settled OBVIOUS
    <3>1. plan = {"pdf"} /\ pdf_streamed > 0 BY DEF RouteKept
    <3>2. pdf_streamed # 0 BY <3>1
    <3>3. leg["pdf"] # "running" BY <3>2 DEF RouteKept
    <3>4. c # "leg"
      <4> SUFFICES ASSUME c = "leg" PROVE FALSE OBVIOUS
      <4>1. leg["leg"] = "running" BY DEF StreamInv, GateKept
      <4>2. Resolved BY <4>1 DEF StreamInv, GateKept, Resolved, Legs
      <4>3. plan' = plan BY <1>0, <4>2, ThreadsStep DEF ThreadsOnward
      <4>4. "leg" \in plan' BY DEF EndKept, LegsPlanned, Legs
      <4> QED BY <3>1, <4>3, <4>4
    <3>5. streamed BY <3>1, <3>3, <3>4 DEF Legs
    <3> QED BY <3>5 DEF settled, settles
  <2> DEFINE u == s \o (FoldDelta(settled, with) \o <<Complete>>)
  <2>5. Ordered(s) /\ s \in Seq(EventType) BY <1>2 DEF DocumentAfter
  <2>6. /\ u \in Seq(EventType) /\ Ordered(u) /\ Streamed(u) = Streamed(s)
        /\ Has(u, Complete)
        /\ \A x \in Collectors :
             /\ Has(u, Document(x)) <=> Has(s, Document(x))
             /\ Has(u, Repair(x)) /\ ~Has(s, Repair(x)) => ~fold_empty
    BY <2>3, <2>4, <2>5, CompleteFollows
  <2> HIDE DEF u
  <2>7. MarkedAfter(u) BY <1>5, <2>2, <2>6 DEF MarkedAfter
  <2>8. Outgoing' = u BY <2>1 DEF u
  <2> QED BY <1>3, <1>6, <2>6, <2>7, <2>8, OrderFrom
<1> QED BY <1>3, <1>7, <1>8

\* A write that failed ends the call with a failure.
LEMMA CutFails ==
  ASSUME StreamInv, EndKept, OnWriteFailed
  PROVE  client_cancelled' /\ finish_requested' /\ finish_status' # "OK"
<1>1. events # <<>> BY DEF OnWriteFailed, StreamInv, TypeOK, QueueTypeOK
<1>2. ~(finish_started /\ finish_status = "OK") BY <1>1 DEF EndKept, Drained
<1>3. client_cancelled' /\ request_finish("CANCELLED") BY DEF OnWriteFailed
<1>4. finish_status' # "OK"
  BY <1>2, <1>3 DEF request_finish, Overrides, StreamInv, TicketsKept
<1> QED BY <1>3, <1>4 DEF request_finish

\* A write that failed drops the queue behind it.
LEMMA OrderCut ==
  ASSUME StreamInv, TypeOK', OrderKept, EndKept, [Next]_vars, OnWriteFailed
  PROVE  OrderKept'
<1>0. /\ wire \in Seq(EventType) /\ events \in Seq(EventType)
      /\ write_in_flight = (events # <<>>)
  BY DEF OrderKept, StreamInv, TypeOK, QueueTypeOK
<1>1. wire' = wire /\ events' = <<>> BY DEF OnWriteFailed, pump
<1>2. Outgoing' = wire BY <1>1 DEF Outgoing
<1>3. events # <<>> /\ Tail(events) \in Seq(EventType)
  <2>1. write_in_flight BY DEF OnWriteFailed
  <2>2. events # <<>> BY <1>0, <2>1
  <2> QED BY <1>0, <2>2
<1>4. PICK r \in Seq(EventType) : Outgoing = wire \o r BY <1>3 DEF Outgoing
<1>5. Ordered(wire) BY <1>0, <1>4, PrefixOrdered DEF OrderKept
<1>6. \A x : Has(wire, x) => Has(Outgoing, x) BY <1>0, <1>4, JoinHas
<1>7. MarkedAfter(wire)
  <2>1. MarkedAfter(Outgoing) BY MarksOnward
  <2> QED BY <1>6, <2>1 DEF MarkedAfter
<1>8. ~Intact' BY CutFails DEF Intact
<1> QED BY <1>0, <1>1, <1>2, <1>5, <1>7, <1>8, OrderFrom

\* The pages on_page() lets go are the next ones.
LEMMA OrderPages ==
  ASSUME StreamInv, TypeOK', OrderKept, [Next]_vars, NEW p \in Pages, on_page(p)
  PROVE  OrderKept'
<1> DEFINE out   == InOrder(completed_pages \cup {p})
           fresh == [i \in 1..Cardinality(out) |-> CvPage(next_page + i - 1)]
<1>0. /\ wire \in Seq(EventType) /\ events \in Seq(EventType) /\ next_page \in Nat \ {0}
  BY DEF OrderKept, StreamInv, TypeOK, QueueTypeOK, PageTypeOK
<1>1. Cardinality(out) \in Nat BY PageAccepted
<1>2. next_page' = next_page + Cardinality(out) BY DEF on_page
<1>3. pump(events \o fresh, write_in_flight, finish_requested) BY DEF on_page
<1> HIDE DEF out
<1>4. /\ fresh \in Seq(EventType) /\ Len(fresh) = Cardinality(out)
      /\ \A i \in 1..Len(fresh) : fresh[i] = CvPage(next_page + i - 1)
  <2>1. \A n \in Nat : CvPage(n) \in EventType
    BY DEF CvPage, Event, EventType, Collectors
  <2>2. \A i \in 1..Cardinality(out) : next_page + i - 1 \in Nat BY <1>0, <1>1
  <2>3. Len(fresh) = Cardinality(out) /\ fresh \in Seq(EventType) BY <1>1, <2>1, <2>2
  <2> QED BY <2>3
<1>5. PICK t \in Seq(EventType) : t = fresh BY <1>4
<1> HIDE DEF fresh
<1>6. /\ Outgoing \in Seq(EventType) /\ Outgoing' = Outgoing \o t /\ wire' \in Seq(EventType)
  <2>1. pump(events \o t, write_in_flight, finish_requested) BY <1>3, <1>5
  <2> QED BY <1>0, <2>1, PumpJoins
<1>7. ~Over /\ ~client_cancelled
  BY OpenParts DEF on_page, Scheduler!DeliverPage, Scheduler!Deliverable
<1>8. Streamed(Outgoing) = next_page - 1 BY <1>7 DEF OrderKept, Intact
<1>9. \A i \in 1..Len(t) : /\ t[i].kind = "page" /\ t[i].from = "cv"
                           /\ t[i].page = next_page + i - 1
  BY <1>4, <1>5 DEF CvPage, Event
<1>10. \A i \in 1..Len(t) : OneAtATime(t[i]) /\ t[i].page = Streamed(Outgoing) + i
  <2>1. \A i \in 1..Len(t) : OneAtATime(t[i]) BY <1>9 DEF OneAtATime
  <2>2. \A i \in 1..Len(t) : t[i].page = Streamed(Outgoing) + i BY <1>0, <1>8, <1>9
  <2> QED BY <2>1, <2>2
<1>11. \A c \in Collectors, i \in 1..Len(t) : Has(Outgoing, Repair(c)) => ~PageOf(t[i], c)
  <2>1. \A c \in Collectors : Has(Outgoing, Repair(c)) => c \in Legs BY <1>7 DEF OrderKept
  <2> QED BY <1>9, <2>1 DEF PageOf, Legs
<1>12. ~Has(Outgoing, Complete) /\ Ordered(Outgoing) BY <1>7 DEF OrderKept
<1>13. PICK u : u = Outgoing \o t OBVIOUS
<1>14. /\ Ordered(u) /\ Streamed(u) = Streamed(Outgoing) + Len(t)
       /\ \A x : Mark(x) => (Has(u, x) <=> Has(Outgoing, x))
  BY <1>6, <1>10, <1>11, <1>12, <1>13, PagesFollow
<1>15. MarkedAfter(u)
  <2>1. MarkedAfter(Outgoing) BY MarksOnward
  <2>2. \A c \in Collectors : Mark(Document(c)) /\ Mark(Repair(c)) BY Kinds
  <2>3. Mark(Complete) BY DEF Mark, Complete, Event
  <2>4. "pdf" \in Collectors BY DEF Collectors
  <2> QED BY <1>14, <2>1, <2>2, <2>3, <2>4 DEF MarkedAfter
<1>16. Streamed(u) = next_page' - 1
  BY <1>0, <1>1, <1>2, <1>4, <1>5, <1>8, <1>14
<1> QED BY <1>6, <1>13, <1>14, <1>15, <1>16, OrderFrom

\* A page the inspector streams is the next one.
LEMMA OrderSlice ==
  ASSUME StreamInv, TypeOK', OrderKept, [Next]_vars, StreamTakes, leg["pdf"] \in {"reading", "held"},
         on_streamed_page(next_page)
  PROVE  OrderKept'
<1>0. /\ wire \in Seq(EventType) /\ events \in Seq(EventType) /\ next_page \in Nat
  BY DEF OrderKept, StreamInv, TypeOK, QueueTypeOK, PageTypeOK
<1>1. PICK e \in EventType : e = StreamedPage(next_page)
  BY <1>0 DEF StreamedPage, Event, EventType
<1>2. /\ e.kind = "page" /\ e.from = "slice" /\ e.page = next_page
  BY <1>1 DEF StreamedPage, Event
<1>3. <<e>> \in Seq(EventType) /\ Append(events, e) = events \o <<e>> BY <1>0
<1>4. pump(events \o <<e>>, write_in_flight, finish_requested)
  BY <1>1, <1>3 DEF on_streamed_page
<1>5. Outgoing \in Seq(EventType) /\ Outgoing' = Outgoing \o <<e>> /\ wire' \in Seq(EventType)
  BY <1>0, <1>3, <1>4, PumpJoins
<1>6. ~Over /\ ~client_cancelled BY OpenParts DEF StreamTakes, Legs
<1>7. Streamed(Outgoing) = next_page - 1 BY <1>6 DEF OrderKept, Intact
<1>8. OneAtATime(e) BY <1>2 DEF OneAtATime
<1>9. Follows(Outgoing, e)
  <2>1. e.page = Streamed(Outgoing) + 1 BY <1>0, <1>2, <1>7
  <2>2. \A c \in Collectors : ~Has(Outgoing, Repair(c))
    <3> SUFFICES ASSUME NEW c \in Collectors, Has(Outgoing, Repair(c)) PROVE FALSE OBVIOUS
    <3>1. c \in Legs /\ leg[c] = "done" BY <1>6 DEF OrderKept
    <3>2. c = "leg" BY <3>1 DEF Legs
    <3>3. leg["leg"] = "idle" BY DEF StreamInv, PdfKept, RouteStates
    <3> QED BY <3>1, <3>2, <3>3
  <2>3. ~Has(Outgoing, Complete) BY <1>6 DEF OrderKept
  <2>4. \A c \in Collectors : e # Repair(c) BY <1>2 DEF Repair, Event
  <2> QED BY <2>1, <2>2, <2>3, <2>4 DEF Follows
<1>10. PICK u : u = Outgoing \o <<e>> OBVIOUS
<1>11. Ordered(Outgoing) BY DEF OrderKept
<1>12. /\ Ordered(u) /\ Streamed(u) = Streamed(Outgoing) + (IF OneAtATime(e) THEN 1 ELSE 0)
       /\ \A x : Has(u, x) <=> Has(Outgoing, x) \/ x = e
  BY <1>5, <1>9, <1>10, <1>11, OneFollows
<1>13. MarkedAfter(u)
  <2>1. MarkedAfter(Outgoing) BY MarksOnward
  <2>2. Complete # e /\ \A c \in Collectors : Document(c) # e /\ Repair(c) # e
    <3>1. Complete.kind # "page" BY DEF Complete, Event
    <3>2. \A c \in Collectors : Document(c).kind # "page" /\ Repair(c).kind # "page"
      BY DEF Document, Repair, Event
    <3> QED BY <1>2, <3>1, <3>2
  <2>3. "pdf" \in Collectors BY DEF Collectors
  <2> QED BY <1>12, <2>1, <2>2, <2>3 DEF MarkedAfter
<1>14. next_page' = next_page + 1 BY DEF on_streamed_page
<1>15. Streamed(u) = next_page' - 1 BY <1>0, <1>7, <1>8, <1>12, <1>14
<1> QED BY <1>5, <1>10, <1>12, <1>13, <1>15, OrderFrom

\* Every step keeps what is to be written in order.
LEMMA OrderStep ==
  ASSUME StreamInv, StreamInv', OrderKept, RouteKept, EndKept, EndKept', [Next]_vars
  PROVE  OrderKept'
<1>w. wire \in Seq(EventType) /\ TypeOK' BY DEF OrderKept, StreamInv
<1>1. ASSUME NEW names \in {"same", "none", "other"}, NEW size \in {0, 1}, NEW last \in BOOLEAN,
      NEW room \in BOOLEAN, OnChunk(names, size, last, room) PROVE OrderKept'
  <2>1. next_page' = next_page BY <1>1 DEF OnChunk, FinishCall
  <2>2. pump(events, write_in_flight, TRUE) \/ UNCHANGED <<events, wire>>
    BY <1>1 DEF OnChunk, FinishCall
  <2>3. Outgoing' = Outgoing /\ wire' \in Seq(EventType) BY <1>w, <2>2, PumpStill
  <2> QED BY <1>w, <2>1, <2>3, OrderStill
<1>2. CASE ClientHalfClose
  <2>1. next_page' = next_page BY <1>2 DEF ClientHalfClose
  <2>2. pump(events, write_in_flight, TRUE) \/ UNCHANGED <<events, wire>>
    BY <1>2 DEF ClientHalfClose
  <2>3. Outgoing' = Outgoing /\ wire' \in Seq(EventType) BY <1>w, <2>2, PumpStill
  <2> QED BY <1>w, <2>1, <2>3, OrderStill
<1>3. CASE ClientCancel
  <2>1. next_page' = next_page BY <1>3 DEF ClientCancel
  <2>2. pump(events, write_in_flight, TRUE) \/ UNCHANGED <<events, wire>>
    BY <1>3 DEF ClientCancel
  <2>3. Outgoing' = Outgoing /\ wire' \in Seq(EventType) BY <1>w, <2>2, PumpStill
  <2> QED BY <1>w, <2>1, <2>3, OrderStill
<1>4. CASE OnReadClosed
  <2>1. next_page' = next_page BY <1>4 DEF OnReadClosed, start_processing, FinishCall
  <2>2. pump(events, write_in_flight, TRUE) \/ UNCHANGED <<events, wire>>
    BY <1>4 DEF OnReadClosed, start_processing, FinishCall
  <2>3. Outgoing' = Outgoing /\ wire' \in Seq(EventType) BY <1>w, <2>2, PumpStill
  <2> QED BY <1>w, <2>1, <2>3, OrderStill
<1>5. CASE OnCancel
  <2>1. next_page' = next_page BY <1>5 DEF OnCancel, FinishCall
  <2>2. pump(events, write_in_flight, TRUE) \/ UNCHANGED <<events, wire>>
    BY <1>5 DEF OnCancel, FinishCall
  <2>3. Outgoing' = Outgoing /\ wire' \in Seq(EventType) BY <1>w, <2>2, PumpStill
  <2> QED BY <1>w, <2>1, <2>3, OrderStill
<1>6. CASE OnWriteDone
  <2>1. next_page' = next_page BY <1>6 DEF OnWriteDone
  <2>2. write_in_flight /\ pump(Tail(events), FALSE, finish_requested)
    BY <1>6 DEF OnWriteDone
  <2>3. Outgoing' = Outgoing /\ wire' \in Seq(EventType) BY <1>w, <2>2, PumpStill
  <2> QED BY <1>w, <2>1, <2>3, OrderStill
<1>7. CASE OnWriteFailed
  BY <1>7, <1>w, OrderCut
<1>8. CASE OnDone
  <2>1. next_page' = next_page BY <1>8 DEF OnDone
  <2>2. pump(events, write_in_flight, TRUE) \/ UNCHANGED <<events, wire>>
    BY <1>8 DEF OnDone
  <2>3. Outgoing' = Outgoing /\ wire' \in Seq(EventType) BY <1>w, <2>2, PumpStill
  <2> QED BY <1>w, <2>1, <2>3, OrderStill
<1>9. CASE DropBuffer
  <2>1. next_page' = next_page BY <1>9 DEF DropBuffer
  <2>2. pump(events, write_in_flight, TRUE) \/ UNCHANGED <<events, wire>>
    BY <1>9 DEF DropBuffer
  <2>3. Outgoing' = Outgoing /\ wire' \in Seq(EventType) BY <1>w, <2>2, PumpStill
  <2> QED BY <1>w, <2>1, <2>3, OrderStill
<1>10. CASE ResolveRefused
  <2>1. next_page' = next_page BY <1>10 DEF ResolveRefused, FinishCall
  <2>2. pump(events, write_in_flight, TRUE) \/ UNCHANGED <<events, wire>>
    BY <1>10 DEF ResolveRefused, FinishCall
  <2>3. Outgoing' = Outgoing /\ wire' \in Seq(EventType) BY <1>w, <2>2, PumpStill
  <2> QED BY <1>w, <2>1, <2>3, OrderStill
<1>11. ASSUME NEW pl \in Plans, ResolvePlan(pl) PROVE OrderKept'
  <2>1. next_page' = next_page BY <1>11 DEF ResolvePlan, FinishCall
  <2>2. pump(events, write_in_flight, TRUE) \/ UNCHANGED <<events, wire>>
    BY <1>11 DEF ResolvePlan, FinishCall
  <2>3. Outgoing' = Outgoing /\ wire' \in Seq(EventType) BY <1>w, <2>2, PumpStill
  <2> QED BY <1>w, <2>1, <2>3, OrderStill
<1>12. CASE ProcessLaunch
  <2>1. next_page' = next_page BY <1>12 DEF ProcessLaunch
  <2>2. pump(events, write_in_flight, TRUE) \/ UNCHANGED <<events, wire>>
    BY <1>12 DEF ProcessLaunch
  <2>3. Outgoing' = Outgoing /\ wire' \in Seq(EventType) BY <1>w, <2>2, PumpStill
  <2> QED BY <1>w, <2>1, <2>3, OrderStill
<1>13. CASE ProcessGone
  <2>1. next_page' = next_page BY <1>13 DEF ProcessGone
  <2>2. pump(events, write_in_flight, TRUE) \/ UNCHANGED <<events, wire>>
    BY <1>13 DEF ProcessGone
  <2>3. Outgoing' = Outgoing /\ wire' \in Seq(EventType) BY <1>w, <2>2, PumpStill
  <2> QED BY <1>w, <2>1, <2>3, OrderStill
<1>14. CASE ProcessThrows
  <2>1. next_page' = next_page BY <1>14 DEF ProcessThrows, FinishCall
  <2>2. pump(events, write_in_flight, TRUE) \/ UNCHANGED <<events, wire>>
    BY <1>14 DEF ProcessThrows, FinishCall
  <2>3. Outgoing' = Outgoing /\ wire' \in Seq(EventType) BY <1>w, <2>2, PumpStill
  <2> QED BY <1>w, <2>1, <2>3, OrderStill
<1>15. CASE LaunchDone
  <2>1. next_page' = next_page BY <1>15 DEF LaunchDone
  <2>2. pump(events, write_in_flight, TRUE) \/ UNCHANGED <<events, wire>>
    BY <1>15 DEF LaunchDone
  <2>3. Outgoing' = Outgoing /\ wire' \in Seq(EventType) BY <1>w, <2>2, PumpStill
  <2> QED BY <1>w, <2>1, <2>3, OrderStill
<1>16. ASSUME NEW c \in Legs, LaunchLeg(c) PROVE OrderKept'
  <2>1. next_page' = next_page BY <1>16 DEF LaunchLeg
  <2>2. pump(events, write_in_flight, TRUE) \/ UNCHANGED <<events, wire>>
    BY <1>16 DEF LaunchLeg
  <2>3. Outgoing' = Outgoing /\ wire' \in Seq(EventType) BY <1>w, <2>2, PumpStill
  <2> QED BY <1>w, <2>1, <2>3, OrderStill
<1>17. ASSUME NEW who \in {"process", "pdf"}, SubmitRun(who) PROVE OrderKept'
  <2>1. next_page' = next_page BY <1>17 DEF SubmitRun
  <2>2. pump(events, write_in_flight, TRUE) \/ UNCHANGED <<events, wire>>
    BY <1>17 DEF SubmitRun
  <2>3. Outgoing' = Outgoing /\ wire' \in Seq(EventType) BY <1>w, <2>2, PumpStill
  <2> QED BY <1>w, <2>1, <2>3, OrderStill
<1>18. ASSUME NEW who \in {"process", "pdf"}, SubmitRefused(who) PROVE OrderKept'
  <2>1. next_page' = next_page BY <1>18 DEF SubmitRefused
  <2>2. part_done(events, fold_settled) BY <1>18 DEF SubmitRefused, PartFailed
  <2>3. ~Over
    <3>1. process = "submit" \/ leg["pdf"] = "submit" BY <1>18 DEF SubmitRefused, Submitting
    <3>2. process = "submit" => "cv" \in plan BY DEF StreamInv, GateKept
    <3> QED BY <3>1, <3>2, OpenParts DEF Legs
  <2> QED BY <2>1, <2>2, <2>3, OrderEnds
<1>19. ASSUME NEW who \in {"process", "pdf"}, SetTicket(who) PROVE OrderKept'
  <2>1. next_page' = next_page BY <1>19 DEF SetTicket
  <2>2. pump(events, write_in_flight, TRUE) \/ UNCHANGED <<events, wire>>
    BY <1>19 DEF SetTicket
  <2>3. Outgoing' = Outgoing /\ wire' \in Seq(EventType) BY <1>w, <2>2, PumpStill
  <2> QED BY <1>w, <2>1, <2>3, OrderStill
<1>20. ASSUME NEW c \in Legs, NEW success \in BOOLEAN, NEW k \in Nat, NEW streamed \in BOOLEAN,
      LegLands(c, success, k, streamed) PROVE OrderKept'
  <2>0. leg[c] \notin {"idle", "done", "ticket"} BY <1>20 DEF LegLands
  <2>1. ~Over BY <2>0, OpenParts
  <2>2. CASE DocumentArrived(c, k, streamed) /\ success
    <3>1. /\ leg[c] \in {"running", "deliver_ok"}
          /\ streamed = (leg[c] = "deliver_ok" /\ pdf_streamed > 0)
      BY <1>20, <2>2 DEF LegLands
    <3>2. leg'[c] = "done" BY <1>20 DEF LegLands, on_collector_done, StreamInv, TypeOK,
        ThreadTypeOK
    <3> QED BY <2>2, <3>1, <3>2, OrderLands
  <2>3. CASE PartFailed(c, "UNAVAILABLE") /\ UNCHANGED pagevars
    <3>1. part_done(events, fold_settled) /\ next_page' = next_page BY <2>3 DEF PartFailed
    <3> QED BY <2>1, <3>1, OrderEnds
  <2>4. CASE DocumentRefused \/ UNCHANGED <<writes, pagevars>>
    <3>1. pump(events, write_in_flight, TRUE) \/ UNCHANGED <<events, wire>>
      BY <2>4 DEF DocumentRefused, FinishCall
    <3>2. next_page' = next_page BY <2>4 DEF DocumentRefused
    <3>3. Outgoing' = Outgoing /\ wire' \in Seq(EventType) BY <1>w, <3>1, PumpStill
    <3> QED BY <1>w, <3>2, <3>3, OrderStill
  <2> QED BY <1>20, <2>2, <2>3, <2>4 DEF LegLands, on_collector_done
<1>21. ASSUME NEW clean \in BOOLEAN, PdfSlice(clean) PROVE OrderKept'
  <2>0. leg["pdf"] = "reading" BY <1>21 DEF PdfSlice
  <2>1. CASE NotStreamed
    <3>1. next_page' = next_page /\ UNCHANGED <<events, wire>> BY <2>1 DEF NotStreamed
    <3>3. Outgoing' = Outgoing /\ wire' \in Seq(EventType) BY <1>w, <3>1, PumpStill
    <3> QED BY <1>w, <3>1, <3>3, OrderStill
  <2>2. CASE ~NotStreamed
    <3>1. pdf_run_open /\ StreamTakes /\ on_streamed_page(pdf_next) BY <1>21, <2>2 DEF PdfSlice
    <3>2. pdf_next = next_page + Len(pdf_held) /\ pdf_held = <<>> BY <2>0, <3>1 DEF RouteKept
    <3>3. next_page \in Nat BY DEF StreamInv, TypeOK, PageTypeOK
    <3>4. Len(pdf_held) = 0 BY <3>2
    <3>5. pdf_next = next_page BY <3>2, <3>3, <3>4
    <3> QED BY <1>w, <2>0, <3>1, <3>5, OrderSlice
  <2> QED BY <2>1, <2>2
<1>22. ASSUME NEW success \in BOOLEAN, NEW fast \in BOOLEAN, PdfEnd(success, fast) PROVE
      OrderKept'
  <2>1. next_page' = next_page BY <1>22 DEF PdfEnd
  <2>2. pump(events, write_in_flight, TRUE) \/ UNCHANGED <<events, wire>>
    BY <1>22 DEF PdfEnd
  <2>3. Outgoing' = Outgoing /\ wire' \in Seq(EventType) BY <1>w, <2>2, PumpStill
  <2> QED BY <1>w, <2>1, <2>3, OrderStill
<1>23. CASE PdfHeld
  <2>0. leg["pdf"] = "held" BY <1>23 DEF PdfHeld
  <2>1. CASE NotStreamed
    <3>1. next_page' = next_page /\ UNCHANGED <<events, wire>> BY <2>1 DEF NotStreamed
    <3>3. Outgoing' = Outgoing /\ wire' \in Seq(EventType) BY <1>w, <3>1, PumpStill
    <3> QED BY <1>w, <3>1, <3>3, OrderStill
  <2>2. CASE ~NotStreamed
    <3>1. pdf_held # <<>> /\ StreamTakes /\ on_streamed_page(Head(pdf_held))
      BY <1>23, <2>2 DEF PdfHeld
    <3>2. \A i \in DOMAIN pdf_held : pdf_held[i] = next_page + i - 1
      BY <2>0, <3>1 DEF RouteKept
    <3>3. next_page \in Nat /\ pdf_held \in Seq(Pages)
      BY DEF StreamInv, TypeOK, PageTypeOK, ThreadTypeOK
    <3>4. 1 \in DOMAIN pdf_held /\ Head(pdf_held) = pdf_held[1] BY <3>1, <3>3
    <3>5. pdf_held[1] = next_page BY <3>2, <3>3, <3>4
    <3> QED BY <1>w, <2>0, <3>1, <3>4, <3>5, OrderSlice
  <2> QED BY <2>1, <2>2
<1>24. CASE PdfLeft
  <2>1. next_page' = next_page BY <1>24 DEF PdfLeft
  <2>2. pump(events, write_in_flight, TRUE) \/ UNCHANGED <<events, wire>>
    BY <1>24 DEF PdfLeft
  <2>3. Outgoing' = Outgoing /\ wire' \in Seq(EventType) BY <1>w, <2>2, PumpStill
  <2> QED BY <1>w, <2>1, <2>3, OrderStill
<1>25. CASE PdfFallback
  <2>1. next_page' = next_page BY <1>25 DEF PdfFallback
  <2>2. pump(events, write_in_flight, TRUE) \/ UNCHANGED <<events, wire>>
    BY <1>25 DEF PdfFallback
  <2>3. Outgoing' = Outgoing /\ wire' \in Seq(EventType) BY <1>w, <2>2, PumpStill
  <2> QED BY <1>w, <2>1, <2>3, OrderStill
<1>26. CASE PdfSubmit
  <2>1. next_page' = next_page BY <1>26 DEF PdfSubmit
  <2>2. pump(events, write_in_flight, TRUE) \/ UNCHANGED <<events, wire>>
    BY <1>26 DEF PdfSubmit
  <2>3. Outgoing' = Outgoing /\ wire' \in Seq(EventType) BY <1>w, <2>2, PumpStill
  <2> QED BY <1>w, <2>1, <2>3, OrderStill
<1>27. CASE RunOpens
  <2>1. next_page' = next_page BY <1>27 DEF RunOpens
  <2>2. pump(events, write_in_flight, TRUE) \/ UNCHANGED <<events, wire>>
    BY <1>27 DEF RunOpens
  <2>3. Outgoing' = Outgoing /\ wire' \in Seq(EventType) BY <1>w, <2>2, PumpStill
  <2> QED BY <1>w, <2>1, <2>3, OrderStill
<1>28. CASE RunFails
  <2>1. next_page' = next_page BY <1>28 DEF RunFails
  <2>2. pump(events, write_in_flight, TRUE) \/ UNCHANGED <<events, wire>>
    BY <1>28 DEF RunFails
  <2>3. Outgoing' = Outgoing /\ wire' \in Seq(EventType) BY <1>w, <2>2, PumpStill
  <2> QED BY <1>w, <2>1, <2>3, OrderStill
<1>29. CASE on_document
  <2>1. next_page' = next_page BY <1>29 DEF on_document
  <2>2. pump(events, write_in_flight, TRUE) \/ UNCHANGED <<events, wire>>
    BY <1>29 DEF on_document
  <2>3. Outgoing' = Outgoing /\ wire' \in Seq(EventType) BY <1>w, <2>2, PumpStill
  <2> QED BY <1>w, <2>1, <2>3, OrderStill
<1>30. ASSUME NEW p \in Pages, on_page(p) PROVE OrderKept'
  BY <1>30, <1>w, OrderPages
<1>31. ASSUME NEW p \in Pages, PageRefused(p) PROVE OrderKept'
  <2>0. next_page' = next_page BY <1>31 DEF PageRefused
  <2>1. owed[Run] < PageWindow BY <1>31 DEF PageRefused, Scheduler!Deliverable
  <2>2. ~client_cancelled => buffered_pages = owed[Run]
    BY DEF StreamInv, BufferKept, BufferMatchesCredits
  <2>3. buffered_pages >= PageWindow => client_cancelled
    BY <2>1, <2>2, StreamAssumption DEF StreamAssumption, StreamInv, TypeOK, PageTypeOK
  <2>4. UNCHANGED <<events, wire>> BY <1>31, <2>3 DEF PageRefused
  <2>5. Outgoing' = Outgoing /\ wire' \in Seq(EventType) BY <1>w, <2>4, PumpStill
  <2> QED BY <1>w, <2>0, <2>5, OrderStill
<1>32. ASSUME NEW why \in {"none", "failed"}, on_scheduler_finish(why) PROVE OrderKept'
  <2>0. next_page' = next_page BY <1>32 DEF on_scheduler_finish
  <2>1. ~Over BY <1>32, OpenParts DEF on_scheduler_finish, Scheduler!Finish
  <2>2. CASE part_done(events, fold_settled) BY <2>0, <2>1, <2>2, OrderEnds
  <2>3. CASE ~part_done(events, fold_settled)
    <3>1. pump(events, write_in_flight, TRUE) \/ UNCHANGED <<events, wire>>
      BY <1>32, <2>3 DEF on_scheduler_finish, FinishCall, PartSucceeded, PartFailed
    <3>2. Outgoing' = Outgoing /\ wire' \in Seq(EventType) BY <1>w, <3>1, PumpStill
    <3> QED BY <1>w, <2>0, <3>2, OrderStill
  <2> QED BY <2>2, <2>3
<1>33. CASE UNCHANGED vars
  <2>1. next_page' = next_page BY <1>33 DEF vars
  <2>2. pump(events, write_in_flight, TRUE) \/ UNCHANGED <<events, wire>>
    BY <1>33 DEF vars
  <2>3. Outgoing' = Outgoing /\ wire' \in Seq(EventType) BY <1>w, <2>2, PumpStill
  <2> QED BY <1>w, <2>1, <2>3, OrderStill
<1> QED BY StepCases, <1>1, <1>2, <1>3, <1>4, <1>5, <1>6, <1>7, <1>8, <1>9, <1>10, <1>11, <1>12,
    <1>13, <1>14, <1>15, <1>16, <1>17, <1>18, <1>19, <1>20, <1>21, <1>22, <1>23, <1>24, <1>25,
    <1>26, <1>27, <1>28, <1>29, <1>30, <1>31, <1>32, <1>33

----------------------------------------------------------------------------
(* What an OK has behind it. *)

\* Once nothing is in the way, an OK has been said.
LEMMA SaidStill ==
  ASSUME StreamInv, TypeOK', Said, [Next]_vars, Outgoing' = Outgoing,
         finish_requested' /\ finish_status' = "OK" => finish_requested
  PROVE  Said'
<1>1. succeeded_parts \in Nat /\ succeeded_parts' \in Nat /\ succeeded_parts' >= succeeded_parts
  BY ThreadsStep DEF ThreadsOnward
<1>2. finish_requested' /\ finish_status' = "OK" => finish_requested /\ finish_status = "OK"
  BY StatusStep DEF StatusOnward, Unfailed
<1> SUFFICES ASSUME finish_requested', finish_status' = "OK"
             PROVE  Has(Outgoing', Complete) /\ succeeded_parts' > 0
  BY DEF Said
<1>3. Has(Outgoing, Complete) /\ succeeded_parts > 0 BY <1>2 DEF Said
<1> QED BY <1>1, <1>3

\* The last part says OK when it completes the call.
LEMMA SaidEnds ==
  ASSUME StreamInv, wire \in Seq(EventType), NEW r \in Seq(EventType), NEW settled,
         ~finish_requested, part_done(events \o r, settled), succeeded_parts' \in Nat
  PROVE  Said'
<1>1. Joined(r) \/ Completed(r, settled) BY PartDoneJoins
<1>2. CASE Joined(r) BY <1>2 DEF Joined, Said
<1>3. CASE Completed(r, settled)
  <2>1. PICK with \in BOOLEAN :
          Outgoing' = (Outgoing \o r) \o (FoldDelta(settled, with) \o <<Complete>>)
    BY <1>3 DEF Completed
  <2>2. Outgoing \o r \in Seq(EventType)
    <3>1. Outgoing \in Seq(EventType) BY DEF Outgoing, StreamInv, TypeOK, QueueTypeOK
    <3> QED BY <3>1
  <2>3. Has(FoldDelta(settled, with) \o <<Complete>>, Complete)
    <3>1. Has(<<Complete>>, Complete)
      <4>1. 1 \in DOMAIN <<Complete>> /\ <<Complete>>[1] = Complete OBVIOUS
      <4> QED BY <4>1 DEF Has
    <3> QED BY <3>1, FoldDeltaTyped, JoinHas
  <2>4. Has(Outgoing', Complete) BY <2>1, <2>2, <2>3, FoldDeltaTyped, JoinHas
  <2> QED BY <1>3, <2>4 DEF Completed, Said
<1> QED BY <1>1, <1>2, <1>3

\* An OK is said before it is given.
LEMMA SaidStep ==
  ASSUME StreamInv, TypeOK', wire \in Seq(EventType), EndKept, [Next]_vars
  PROVE  Said'
<1>w. wire \in Seq(EventType) /\ TypeOK' /\ Said /\ succeeded_parts' \in Nat
  BY DEF EndKept, TypeOK, FinishTypeOK
<1>e. events \o <<>> = events /\ <<>> \in Seq(EventType)
  BY DEF StreamInv, TypeOK, QueueTypeOK
<1>1. ASSUME NEW names \in {"same", "none", "other"}, NEW size \in {0, 1}, NEW last \in BOOLEAN,
      NEW room \in BOOLEAN, OnChunk(names, size, last, room) PROVE Said'
  <2>1. finish_requested' /\ finish_status' = "OK" => finish_requested
    BY <1>1 DEF OnChunk, FinishCall, Refusal, request_finish, Overrides, StreamInv, TicketsKept
  <2>2. pump(events, write_in_flight, TRUE) \/ UNCHANGED <<events, wire>>
    BY <1>1 DEF OnChunk, FinishCall
  <2>3. Outgoing' = Outgoing BY <1>w, <2>2, PumpStill
  <2> QED BY <1>w, <2>1, <2>3, SaidStill
<1>2. CASE ClientHalfClose
  <2>1. finish_requested' /\ finish_status' = "OK" => finish_requested
    BY <1>2 DEF ClientHalfClose, request_finish, Overrides, StreamInv, TicketsKept
  <2>2. pump(events, write_in_flight, TRUE) \/ UNCHANGED <<events, wire>>
    BY <1>2 DEF ClientHalfClose
  <2>3. Outgoing' = Outgoing BY <1>w, <2>2, PumpStill
  <2> QED BY <1>w, <2>1, <2>3, SaidStill
<1>3. CASE ClientCancel
  <2>1. finish_requested' /\ finish_status' = "OK" => finish_requested
    BY <1>3 DEF ClientCancel, request_finish, Overrides, StreamInv, TicketsKept
  <2>2. pump(events, write_in_flight, TRUE) \/ UNCHANGED <<events, wire>>
    BY <1>3 DEF ClientCancel
  <2>3. Outgoing' = Outgoing BY <1>w, <2>2, PumpStill
  <2> QED BY <1>w, <2>1, <2>3, SaidStill
<1>4. CASE OnReadClosed
  <2>1. finish_requested' /\ finish_status' = "OK" => finish_requested
    BY <1>4 DEF OnReadClosed, start_processing, FinishCall, request_finish, Overrides,
        StreamInv, TicketsKept
  <2>2. pump(events, write_in_flight, TRUE) \/ UNCHANGED <<events, wire>>
    BY <1>4 DEF OnReadClosed, start_processing, FinishCall
  <2>3. Outgoing' = Outgoing BY <1>w, <2>2, PumpStill
  <2> QED BY <1>w, <2>1, <2>3, SaidStill
<1>5. CASE OnCancel
  <2>1. finish_requested' /\ finish_status' = "OK" => finish_requested
    BY <1>5 DEF OnCancel, FinishCall, request_finish, Overrides, StreamInv, TicketsKept
  <2>2. pump(events, write_in_flight, TRUE) \/ UNCHANGED <<events, wire>>
    BY <1>5 DEF OnCancel, FinishCall
  <2>3. Outgoing' = Outgoing BY <1>w, <2>2, PumpStill
  <2> QED BY <1>w, <2>1, <2>3, SaidStill
<1>6. CASE OnWriteDone
  <2>1. finish_requested' = finish_requested BY <1>6 DEF OnWriteDone
  <2>2. write_in_flight /\ pump(Tail(events), FALSE, finish_requested)
    BY <1>6 DEF OnWriteDone
  <2>3. Outgoing' = Outgoing BY <1>w, <2>2, PumpStill
  <2> QED BY <1>w, <2>1, <2>3, SaidStill
<1>7. CASE OnWriteFailed
  BY <1>7, CutFails DEF Said
<1>8. CASE OnDone
  <2>1. finish_requested' /\ finish_status' = "OK" => finish_requested
    BY <1>8 DEF OnDone, request_finish, Overrides, StreamInv, TicketsKept
  <2>2. pump(events, write_in_flight, TRUE) \/ UNCHANGED <<events, wire>>
    BY <1>8 DEF OnDone
  <2>3. Outgoing' = Outgoing BY <1>w, <2>2, PumpStill
  <2> QED BY <1>w, <2>1, <2>3, SaidStill
<1>9. CASE DropBuffer
  <2>1. finish_requested' /\ finish_status' = "OK" => finish_requested
    BY <1>9 DEF DropBuffer, request_finish, Overrides, StreamInv, TicketsKept
  <2>2. pump(events, write_in_flight, TRUE) \/ UNCHANGED <<events, wire>>
    BY <1>9 DEF DropBuffer
  <2>3. Outgoing' = Outgoing BY <1>w, <2>2, PumpStill
  <2> QED BY <1>w, <2>1, <2>3, SaidStill
<1>10. CASE ResolveRefused
  <2>1. finish_requested' /\ finish_status' = "OK" => finish_requested
    BY <1>10 DEF ResolveRefused, FinishCall, request_finish, Overrides, StreamInv, TicketsKept
  <2>2. pump(events, write_in_flight, TRUE) \/ UNCHANGED <<events, wire>>
    BY <1>10 DEF ResolveRefused, FinishCall
  <2>3. Outgoing' = Outgoing BY <1>w, <2>2, PumpStill
  <2> QED BY <1>w, <2>1, <2>3, SaidStill
<1>11. ASSUME NEW pl \in Plans, ResolvePlan(pl) PROVE Said'
  <2>1. finish_requested' /\ finish_status' = "OK" => finish_requested
    BY <1>11 DEF ResolvePlan, FinishCall, request_finish, Overrides, StreamInv, TicketsKept
  <2>2. pump(events, write_in_flight, TRUE) \/ UNCHANGED <<events, wire>>
    BY <1>11 DEF ResolvePlan, FinishCall
  <2>3. Outgoing' = Outgoing BY <1>w, <2>2, PumpStill
  <2> QED BY <1>w, <2>1, <2>3, SaidStill
<1>12. CASE ProcessLaunch
  <2>1. finish_requested' /\ finish_status' = "OK" => finish_requested
    BY <1>12 DEF ProcessLaunch, request_finish, Overrides, StreamInv, TicketsKept
  <2>2. pump(events, write_in_flight, TRUE) \/ UNCHANGED <<events, wire>>
    BY <1>12 DEF ProcessLaunch
  <2>3. Outgoing' = Outgoing BY <1>w, <2>2, PumpStill
  <2> QED BY <1>w, <2>1, <2>3, SaidStill
<1>13. CASE ProcessGone
  <2>1. finish_requested' /\ finish_status' = "OK" => finish_requested
    BY <1>13 DEF ProcessGone, request_finish, Overrides, StreamInv, TicketsKept
  <2>2. pump(events, write_in_flight, TRUE) \/ UNCHANGED <<events, wire>>
    BY <1>13 DEF ProcessGone
  <2>3. Outgoing' = Outgoing BY <1>w, <2>2, PumpStill
  <2> QED BY <1>w, <2>1, <2>3, SaidStill
<1>14. CASE ProcessThrows
  <2>1. finish_requested' /\ finish_status' = "OK" => finish_requested
    BY <1>14 DEF ProcessThrows, FinishCall, request_finish, Overrides, StreamInv, TicketsKept
  <2>2. pump(events, write_in_flight, TRUE) \/ UNCHANGED <<events, wire>>
    BY <1>14 DEF ProcessThrows, FinishCall
  <2>3. Outgoing' = Outgoing BY <1>w, <2>2, PumpStill
  <2> QED BY <1>w, <2>1, <2>3, SaidStill
<1>15. CASE LaunchDone
  <2>1. finish_requested' /\ finish_status' = "OK" => finish_requested
    BY <1>15 DEF LaunchDone, request_finish, Overrides, StreamInv, TicketsKept
  <2>2. pump(events, write_in_flight, TRUE) \/ UNCHANGED <<events, wire>>
    BY <1>15 DEF LaunchDone
  <2>3. Outgoing' = Outgoing BY <1>w, <2>2, PumpStill
  <2> QED BY <1>w, <2>1, <2>3, SaidStill
<1>16. ASSUME NEW c \in Legs, LaunchLeg(c) PROVE Said'
  <2>1. finish_requested' /\ finish_status' = "OK" => finish_requested
    BY <1>16 DEF LaunchLeg, request_finish, Overrides, StreamInv, TicketsKept
  <2>2. pump(events, write_in_flight, TRUE) \/ UNCHANGED <<events, wire>>
    BY <1>16 DEF LaunchLeg
  <2>3. Outgoing' = Outgoing BY <1>w, <2>2, PumpStill
  <2> QED BY <1>w, <2>1, <2>3, SaidStill
<1>17. ASSUME NEW who \in {"process", "pdf"}, SubmitRun(who) PROVE Said'
  <2>1. finish_requested' /\ finish_status' = "OK" => finish_requested
    BY <1>17 DEF SubmitRun, request_finish, Overrides, StreamInv, TicketsKept
  <2>2. pump(events, write_in_flight, TRUE) \/ UNCHANGED <<events, wire>>
    BY <1>17 DEF SubmitRun
  <2>3. Outgoing' = Outgoing BY <1>w, <2>2, PumpStill
  <2> QED BY <1>w, <2>1, <2>3, SaidStill
<1>18. ASSUME NEW who \in {"process", "pdf"}, SubmitRefused(who) PROVE Said'
  <2>1. part_done(events, fold_settled) BY <1>18 DEF SubmitRefused, PartFailed
  <2>2. part_done(events \o <<>>, fold_settled) BY <1>e, <2>1
  <2>3. CASE ~finish_requested BY <1>w, <1>e, <2>2, <2>3, SaidEnds
  <2>4. CASE finish_requested
    <3>1. pump(events, write_in_flight, finish_requested') BY <2>1, <2>4 DEF part_done
    <3>2. Outgoing' = Outgoing BY <1>w, <3>1, PumpStill
    <3> QED BY <1>w, <2>4, <3>2, SaidStill
  <2> QED BY <2>3, <2>4
<1>19. ASSUME NEW who \in {"process", "pdf"}, SetTicket(who) PROVE Said'
  <2>1. finish_requested' /\ finish_status' = "OK" => finish_requested
    BY <1>19 DEF SetTicket, request_finish, Overrides, StreamInv, TicketsKept
  <2>2. pump(events, write_in_flight, TRUE) \/ UNCHANGED <<events, wire>>
    BY <1>19 DEF SetTicket
  <2>3. Outgoing' = Outgoing BY <1>w, <2>2, PumpStill
  <2> QED BY <1>w, <2>1, <2>3, SaidStill
<1>20. ASSUME NEW c \in Legs, NEW success \in BOOLEAN, NEW k \in Nat, NEW streamed \in BOOLEAN,
      LegLands(c, success, k, streamed) PROVE Said'
  <2>1. CASE finish_requested
    <3>1. UNCHANGED <<events, wire>> BY <1>20, <2>1 DEF LegLands, on_collector_done
    <3>2. Outgoing' = Outgoing BY <1>w, <3>1, PumpStill
    <3> QED BY <1>w, <2>1, <3>2, SaidStill
  <2>2. CASE ~finish_requested /\ UNCHANGED finishes BY <2>2 DEF Said
  <2>3. CASE ~finish_requested /\ DocumentRefused
    BY <2>3 DEF DocumentRefused, FinishCall, request_finish, Overrides, StreamInv, TicketsKept,
        Said
  <2>4. CASE ~finish_requested /\ PartFailed(c, "UNAVAILABLE")
    <3>1. part_done(events \o <<>>, fold_settled) BY <1>e, <2>4 DEF PartFailed
    <3> QED BY <1>w, <1>e, <2>4, <3>1, SaidEnds
  <2>5. CASE ~finish_requested /\ DocumentArrived(c, k, streamed)
    <3>1. PICK t, settled : t \in Seq(EventType) /\ part_done(events \o t, settled)
      BY <2>5, ArrivedTail
    <3> QED BY <1>w, <2>5, <3>1, SaidEnds
  <2> QED BY <1>20, <2>1, <2>2, <2>3, <2>4, <2>5 DEF LegLands, on_collector_done
<1>21. ASSUME NEW clean \in BOOLEAN, PdfSlice(clean) PROVE Said'
  <2>1. CASE NotStreamed
    <3>1. UNCHANGED <<events, wire, finish_requested>> BY <1>21, <2>1 DEF PdfSlice, NotStreamed
    <3>2. Outgoing' = Outgoing BY <1>w, <3>1, PumpStill
    <3> QED BY <1>w, <3>1, <3>2, SaidStill
  <2>2. CASE ~NotStreamed
    <3>1. ~finish_requested /\ finish_requested' = finish_requested
      BY <1>21, <2>2 DEF PdfSlice, StreamTakes
    <3> QED BY <3>1 DEF Said
  <2> QED BY <2>1, <2>2
<1>22. ASSUME NEW success \in BOOLEAN, NEW fast \in BOOLEAN, PdfEnd(success, fast) PROVE Said'
  <2>1. finish_requested' /\ finish_status' = "OK" => finish_requested
    BY <1>22 DEF PdfEnd, request_finish, Overrides, StreamInv, TicketsKept
  <2>2. pump(events, write_in_flight, TRUE) \/ UNCHANGED <<events, wire>>
    BY <1>22 DEF PdfEnd
  <2>3. Outgoing' = Outgoing BY <1>w, <2>2, PumpStill
  <2> QED BY <1>w, <2>1, <2>3, SaidStill
<1>23. CASE PdfHeld
  <2>1. CASE NotStreamed
    <3>1. UNCHANGED <<events, wire, finish_requested>> BY <1>23, <2>1 DEF PdfHeld, NotStreamed
    <3>2. Outgoing' = Outgoing BY <1>w, <3>1, PumpStill
    <3> QED BY <1>w, <3>1, <3>2, SaidStill
  <2>2. CASE ~NotStreamed
    <3>1. ~finish_requested /\ finish_requested' = finish_requested
      BY <1>23, <2>2 DEF PdfHeld, StreamTakes
    <3> QED BY <3>1 DEF Said
  <2> QED BY <2>1, <2>2
<1>24. CASE PdfLeft
  <2>1. finish_requested' /\ finish_status' = "OK" => finish_requested
    BY <1>24 DEF PdfLeft, request_finish, Overrides, StreamInv, TicketsKept
  <2>2. pump(events, write_in_flight, TRUE) \/ UNCHANGED <<events, wire>>
    BY <1>24 DEF PdfLeft
  <2>3. Outgoing' = Outgoing BY <1>w, <2>2, PumpStill
  <2> QED BY <1>w, <2>1, <2>3, SaidStill
<1>25. CASE PdfFallback
  <2>1. finish_requested' /\ finish_status' = "OK" => finish_requested
    BY <1>25 DEF PdfFallback, request_finish, Overrides, StreamInv, TicketsKept
  <2>2. pump(events, write_in_flight, TRUE) \/ UNCHANGED <<events, wire>>
    BY <1>25 DEF PdfFallback
  <2>3. Outgoing' = Outgoing BY <1>w, <2>2, PumpStill
  <2> QED BY <1>w, <2>1, <2>3, SaidStill
<1>26. CASE PdfSubmit
  <2>1. finish_requested' /\ finish_status' = "OK" => finish_requested
    BY <1>26 DEF PdfSubmit, request_finish, Overrides, StreamInv, TicketsKept
  <2>2. pump(events, write_in_flight, TRUE) \/ UNCHANGED <<events, wire>>
    BY <1>26 DEF PdfSubmit
  <2>3. Outgoing' = Outgoing BY <1>w, <2>2, PumpStill
  <2> QED BY <1>w, <2>1, <2>3, SaidStill
<1>27. CASE RunOpens
  <2>1. finish_requested' /\ finish_status' = "OK" => finish_requested
    BY <1>27 DEF RunOpens, request_finish, Overrides, StreamInv, TicketsKept
  <2>2. pump(events, write_in_flight, TRUE) \/ UNCHANGED <<events, wire>>
    BY <1>27 DEF RunOpens
  <2>3. Outgoing' = Outgoing BY <1>w, <2>2, PumpStill
  <2> QED BY <1>w, <2>1, <2>3, SaidStill
<1>28. CASE RunFails
  <2>1. finish_requested' /\ finish_status' = "OK" => finish_requested
    BY <1>28 DEF RunFails, request_finish, Overrides, StreamInv, TicketsKept
  <2>2. pump(events, write_in_flight, TRUE) \/ UNCHANGED <<events, wire>>
    BY <1>28 DEF RunFails
  <2>3. Outgoing' = Outgoing BY <1>w, <2>2, PumpStill
  <2> QED BY <1>w, <2>1, <2>3, SaidStill
<1>29. CASE on_document
  <2>1. finish_requested' /\ finish_status' = "OK" => finish_requested
    BY <1>29 DEF on_document, request_finish, Overrides, StreamInv, TicketsKept
  <2>2. pump(events, write_in_flight, TRUE) \/ UNCHANGED <<events, wire>>
    BY <1>29 DEF on_document
  <2>3. Outgoing' = Outgoing BY <1>w, <2>2, PumpStill
  <2> QED BY <1>w, <2>1, <2>3, SaidStill
<1>30. ASSUME NEW p \in Pages, on_page(p) PROVE Said'
  <2>1. ~Over /\ PartsOpen # 0 BY <1>30 DEF on_page, Scheduler!DeliverPage,
      Scheduler!Deliverable, Over, PartsOpen, RunOpen, LegOpen
  <2>2. ~(finish_requested /\ finish_status = "OK") BY <2>1 DEF StreamInv, PartsKept
  <2>3. UNCHANGED <<finish_requested, finish_status>> BY <1>30 DEF on_page
  <2> QED BY <2>2, <2>3 DEF Said
<1>31. ASSUME NEW p \in Pages, PageRefused(p) PROVE Said'
  <2>1. finish_requested' /\ finish_status' = "OK" => finish_requested
    BY <1>31 DEF PageRefused, request_finish, Overrides, StreamInv, TicketsKept
  <2>2. owed[Run] < PageWindow BY <1>31 DEF PageRefused, Scheduler!Deliverable
  <2>3. ~client_cancelled => buffered_pages = owed[Run]
    BY DEF StreamInv, BufferKept, BufferMatchesCredits
  <2>4. buffered_pages >= PageWindow => client_cancelled
    BY <2>2, <2>3, StreamAssumption DEF StreamAssumption, StreamInv, TypeOK, PageTypeOK
  <2>5. UNCHANGED <<events, wire>> BY <1>31, <2>4 DEF PageRefused
  <2>6. Outgoing' = Outgoing BY <1>w, <2>5, PumpStill
  <2> QED BY <1>w, <2>1, <2>6, SaidStill
<1>32. ASSUME NEW why \in {"none", "failed"}, on_scheduler_finish(why) PROVE Said'
  <2>1. CASE part_done(events, fold_settled)
    <3>1. part_done(events \o <<>>, fold_settled) BY <1>e, <2>1
    <3>2. CASE ~finish_requested BY <1>w, <1>e, <3>1, <3>2, SaidEnds
    <3>3. CASE finish_requested
      <4>1. pump(events, write_in_flight, finish_requested') BY <2>1, <3>3 DEF part_done
      <4>2. Outgoing' = Outgoing BY <1>w, <4>1, PumpStill
      <4> QED BY <1>w, <3>3, <4>2, SaidStill
    <3> QED BY <3>2, <3>3
  <2>2. CASE ~part_done(events, fold_settled)
    <3>1. pump(events, write_in_flight, TRUE) \/ UNCHANGED <<events, wire>>
      BY <1>32, <2>2 DEF on_scheduler_finish, FinishCall, PartSucceeded, PartFailed
    <3>2. finish_requested' /\ finish_status' = "OK" => finish_requested
      BY <1>32, <2>2 DEF on_scheduler_finish, FinishCall, PartSucceeded, PartFailed,
          request_finish, Overrides, StreamInv, TicketsKept
    <3>3. Outgoing' = Outgoing BY <1>w, <3>1, PumpStill
    <3> QED BY <1>w, <3>2, <3>3, SaidStill
  <2> QED BY <2>1, <2>2
<1>33. CASE UNCHANGED vars
  <2>1. finish_requested' /\ finish_status' = "OK" => finish_requested
    BY <1>33 DEF vars, request_finish, Overrides, StreamInv, TicketsKept
  <2>2. pump(events, write_in_flight, TRUE) \/ UNCHANGED <<events, wire>>
    BY <1>33 DEF vars
  <2>3. Outgoing' = Outgoing BY <1>w, <2>2, PumpStill
  <2> QED BY <1>w, <2>1, <2>3, SaidStill
<1> QED BY StepCases, <1>1, <1>2, <1>3, <1>4, <1>5, <1>6, <1>7, <1>8, <1>9, <1>10, <1>11, <1>12,
    <1>13, <1>14, <1>15, <1>16, <1>17, <1>18, <1>19, <1>20, <1>21, <1>22, <1>23, <1>24, <1>25,
    <1>26, <1>27, <1>28, <1>29, <1>30, <1>31, <1>32, <1>33

\* Finish does not start over a part's events.
LEMMA PartDrained ==
  ASSUME StreamInv, Drained,
         \/ part_done(events, fold_settled)
         \/ ~finish_started /\ \E q, settled : part_done(q, settled)
  PROVE  Drained'
<1>1. finish_started => finish_requested BY DEF StreamInv, TicketsKept
<1>2. CASE finish_started
  <2>1. part_done(events, fold_settled) BY <1>2
  <2>2. events' = events /\ UNCHANGED finish_status BY <1>1, <1>2, <2>1 DEF part_done, pump, NoFinish
  <2> QED BY <1>2, <2>2 DEF Drained
<1>3. CASE ~finish_started
  <2>1. PICK q, settled : part_done(q, settled) BY <1>3
  <2>2. finish_started' => events' = <<>>
    <3>1. PICK r, w : pump(r, w, finish_requested') BY <2>1 DEF part_done
    <3> QED BY <1>3, <3>1 DEF pump
  <2> QED BY <2>2 DEF Drained
<1> QED BY <1>2, <1>3

\* Finish comes after the last write.
LEMMA DrainedStep ==
  ASSUME StreamInv, Drained, [Next]_vars
  PROVE  Drained'
<1>1. ASSUME NEW names \in {"same", "none", "other"}, NEW size \in {0, 1}, NEW last \in BOOLEAN,
      NEW room \in BOOLEAN, OnChunk(names, size, last, room) PROVE Drained'
  BY <1>1 DEF OnChunk, FinishCall, request_finish, Overrides, pump, CancelRun, Scheduler!Withdraw,
     StreamInv, TypeOK, QueueTypeOK, TicketsKept, Drained
<1>2. CASE ClientHalfClose
  BY <1>2 DEF ClientHalfClose, StreamInv, TypeOK, QueueTypeOK, TicketsKept, Drained
<1>3. CASE ClientCancel
  BY <1>3 DEF ClientCancel, StreamInv, TypeOK, QueueTypeOK, TicketsKept, Drained
<1>4. CASE OnReadClosed
  BY <1>4 DEF OnReadClosed, start_processing, FinishCall, request_finish, Overrides, pump,
     CancelRun, Scheduler!Withdraw, StreamInv, TypeOK, QueueTypeOK, TicketsKept, Drained
<1>5. CASE OnCancel
  BY <1>5 DEF OnCancel, FinishCall, request_finish, Overrides, pump, CancelRun,
     Scheduler!Withdraw, StreamInv, TypeOK, QueueTypeOK, TicketsKept, Drained
<1>6. CASE OnWriteDone
  BY <1>6 DEF OnWriteDone, pump, Scheduler!Credit, StreamInv, TypeOK, QueueTypeOK, TicketsKept,
     Drained
<1>7. CASE OnWriteFailed
  BY <1>7 DEF OnWriteFailed, FinishCall, request_finish, Overrides, pump, CancelRun,
     Scheduler!Withdraw, StreamInv, TypeOK, QueueTypeOK, TicketsKept, Drained
<1>8. CASE OnDone
  BY <1>8 DEF OnDone, StreamInv, TypeOK, QueueTypeOK, TicketsKept, Drained
<1>9. CASE DropBuffer
  BY <1>9 DEF DropBuffer, StreamInv, TypeOK, QueueTypeOK, TicketsKept, Drained
<1>10. CASE ResolveRefused
  BY <1>10 DEF ResolveRefused, take_bytes, ProcessEnds, FinishCall, request_finish, Overrides,
     pump, CancelRun, Scheduler!Withdraw, StreamInv, TypeOK, QueueTypeOK, TicketsKept, Drained
<1>11. ASSUME NEW pl \in Plans, ResolvePlan(pl) PROVE Drained'
  BY <1>11 DEF ResolvePlan, take_bytes, FinishCall, request_finish, Overrides, pump, CancelRun,
     Scheduler!Withdraw, StreamInv, TypeOK, QueueTypeOK, TicketsKept, Drained
<1>12. CASE ProcessLaunch
  BY <1>12 DEF ProcessLaunch, StreamInv, TypeOK, QueueTypeOK, TicketsKept, Drained
<1>13. CASE ProcessGone
  BY <1>13 DEF ProcessGone, ProcessEnds, StreamInv, TypeOK, QueueTypeOK, TicketsKept, Drained
<1>14. CASE ProcessThrows
  BY <1>14 DEF ProcessThrows, ProcessEnds, FinishCall, request_finish, Overrides, pump, CancelRun,
     Scheduler!Withdraw, StreamInv, TypeOK, QueueTypeOK, TicketsKept, Drained
<1>15. CASE LaunchDone
  BY <1>15 DEF LaunchDone, StreamInv, TypeOK, QueueTypeOK, TicketsKept, Drained
<1>16. ASSUME NEW c \in Legs, LaunchLeg(c) PROVE Drained'
  BY <1>16 DEF LaunchLeg, StreamInv, TypeOK, QueueTypeOK, TicketsKept, Drained
<1>17. ASSUME NEW who \in {"process", "pdf"}, SubmitRun(who) PROVE Drained'
  BY <1>17 DEF SubmitRun, Submitting, SubmitterAt, Scheduler!Admit, StreamInv, TypeOK,
     QueueTypeOK, TicketsKept, Drained
<1>18. ASSUME NEW who \in {"process", "pdf"}, SubmitRefused(who) PROVE Drained'
  BY <1>18, PartDrained DEF SubmitRefused, PartFailed
<1>19. ASSUME NEW who \in {"process", "pdf"}, SetTicket(who) PROVE Drained'
  BY <1>19 DEF SetTicket, Submitted, SubmitterAt, CancelRun, Scheduler!Withdraw, StreamInv,
     TypeOK, QueueTypeOK, TicketsKept, Drained
<1>20. ASSUME NEW c \in Legs, NEW success \in BOOLEAN, NEW k \in Nat, NEW streamed \in BOOLEAN,
      LegLands(c, success, k, streamed) PROVE Drained'
  <2>1. CASE finish_requested
    <3>1. UNCHANGED <<events, finishes>> BY <1>20, <2>1 DEF LegLands, on_collector_done
    <3> QED BY <3>1 DEF Drained
  <2>2. CASE ~finish_requested
    <3>1. ~finish_started BY <2>2 DEF StreamInv, TicketsKept
    <3>2. CASE UNCHANGED finishes BY <3>1, <3>2 DEF Drained
    <3>3. CASE DocumentRefused BY <3>1, <3>3 DEF DocumentRefused, FinishCall, pump, Drained
    <3>4. CASE DocumentArrived(c, k, streamed) \/ PartFailed(c, "UNAVAILABLE")
      <4>1. \E q, settled : part_done(q, settled)
        BY <3>4 DEF DocumentArrived, PartFailed, PartSucceeded
      <4> QED BY <3>1, <4>1, PartDrained
    <3> QED BY <1>20, <2>2, <3>2, <3>3, <3>4 DEF LegLands, on_collector_done
  <2> QED BY <2>1, <2>2
<1>21. ASSUME NEW clean \in BOOLEAN, PdfSlice(clean) PROVE Drained'
  BY <1>21 DEF PdfSlice, NotStreamed, StreamTakes, on_streamed_page, pump, StreamInv, TypeOK,
     QueueTypeOK, TicketsKept, Drained
<1>22. ASSUME NEW success \in BOOLEAN, NEW fast \in BOOLEAN, PdfEnd(success, fast) PROVE
      Drained'
  BY <1>22 DEF PdfEnd, PdfAt, StreamInv, TypeOK, QueueTypeOK, TicketsKept, Drained
<1>23. CASE PdfHeld
  BY <1>23 DEF PdfHeld, PdfAt, NotStreamed, StreamTakes, on_streamed_page, pump, StreamInv,
     TypeOK, QueueTypeOK, TicketsKept, Drained
<1>24. CASE PdfLeft
  BY <1>24 DEF PdfLeft, PdfAt, StreamInv, TypeOK, QueueTypeOK, TicketsKept, Drained
<1>25. CASE PdfFallback
  BY <1>25 DEF PdfFallback, PdfAt, record_part_failure, StreamInv, TypeOK, QueueTypeOK,
     TicketsKept, Drained
<1>26. CASE PdfSubmit
  BY <1>26 DEF PdfSubmit, PdfAt, StreamInv, TypeOK, QueueTypeOK, TicketsKept, Drained
<1>27. CASE RunOpens
  BY <1>27 DEF RunOpens, Scheduler!Size, Scheduler!Live, StreamInv, TypeOK, QueueTypeOK,
     TicketsKept, Drained
<1>28. CASE RunFails
  BY <1>28 DEF RunFails, Scheduler!Live, Scheduler!Break, StreamInv, TypeOK, QueueTypeOK,
     TicketsKept, Drained
<1>29. CASE on_document
  BY <1>29 DEF on_document, Scheduler!Announce, StreamInv, TypeOK, QueueTypeOK, TicketsKept,
     Drained
<1>30. ASSUME NEW p \in Pages, on_page(p) PROVE Drained'
  <2>1. PartsOpen # 0 BY <1>30 DEF on_page, Scheduler!DeliverPage, Scheduler!Deliverable,
      PartsOpen, RunOpen, LegOpen
  <2>2. ~(finish_requested /\ finish_status = "OK") BY <2>1 DEF StreamInv, PartsKept
  <2>3. /\ UNCHANGED finish_status
        /\ finish_requested /\ ~finish_started /\ finish_started' => events' = <<>>
    BY <1>30 DEF on_page, pump
  <2>4. finish_started => finish_requested BY DEF StreamInv, TicketsKept
  <2>5. finish_started' /\ ~finish_started => finish_requested BY <1>30 DEF on_page, pump
  <2> QED BY <2>2, <2>3, <2>4, <2>5 DEF Drained
<1>31. ASSUME NEW p \in Pages, PageRefused(p) PROVE Drained'
  BY <1>31 DEF PageRefused, Scheduler!Deliverable, Scheduler!Live, Scheduler!Withdraw,
     request_finish, Overrides, pump, StreamInv, TypeOK, QueueTypeOK, TicketsKept, Drained
<1>32. ASSUME NEW why \in {"none", "failed"}, on_scheduler_finish(why) PROVE Drained'
  <2>1. CASE part_done(events, fold_settled) BY <2>1, PartDrained
  <2>2. CASE ~part_done(events, fold_settled)
    BY <1>32, <2>2 DEF on_scheduler_finish, FinishCall, PartSucceeded, PartFailed,
        request_finish, Overrides, pump, StreamInv, TypeOK, QueueTypeOK, TicketsKept, Drained
  <2> QED BY <2>1, <2>2
<1>33. CASE UNCHANGED vars
  BY <1>33 DEF vars, Drained
<1> QED BY StepCases, <1>1, <1>2, <1>3, <1>4, <1>5, <1>6, <1>7, <1>8, <1>9, <1>10, <1>11, <1>12,
    <1>13, <1>14, <1>15, <1>16, <1>17, <1>18, <1>19, <1>20, <1>21, <1>22, <1>23, <1>24, <1>25,
    <1>26, <1>27, <1>28, <1>29, <1>30, <1>31, <1>32, <1>33

\* The pdf collector's part stays one part.
LEMMA AloneStep ==
  ASSUME StreamInv, TypeOK', Alone, [Next]_vars
  PROVE  Alone'
<1>1. ASSUME NEW names \in {"same", "none", "other"}, NEW size \in {0, 1}, NEW last \in BOOLEAN,
      NEW room \in BOOLEAN, OnChunk(names, size, last, room) PROVE Alone'
  BY <1>1 DEF OnChunk, FinishCall, request_finish, Overrides, pump, CancelRun, Scheduler!Withdraw,
     StreamInv, TypeOK, FinishTypeOK, ThreadTypeOK, RunTypes, Alone, PartsKept, PartsOpen,
     LegOpen, RunOpen, Scheduler!Live, Run, GateKept, AdmissionKept, TicketsKept, Legs,
     RouteStates, Submitting, Submitted, SubmitterAt, PdfAt
<1>2. CASE ClientHalfClose
  BY <1>2 DEF ClientHalfClose, StreamInv, TypeOK, FinishTypeOK, ThreadTypeOK, RunTypes, Alone,
     PartsKept, PartsOpen, LegOpen, RunOpen, Scheduler!Live, Run, GateKept, AdmissionKept,
     TicketsKept, Legs, RouteStates, Submitting, Submitted, SubmitterAt, PdfAt
<1>3. CASE ClientCancel
  BY <1>3 DEF ClientCancel, StreamInv, TypeOK, FinishTypeOK, ThreadTypeOK, RunTypes, Alone,
     PartsKept, PartsOpen, LegOpen, RunOpen, Scheduler!Live, Run, GateKept, AdmissionKept,
     TicketsKept, Legs, RouteStates, Submitting, Submitted, SubmitterAt, PdfAt
<1>4. CASE OnReadClosed
  <2>1. process' # process => process = "none" /\ process' = "resolving"
    BY <1>4 DEF OnReadClosed, start_processing, StreamInv, ChargesKept
  <2>2. UNCHANGED <<plan, leg, succeeded_parts, admitted, result>>
    BY <1>4 DEF OnReadClosed, start_processing, FinishCall, CancelRun, Scheduler!Withdraw
  <2>3. RunOpen' = RunOpen BY <2>1, <2>2 DEF RunOpen, Scheduler!Live
  <2> QED BY <2>2, <2>3 DEF Alone, PartsOpen, LegOpen
<1>5. CASE OnCancel
  BY <1>5 DEF OnCancel, FinishCall, request_finish, Overrides, pump, CancelRun,
     Scheduler!Withdraw, StreamInv, TypeOK, FinishTypeOK, ThreadTypeOK, RunTypes, Alone,
     PartsKept, PartsOpen, LegOpen, RunOpen, Scheduler!Live, Run, GateKept, AdmissionKept,
     TicketsKept, Legs, RouteStates, Submitting, Submitted, SubmitterAt, PdfAt
<1>6. CASE OnWriteDone
  BY <1>6 DEF OnWriteDone, pump, Scheduler!Credit, StreamInv, TypeOK, FinishTypeOK, ThreadTypeOK,
     RunTypes, Alone, PartsKept, PartsOpen, LegOpen, RunOpen, Scheduler!Live, Run, GateKept,
     AdmissionKept, TicketsKept, Legs, RouteStates, Submitting, Submitted, SubmitterAt, PdfAt
<1>7. CASE OnWriteFailed
  BY <1>7 DEF OnWriteFailed, FinishCall, request_finish, Overrides, pump, CancelRun,
     Scheduler!Withdraw, StreamInv, TypeOK, FinishTypeOK, ThreadTypeOK, RunTypes, Alone,
     PartsKept, PartsOpen, LegOpen, RunOpen, Scheduler!Live, Run, GateKept, AdmissionKept,
     TicketsKept, Legs, RouteStates, Submitting, Submitted, SubmitterAt, PdfAt
<1>8. CASE OnDone
  BY <1>8 DEF OnDone, StreamInv, TypeOK, FinishTypeOK, ThreadTypeOK, RunTypes, Alone, PartsKept,
     PartsOpen, LegOpen, RunOpen, Scheduler!Live, Run, GateKept, AdmissionKept, TicketsKept,
     Legs, RouteStates, Submitting, Submitted, SubmitterAt, PdfAt
<1>9. CASE DropBuffer
  BY <1>9 DEF DropBuffer, StreamInv, TypeOK, FinishTypeOK, ThreadTypeOK, RunTypes, Alone,
     PartsKept, PartsOpen, LegOpen, RunOpen, Scheduler!Live, Run, GateKept, AdmissionKept,
     TicketsKept, Legs, RouteStates, Submitting, Submitted, SubmitterAt, PdfAt
<1>10. CASE ResolveRefused
  BY <1>10 DEF ResolveRefused, take_bytes, ProcessEnds, FinishCall, request_finish, Overrides,
     pump, CancelRun, Scheduler!Withdraw, StreamInv, TypeOK, FinishTypeOK, ThreadTypeOK,
     RunTypes, Alone, PartsKept, PartsOpen, LegOpen, RunOpen, Scheduler!Live, Run, GateKept,
     AdmissionKept, TicketsKept, Legs, RouteStates, Submitting, Submitted, SubmitterAt, PdfAt
<1>11. ASSUME NEW pl \in Plans, ResolvePlan(pl) PROVE Alone'
  <2>1. ~Scheduler!Live(Run)' /\ succeeded_parts' = 0
    BY <1>11 DEF ResolvePlan, take_bytes, FinishCall, request_finish, Overrides, pump,
        CancelRun, Scheduler!Withdraw, StreamInv, TypeOK, FinishTypeOK, ThreadTypeOK, RunTypes,
        Alone, PartsKept, PartsOpen, LegOpen, RunOpen, Scheduler!Live, Run, GateKept,
        AdmissionKept, TicketsKept, Legs, RouteStates, Submitting, Submitted, SubmitterAt, PdfAt
  <2>2. \A x \in Legs : leg'[x] # "idle" => x \in pl
    BY <1>11 DEF ResolvePlan, StreamInv, GateKept
  <2>3. pl = {"pdf"} => PartsOpen' <= 1 /\ PartsOpen' \in Nat
    BY <1>11, <2>1, <2>2 DEF ResolvePlan, PartsOpen, LegOpen, RunOpen, Legs
  <2>4. plan' = pl BY <1>11 DEF ResolvePlan
  <2> QED BY <2>1, <2>3, <2>4 DEF Alone
<1>12. CASE ProcessLaunch
  BY <1>12 DEF ProcessLaunch, StreamInv, TypeOK, FinishTypeOK, ThreadTypeOK, RunTypes, Alone,
     PartsKept, PartsOpen, LegOpen, RunOpen, Scheduler!Live, Run, GateKept, AdmissionKept,
     TicketsKept, Legs, RouteStates, Submitting, Submitted, SubmitterAt, PdfAt
<1>13. CASE ProcessGone
  BY <1>13 DEF ProcessGone, ProcessEnds, StreamInv, TypeOK, FinishTypeOK, ThreadTypeOK, RunTypes,
     Alone, PartsKept, PartsOpen, LegOpen, RunOpen, Scheduler!Live, Run, GateKept,
     AdmissionKept, TicketsKept, Legs, RouteStates, Submitting, Submitted, SubmitterAt, PdfAt
<1>14. CASE ProcessThrows
  BY <1>14 DEF ProcessThrows, ProcessEnds, FinishCall, request_finish, Overrides, pump, CancelRun,
     Scheduler!Withdraw, StreamInv, TypeOK, FinishTypeOK, ThreadTypeOK, RunTypes, Alone,
     PartsKept, PartsOpen, LegOpen, RunOpen, Scheduler!Live, Run, GateKept, AdmissionKept,
     TicketsKept, Legs, RouteStates, Submitting, Submitted, SubmitterAt, PdfAt
<1>15. CASE LaunchDone
  BY <1>15 DEF LaunchDone, StreamInv, TypeOK, FinishTypeOK, ThreadTypeOK, RunTypes, Alone,
     PartsKept, PartsOpen, LegOpen, RunOpen, Scheduler!Live, Run, GateKept, AdmissionKept,
     TicketsKept, Legs, RouteStates, Submitting, Submitted, SubmitterAt, PdfAt
<1>16. ASSUME NEW c \in Legs, LaunchLeg(c) PROVE Alone'
  BY <1>16 DEF LaunchLeg, StreamInv, TypeOK, FinishTypeOK, ThreadTypeOK, RunTypes, Alone,
     PartsKept, PartsOpen, LegOpen, RunOpen, Scheduler!Live, Run, GateKept, AdmissionKept,
     TicketsKept, Legs, RouteStates, Submitting, Submitted, SubmitterAt, PdfAt
<1>17. ASSUME NEW who \in {"process", "pdf"}, SubmitRun(who) PROVE Alone'
  BY <1>17 DEF SubmitRun, Submitting, SubmitterAt, Scheduler!Admit, StreamInv, TypeOK,
     FinishTypeOK, ThreadTypeOK, RunTypes, Alone, PartsKept, PartsOpen, LegOpen, RunOpen,
     Scheduler!Live, Run, GateKept, AdmissionKept, TicketsKept, Legs, RouteStates, Submitted,
     PdfAt
<1>18. ASSUME NEW who \in {"process", "pdf"}, SubmitRefused(who) PROVE Alone'
  BY <1>18 DEF SubmitRefused, Submitting, SubmitterAt, PartFailed, part_done, record_part_failure,
     FirstFailure, NoFinish, request_finish, Overrides, pump, CancelRun, Scheduler!Withdraw,
     StreamInv, TypeOK, FinishTypeOK, ThreadTypeOK, RunTypes, Alone, PartsKept, PartsOpen,
     LegOpen, RunOpen, Scheduler!Live, Run, GateKept, AdmissionKept, TicketsKept, Legs,
     RouteStates, Submitted, PdfAt
<1>19. ASSUME NEW who \in {"process", "pdf"}, SetTicket(who) PROVE Alone'
  BY <1>19 DEF SetTicket, Submitted, SubmitterAt, CancelRun, Scheduler!Withdraw, StreamInv,
     TypeOK, FinishTypeOK, ThreadTypeOK, RunTypes, Alone, PartsKept, PartsOpen, LegOpen,
     RunOpen, Scheduler!Live, Run, GateKept, AdmissionKept, TicketsKept, Legs, RouteStates,
     Submitting, PdfAt
<1>20. ASSUME NEW c \in Legs, NEW success \in BOOLEAN, NEW k \in Nat, NEW streamed \in BOOLEAN,
      LegLands(c, success, k, streamed) PROVE Alone'
  <2>1. /\ leg' = [leg EXCEPT ![c] = "done"] /\ UNCHANGED <<process, plan>>
        /\ leg[c] \notin {"idle", "done", "ticket"}
    BY <1>20 DEF LegLands, on_collector_done
  <2>2. Scheduler!Live(Run)' = Scheduler!Live(Run)
    BY <1>20 DEF LegLands, on_collector_done, DocumentArrived, DocumentRefused, CancelRun,
        Scheduler!Withdraw, Scheduler!Live
  <2>3. PartsOpen \in 1..3 /\ PartsOpen' = PartsOpen - 1
    BY <2>1, <2>2 DEF StreamInv, TypeOK, ThreadTypeOK, PartsOpen, LegOpen, RunOpen, Legs
  <2>4. succeeded_parts' \in {succeeded_parts, succeeded_parts + 1}
    BY <1>20 DEF LegLands, on_collector_done, DocumentArrived, DocumentRefused, PartFailed,
        PartSucceeded
  <2>5. succeeded_parts \in Nat /\ (plan = {"pdf"} => succeeded_parts + PartsOpen <= 1)
    BY DEF Alone, StreamInv, TypeOK, FinishTypeOK
  <2>6. PICK n \in 1..3 : n = PartsOpen BY <2>3
  <2>7. PartsOpen' = n - 1 /\ (plan = {"pdf"} => succeeded_parts + n <= 1) BY <2>3, <2>5, <2>6
  <2>8. succeeded_parts + n <= 1 => succeeded_parts' + (n - 1) <= 1 
    <3>1. succeeded_parts \in Nat /\ n \in Nat BY <2>5, <2>6
    <3>2. succeeded_parts' = succeeded_parts \/ succeeded_parts' = succeeded_parts + 1 BY <2>4
    <3> QED BY <3>1, <3>2
  <2>9. plan = {"pdf"} => succeeded_parts' + PartsOpen' <= 1 BY <2>7, <2>8
  <2> QED BY <2>1, <2>9 DEF Alone
<1>21. ASSUME NEW clean \in BOOLEAN, PdfSlice(clean) PROVE Alone'
  BY <1>21 DEF PdfSlice, NotStreamed, StreamTakes, on_streamed_page, pump, StreamInv, TypeOK,
     FinishTypeOK, ThreadTypeOK, RunTypes, Alone, PartsKept, PartsOpen, LegOpen, RunOpen,
     Scheduler!Live, Run, GateKept, AdmissionKept, TicketsKept, Legs, RouteStates, Submitting,
     Submitted, SubmitterAt, PdfAt
<1>22. ASSUME NEW success \in BOOLEAN, NEW fast \in BOOLEAN, PdfEnd(success, fast) PROVE Alone'
  BY <1>22 DEF PdfEnd, PdfAt, StreamInv, TypeOK, FinishTypeOK, ThreadTypeOK, RunTypes, Alone,
     PartsKept, PartsOpen, LegOpen, RunOpen, Scheduler!Live, Run, GateKept, AdmissionKept,
     TicketsKept, Legs, RouteStates, Submitting, Submitted, SubmitterAt
<1>23. CASE PdfHeld
  <2>1. UNCHANGED <<process, plan, succeeded_parts, runvars>> BY <1>23 DEF PdfHeld
  <2>2. /\ leg["pdf"] = "held" /\ leg'["pdf"] \in {"held", "deliver_ok", "deliver_failed"}
        /\ leg'["leg"] = leg["leg"]
    BY <1>23 DEF PdfHeld, PdfAt, StreamInv, TypeOK, ThreadTypeOK, Legs
  <2>3. RunOpen' = RunOpen BY <2>1 DEF RunOpen, Scheduler!Live
  <2>4. LegOpen("pdf")' = LegOpen("pdf") /\ LegOpen("leg")' = LegOpen("leg") BY <2>2 DEF LegOpen
  <2> QED BY <2>1, <2>3, <2>4 DEF Alone, PartsOpen
<1>24. CASE PdfLeft
  BY <1>24 DEF PdfLeft, PdfAt, StreamInv, TypeOK, FinishTypeOK, ThreadTypeOK, RunTypes, Alone,
     PartsKept, PartsOpen, LegOpen, RunOpen, Scheduler!Live, Run, GateKept, AdmissionKept,
     TicketsKept, Legs, RouteStates, Submitting, Submitted, SubmitterAt
<1>25. CASE PdfFallback
  BY <1>25 DEF PdfFallback, PdfAt, record_part_failure, StreamInv, TypeOK, FinishTypeOK,
     ThreadTypeOK, RunTypes, Alone, PartsKept, PartsOpen, LegOpen, RunOpen, Scheduler!Live, Run,
     GateKept, AdmissionKept, TicketsKept, Legs, RouteStates, Submitting, Submitted, SubmitterAt
<1>26. CASE PdfSubmit
  BY <1>26 DEF PdfSubmit, PdfAt, StreamInv, TypeOK, FinishTypeOK, ThreadTypeOK, RunTypes, Alone,
     PartsKept, PartsOpen, LegOpen, RunOpen, Scheduler!Live, Run, GateKept, AdmissionKept,
     TicketsKept, Legs, RouteStates, Submitting, Submitted, SubmitterAt
<1>27. CASE RunOpens
  BY <1>27 DEF RunOpens, Scheduler!Size, Scheduler!Live, StreamInv, TypeOK, FinishTypeOK,
     ThreadTypeOK, RunTypes, Alone, PartsKept, PartsOpen, LegOpen, RunOpen, Run, GateKept,
     AdmissionKept, TicketsKept, Legs, RouteStates, Submitting, Submitted, SubmitterAt, PdfAt
<1>28. CASE RunFails
  BY <1>28 DEF RunFails, Scheduler!Live, Scheduler!Break, StreamInv, TypeOK, FinishTypeOK,
     ThreadTypeOK, RunTypes, Alone, PartsKept, PartsOpen, LegOpen, RunOpen, Run, GateKept,
     AdmissionKept, TicketsKept, Legs, RouteStates, Submitting, Submitted, SubmitterAt, PdfAt
<1>29. CASE on_document
  BY <1>29 DEF on_document, Scheduler!Announce, StreamInv, TypeOK, FinishTypeOK, ThreadTypeOK,
     RunTypes, Alone, PartsKept, PartsOpen, LegOpen, RunOpen, Scheduler!Live, Run, GateKept,
     AdmissionKept, TicketsKept, Legs, RouteStates, Submitting, Submitted, SubmitterAt, PdfAt
<1>30. ASSUME NEW p \in Pages, on_page(p) PROVE Alone'
  BY <1>30 DEF on_page, pump, Scheduler!DeliverPage, Scheduler!Deliverable, Scheduler!Live,
     StreamInv, TypeOK, FinishTypeOK, ThreadTypeOK, RunTypes, Alone, PartsKept, PartsOpen,
     LegOpen, RunOpen, Run, GateKept, AdmissionKept, TicketsKept, Legs, RouteStates, Submitting,
     Submitted, SubmitterAt, PdfAt
<1>31. ASSUME NEW p \in Pages, PageRefused(p) PROVE Alone'
  BY <1>31 DEF PageRefused, Scheduler!Deliverable, Scheduler!Live, Scheduler!Withdraw,
     request_finish, Overrides, pump, StreamInv, TypeOK, FinishTypeOK, ThreadTypeOK, RunTypes,
     Alone, PartsKept, PartsOpen, LegOpen, RunOpen, Run, GateKept, AdmissionKept, TicketsKept,
     Legs, RouteStates, Submitting, Submitted, SubmitterAt, PdfAt
<1>32. ASSUME NEW why \in {"none", "failed"}, on_scheduler_finish(why) PROVE Alone'
  <2>1. UNCHANGED <<plan, process, leg>> BY <1>32 DEF on_scheduler_finish
  <2>2. Scheduler!Live(Run) /\ ~Scheduler!Live(Run)'
    BY <1>32 DEF on_scheduler_finish, Scheduler!Finish, Scheduler!Live, StreamInv, RunTypes
  <2>3. PartsOpen \in 1..3 /\ PartsOpen' = PartsOpen - 1
    <3>1. Run \in admitted BY <2>2 DEF Scheduler!Live
    <3>2. process \notin {"origin", "launch", "submit"} BY <3>1 DEF StreamInv, AdmissionKept
    <3> QED BY <2>1, <2>2, <3>2 DEF PartsOpen, LegOpen, RunOpen
  <2>4. succeeded_parts' \in {succeeded_parts, succeeded_parts + 1}
    BY <1>32 DEF on_scheduler_finish, PartFailed, PartSucceeded
  <2>5. succeeded_parts \in Nat /\ (plan = {"pdf"} => succeeded_parts + PartsOpen <= 1)
    BY DEF Alone, StreamInv, TypeOK, FinishTypeOK
  <2>6. PICK n \in 1..3 : n = PartsOpen BY <2>3
  <2>7. PartsOpen' = n - 1 /\ (plan = {"pdf"} => succeeded_parts + n <= 1) BY <2>3, <2>5, <2>6
  <2>8. succeeded_parts + n <= 1 => succeeded_parts' + (n - 1) <= 1 
    <3>1. succeeded_parts \in Nat /\ n \in Nat BY <2>5, <2>6
    <3>2. succeeded_parts' = succeeded_parts \/ succeeded_parts' = succeeded_parts + 1 BY <2>4
    <3> QED BY <3>1, <3>2
  <2>9. plan = {"pdf"} => succeeded_parts' + PartsOpen' <= 1 BY <2>7, <2>8
  <2> QED BY <2>1, <2>9 DEF Alone
<1>33. CASE UNCHANGED vars
  BY <1>33 DEF vars, StreamInv, TypeOK, FinishTypeOK, ThreadTypeOK, RunTypes, Alone, PartsKept,
     PartsOpen, LegOpen, RunOpen, Scheduler!Live, Run, GateKept, AdmissionKept, TicketsKept,
     Legs, RouteStates, Submitting, Submitted, SubmitterAt, PdfAt
<1> QED BY StepCases, <1>1, <1>2, <1>3, <1>4, <1>5, <1>6, <1>7, <1>8, <1>9, <1>10, <1>11, <1>12,
    <1>13, <1>14, <1>15, <1>16, <1>17, <1>18, <1>19, <1>20, <1>21, <1>22, <1>23, <1>24, <1>25,
    <1>26, <1>27, <1>28, <1>29, <1>30, <1>31, <1>32, <1>33

\* The legs stay those of the plan.
LEMMA LegsPlannedStep ==
  ASSUME StreamInv, LegsPlanned, [Next]_vars
  PROVE  LegsPlanned'
<1>1. ASSUME NEW names \in {"same", "none", "other"}, NEW size \in {0, 1}, NEW last \in BOOLEAN,
      NEW room \in BOOLEAN, OnChunk(names, size, last, room) PROVE LegsPlanned'
  <2>1. UNCHANGED <<plan, leg, process>> BY <1>1 DEF OnChunk
  <2> QED BY <2>1 DEF LegsPlanned, Resolved
<1>2. CASE ClientHalfClose
  BY <1>2 DEF ClientHalfClose, StreamInv, TypeOK, ThreadTypeOK, GateKept, Resolved, LegsPlanned,
     Legs, RouteStates, Submitting, Submitted, SubmitterAt, PdfAt
<1>3. CASE ClientCancel
  BY <1>3 DEF ClientCancel, StreamInv, TypeOK, ThreadTypeOK, GateKept, Resolved, LegsPlanned,
     Legs, RouteStates, Submitting, Submitted, SubmitterAt, PdfAt
<1>4. CASE OnReadClosed
  <2>1. UNCHANGED <<plan, leg>> BY <1>4 DEF OnReadClosed
  <2>2. Resolved' => Resolved BY <1>4 DEF OnReadClosed, start_processing, Resolved
  <2> QED BY <2>1, <2>2 DEF LegsPlanned
<1>5. CASE OnCancel
  BY <1>5 DEF OnCancel, FinishCall, request_finish, Overrides, pump, CancelRun,
     Scheduler!Withdraw, StreamInv, TypeOK, ThreadTypeOK, GateKept, Resolved, LegsPlanned, Legs,
     RouteStates, Submitting, Submitted, SubmitterAt, PdfAt
<1>6. CASE OnWriteDone
  BY <1>6 DEF OnWriteDone, pump, Scheduler!Credit, StreamInv, TypeOK, ThreadTypeOK, GateKept,
     Resolved, LegsPlanned, Legs, RouteStates, Submitting, Submitted, SubmitterAt, PdfAt
<1>7. CASE OnWriteFailed
  BY <1>7 DEF OnWriteFailed, FinishCall, request_finish, Overrides, pump, CancelRun,
     Scheduler!Withdraw, StreamInv, TypeOK, ThreadTypeOK, GateKept, Resolved, LegsPlanned, Legs,
     RouteStates, Submitting, Submitted, SubmitterAt, PdfAt
<1>8. CASE OnDone
  BY <1>8 DEF OnDone, StreamInv, TypeOK, ThreadTypeOK, GateKept, Resolved, LegsPlanned, Legs,
     RouteStates, Submitting, Submitted, SubmitterAt, PdfAt
<1>9. CASE DropBuffer
  BY <1>9 DEF DropBuffer, StreamInv, TypeOK, ThreadTypeOK, GateKept, Resolved, LegsPlanned, Legs,
     RouteStates, Submitting, Submitted, SubmitterAt, PdfAt
<1>10. CASE ResolveRefused
  BY <1>10 DEF ResolveRefused, take_bytes, ProcessEnds, FinishCall, request_finish, Overrides,
     pump, CancelRun, Scheduler!Withdraw, StreamInv, TypeOK, ThreadTypeOK, GateKept, Resolved,
     LegsPlanned, Legs, RouteStates, Submitting, Submitted, SubmitterAt, PdfAt
<1>11. ASSUME NEW pl \in Plans, ResolvePlan(pl) PROVE LegsPlanned'
  BY <1>11 DEF ResolvePlan, take_bytes, FinishCall, request_finish, Overrides, pump, CancelRun,
     Scheduler!Withdraw, StreamInv, TypeOK, ThreadTypeOK, GateKept, Resolved, LegsPlanned, Legs,
     RouteStates, Submitting, Submitted, SubmitterAt, PdfAt
<1>12. CASE ProcessLaunch
  BY <1>12 DEF ProcessLaunch, StreamInv, TypeOK, ThreadTypeOK, GateKept, Resolved, LegsPlanned,
     Legs, RouteStates, Submitting, Submitted, SubmitterAt, PdfAt
<1>13. CASE ProcessGone
  BY <1>13 DEF ProcessGone, ProcessEnds, StreamInv, TypeOK, ThreadTypeOK, GateKept, Resolved,
     LegsPlanned, Legs, RouteStates, Submitting, Submitted, SubmitterAt, PdfAt
<1>14. CASE ProcessThrows
  BY <1>14 DEF ProcessThrows, ProcessEnds, FinishCall, request_finish, Overrides, pump, CancelRun,
     Scheduler!Withdraw, StreamInv, TypeOK, ThreadTypeOK, GateKept, Resolved, LegsPlanned, Legs,
     RouteStates, Submitting, Submitted, SubmitterAt, PdfAt
<1>15. CASE LaunchDone
  BY <1>15 DEF LaunchDone, StreamInv, TypeOK, ThreadTypeOK, GateKept, Resolved, LegsPlanned, Legs,
     RouteStates, Submitting, Submitted, SubmitterAt, PdfAt
<1>16. ASSUME NEW c \in Legs, LaunchLeg(c) PROVE LegsPlanned'
  BY <1>16 DEF LaunchLeg, StreamInv, TypeOK, ThreadTypeOK, GateKept, Resolved, LegsPlanned, Legs,
     RouteStates, Submitting, Submitted, SubmitterAt, PdfAt
<1>17. ASSUME NEW who \in {"process", "pdf"}, SubmitRun(who) PROVE LegsPlanned'
  BY <1>17 DEF SubmitRun, Submitting, SubmitterAt, Scheduler!Admit, StreamInv, TypeOK,
     ThreadTypeOK, GateKept, Resolved, LegsPlanned, Legs, RouteStates, Submitted, PdfAt
<1>18. ASSUME NEW who \in {"process", "pdf"}, SubmitRefused(who) PROVE LegsPlanned'
  BY <1>18 DEF SubmitRefused, Submitting, SubmitterAt, PartFailed, part_done, record_part_failure,
     FirstFailure, NoFinish, request_finish, Overrides, pump, CancelRun, Scheduler!Withdraw,
     StreamInv, TypeOK, ThreadTypeOK, GateKept, Resolved, LegsPlanned, Legs, RouteStates,
     Submitted, PdfAt
<1>19. ASSUME NEW who \in {"process", "pdf"}, SetTicket(who) PROVE LegsPlanned'
  BY <1>19 DEF SetTicket, Submitted, SubmitterAt, CancelRun, Scheduler!Withdraw, StreamInv,
     TypeOK, ThreadTypeOK, GateKept, Resolved, LegsPlanned, Legs, RouteStates, Submitting, PdfAt
<1>20. ASSUME NEW c \in Legs, NEW success \in BOOLEAN, NEW k \in Nat, NEW streamed \in BOOLEAN,
      LegLands(c, success, k, streamed) PROVE LegsPlanned'
  <2>1. leg' = [leg EXCEPT ![c] = "done"] /\ UNCHANGED <<process, plan>> /\ leg[c] # "idle"
    BY <1>20 DEF LegLands, on_collector_done
  <2> QED BY <2>1 DEF LegsPlanned, Resolved, StreamInv, TypeOK, ThreadTypeOK
<1>21. ASSUME NEW clean \in BOOLEAN, PdfSlice(clean) PROVE LegsPlanned'
  BY <1>21 DEF PdfSlice, NotStreamed, StreamTakes, on_streamed_page, pump, StreamInv, TypeOK,
     ThreadTypeOK, GateKept, Resolved, LegsPlanned, Legs, RouteStates, Submitting, Submitted,
     SubmitterAt, PdfAt
<1>22. ASSUME NEW success \in BOOLEAN, NEW fast \in BOOLEAN, PdfEnd(success, fast) PROVE
      LegsPlanned'
  BY <1>22 DEF PdfEnd, PdfAt, StreamInv, TypeOK, ThreadTypeOK, GateKept, Resolved, LegsPlanned,
     Legs, RouteStates, Submitting, Submitted, SubmitterAt
<1>23. CASE PdfHeld
  BY <1>23 DEF PdfHeld, PdfAt, NotStreamed, StreamTakes, on_streamed_page, pump, StreamInv,
     TypeOK, ThreadTypeOK, GateKept, Resolved, LegsPlanned, Legs, RouteStates, Submitting,
     Submitted, SubmitterAt
<1>24. CASE PdfLeft
  BY <1>24 DEF PdfLeft, PdfAt, StreamInv, TypeOK, ThreadTypeOK, GateKept, Resolved, LegsPlanned,
     Legs, RouteStates, Submitting, Submitted, SubmitterAt
<1>25. CASE PdfFallback
  BY <1>25 DEF PdfFallback, PdfAt, record_part_failure, StreamInv, TypeOK, ThreadTypeOK, GateKept,
     Resolved, LegsPlanned, Legs, RouteStates, Submitting, Submitted, SubmitterAt
<1>26. CASE PdfSubmit
  BY <1>26 DEF PdfSubmit, PdfAt, StreamInv, TypeOK, ThreadTypeOK, GateKept, Resolved, LegsPlanned,
     Legs, RouteStates, Submitting, Submitted, SubmitterAt
<1>27. CASE RunOpens
  BY <1>27 DEF RunOpens, Scheduler!Size, Scheduler!Live, StreamInv, TypeOK, ThreadTypeOK,
     GateKept, Resolved, LegsPlanned, Legs, RouteStates, Submitting, Submitted, SubmitterAt,
     PdfAt
<1>28. CASE RunFails
  BY <1>28 DEF RunFails, Scheduler!Live, Scheduler!Break, StreamInv, TypeOK, ThreadTypeOK,
     GateKept, Resolved, LegsPlanned, Legs, RouteStates, Submitting, Submitted, SubmitterAt,
     PdfAt
<1>29. CASE on_document
  BY <1>29 DEF on_document, Scheduler!Announce, StreamInv, TypeOK, ThreadTypeOK, GateKept,
     Resolved, LegsPlanned, Legs, RouteStates, Submitting, Submitted, SubmitterAt, PdfAt
<1>30. ASSUME NEW p \in Pages, on_page(p) PROVE LegsPlanned'
  BY <1>30 DEF on_page, pump, Scheduler!DeliverPage, Scheduler!Deliverable, Scheduler!Live,
     StreamInv, TypeOK, ThreadTypeOK, GateKept, Resolved, LegsPlanned, Legs, RouteStates,
     Submitting, Submitted, SubmitterAt, PdfAt
<1>31. ASSUME NEW p \in Pages, PageRefused(p) PROVE LegsPlanned'
  BY <1>31 DEF PageRefused, Scheduler!Deliverable, Scheduler!Live, Scheduler!Withdraw,
     request_finish, Overrides, pump, StreamInv, TypeOK, ThreadTypeOK, GateKept, Resolved,
     LegsPlanned, Legs, RouteStates, Submitting, Submitted, SubmitterAt, PdfAt
<1>32. ASSUME NEW why \in {"none", "failed"}, on_scheduler_finish(why) PROVE LegsPlanned'
  BY <1>32 DEF on_scheduler_finish, Scheduler!Finish, Scheduler!Live, RunStatus, PartFailed,
     PartSucceeded, FinishCall, part_done, record_part_failure, FirstFailure, NoFinish,
     request_finish, Overrides, pump, StreamInv, TypeOK, ThreadTypeOK, GateKept, Resolved,
     LegsPlanned, Legs, RouteStates, Submitting, Submitted, SubmitterAt, PdfAt
<1>33. CASE UNCHANGED vars
  BY <1>33 DEF vars, StreamInv, TypeOK, ThreadTypeOK, GateKept, Resolved, LegsPlanned, Legs,
     RouteStates, Submitting, Submitted, SubmitterAt, PdfAt
<1> QED BY StepCases, <1>1, <1>2, <1>3, <1>4, <1>5, <1>6, <1>7, <1>8, <1>9, <1>10, <1>11, <1>12,
    <1>13, <1>14, <1>15, <1>16, <1>17, <1>18, <1>19, <1>20, <1>21, <1>22, <1>23, <1>24, <1>25,
    <1>26, <1>27, <1>28, <1>29, <1>30, <1>31, <1>32, <1>33

----------------------------------------------------------------------------
(* The inspector's pages. *)

\* The inspector's run stays unbroken.
LEMMA RouteStep ==
  ASSUME StreamInv, RouteKept, [Next]_vars
  PROVE  RouteKept'
<1>1. ASSUME NEW names \in {"same", "none", "other"}, NEW size \in {0, 1}, NEW last \in BOOLEAN,
      NEW room \in BOOLEAN, OnChunk(names, size, last, room) PROVE RouteKept'
  <2>1. UNCHANGED <<pdfvars, next_page, leg, fold_empty, fold_has_cv, plan, admitted>>
    BY <1>1 DEF OnChunk, FinishCall, request_finish, Overrides, pump, CancelRun,
        Scheduler!Withdraw
  <2>2. StreamTakes' => StreamTakes BY StatusStep DEF StatusOnward
  <2> QED BY <2>1, <2>2 DEF RouteKept
<1>2. CASE ClientHalfClose
  <2>1. UNCHANGED <<pdfvars, next_page, leg, fold_empty, fold_has_cv, plan, admitted>>
    BY <1>2 DEF ClientHalfClose
  <2>2. StreamTakes' => StreamTakes BY StatusStep DEF StatusOnward
  <2> QED BY <2>1, <2>2 DEF RouteKept
<1>3. CASE ClientCancel
  <2>1. UNCHANGED <<pdfvars, next_page, leg, fold_empty, fold_has_cv, plan, admitted>>
    BY <1>3 DEF ClientCancel
  <2>2. StreamTakes' => StreamTakes BY StatusStep DEF StatusOnward
  <2> QED BY <2>1, <2>2 DEF RouteKept
<1>4. CASE OnReadClosed
  <2>1. UNCHANGED <<pdfvars, next_page, leg, fold_empty, fold_has_cv, plan, admitted>>
    BY <1>4 DEF OnReadClosed, start_processing, FinishCall, request_finish, Overrides, pump,
        CancelRun, Scheduler!Withdraw
  <2>2. StreamTakes' => StreamTakes BY StatusStep DEF StatusOnward
  <2> QED BY <2>1, <2>2 DEF RouteKept
<1>5. CASE OnCancel
  <2>1. UNCHANGED <<pdfvars, next_page, leg, fold_empty, fold_has_cv, plan, admitted>>
    BY <1>5 DEF OnCancel, FinishCall, request_finish, Overrides, pump, CancelRun,
        Scheduler!Withdraw
  <2>2. StreamTakes' => StreamTakes BY StatusStep DEF StatusOnward
  <2> QED BY <2>1, <2>2 DEF RouteKept
<1>6. CASE OnWriteDone
  <2>1. UNCHANGED <<pdfvars, next_page, leg, fold_empty, fold_has_cv, plan, admitted>>
    BY <1>6 DEF OnWriteDone, pump, Scheduler!Credit
  <2>2. StreamTakes' => StreamTakes BY StatusStep DEF StatusOnward
  <2> QED BY <2>1, <2>2 DEF RouteKept
<1>7. CASE OnWriteFailed
  <2>1. UNCHANGED <<pdfvars, next_page, leg, fold_empty, fold_has_cv, plan, admitted>>
    BY <1>7 DEF OnWriteFailed, FinishCall, request_finish, Overrides, pump, CancelRun,
        Scheduler!Withdraw
  <2>2. StreamTakes' => StreamTakes BY StatusStep DEF StatusOnward
  <2> QED BY <2>1, <2>2 DEF RouteKept
<1>8. CASE OnDone
  <2>1. UNCHANGED <<pdfvars, next_page, leg, fold_empty, fold_has_cv, plan, admitted>>
    BY <1>8 DEF OnDone
  <2>2. StreamTakes' => StreamTakes BY StatusStep DEF StatusOnward
  <2> QED BY <2>1, <2>2 DEF RouteKept
<1>9. CASE DropBuffer
  <2>1. UNCHANGED <<pdfvars, next_page, leg, fold_empty, fold_has_cv, plan, admitted>>
    BY <1>9 DEF DropBuffer
  <2>2. StreamTakes' => StreamTakes BY StatusStep DEF StatusOnward
  <2> QED BY <2>1, <2>2 DEF RouteKept
<1>10. CASE ResolveRefused
  <2>1. UNCHANGED <<pdfvars, next_page, leg, fold_empty, fold_has_cv, plan, admitted>>
    BY <1>10 DEF ResolveRefused, take_bytes, ProcessEnds, FinishCall, request_finish, Overrides,
        pump, CancelRun, Scheduler!Withdraw
  <2>2. StreamTakes' => StreamTakes BY StatusStep DEF StatusOnward
  <2> QED BY <2>1, <2>2 DEF RouteKept
<1>11. ASSUME NEW pl \in Plans, ResolvePlan(pl) PROVE RouteKept'
  <2>1. UNCHANGED <<pdfvars, next_page, fold_empty, fold_has_cv, admitted>>
    BY <1>11 DEF ResolvePlan, take_bytes, FinishCall, request_finish, Overrides, pump,
        CancelRun, Scheduler!Withdraw
  <2>2. plan = {} /\ leg["pdf"] = "idle" BY <1>11 DEF ResolvePlan, StreamInv, GateKept, Legs
  <2>3. leg'["pdf"] \in {"idle", "planned", "router"} BY <1>11, <2>2 DEF ResolvePlan, Legs
  <2> QED BY <2>1, <2>2, <2>3 DEF RouteKept
<1>12. CASE ProcessLaunch
  <2>1. UNCHANGED <<pdfvars, next_page, leg, fold_empty, fold_has_cv, plan, admitted>>
    BY <1>12 DEF ProcessLaunch
  <2>2. StreamTakes' => StreamTakes BY StatusStep DEF StatusOnward
  <2> QED BY <2>1, <2>2 DEF RouteKept
<1>13. CASE ProcessGone
  <2>1. UNCHANGED <<pdfvars, next_page, leg, fold_empty, fold_has_cv, plan, admitted>>
    BY <1>13 DEF ProcessGone, ProcessEnds
  <2>2. StreamTakes' => StreamTakes BY StatusStep DEF StatusOnward
  <2> QED BY <2>1, <2>2 DEF RouteKept
<1>14. CASE ProcessThrows
  <2>1. UNCHANGED <<pdfvars, next_page, leg, fold_empty, fold_has_cv, plan, admitted>>
    BY <1>14 DEF ProcessThrows, ProcessEnds, FinishCall, request_finish, Overrides, pump,
        CancelRun, Scheduler!Withdraw
  <2>2. StreamTakes' => StreamTakes BY StatusStep DEF StatusOnward
  <2> QED BY <2>1, <2>2 DEF RouteKept
<1>15. CASE LaunchDone
  <2>1. UNCHANGED <<pdfvars, next_page, leg, fold_empty, fold_has_cv, plan, admitted>>
    BY <1>15 DEF LaunchDone
  <2>2. StreamTakes' => StreamTakes BY StatusStep DEF StatusOnward
  <2> QED BY <2>1, <2>2 DEF RouteKept
<1>16. ASSUME NEW c \in Legs, LaunchLeg(c) PROVE RouteKept'
  <2>1. UNCHANGED <<next_page, plan, admitted, fold_empty, fold_has_cv, pdf_next, pdf_streamed,
      pdf_held>>
    BY <1>16 DEF LaunchLeg
  <2>2. StreamTakes' => StreamTakes BY StatusStep DEF StatusOnward
  <2>3. Run \notin admitted BY <1>16 DEF LaunchLeg, StreamInv, AdmissionKept
  <2>4. CASE c = "leg"
    <3>1. leg["leg"] # "router" BY DEF StreamInv, GateKept
    <3>2. UNCHANGED <<pdf_open, pdf_run_open>> /\ leg'["pdf"] = leg["pdf"]
      BY <1>16, <2>4, <3>1 DEF LaunchLeg, StreamInv, TypeOK, ThreadTypeOK, Legs
    <3> QED BY <2>1, <2>2, <3>2 DEF RouteKept
  <2>5. CASE c = "pdf"
    <3>1. leg["pdf"] \in {"planned", "router"} /\ leg'["pdf"] \in {"reading", "running"}
      BY <1>16, <2>5 DEF LaunchLeg, StreamInv, TypeOK, ThreadTypeOK, Legs
    <3>2. pdf_next = 1 /\ pdf_streamed = 0 /\ pdf_held = <<>> /\ next_page = 1
      BY <2>3, <3>1 DEF RouteKept
    <3>3. 1 = 1 + Len(<<>>) /\ DOMAIN <<>> = {} OBVIOUS
    <3> QED BY <2>1, <2>3, <3>1, <3>2, <3>3 DEF RouteKept
  <2> QED BY <2>4, <2>5 DEF Legs
<1>17. ASSUME NEW who \in {"process", "pdf"}, SubmitRun(who) PROVE RouteKept'
  BY <1>17 DEF SubmitRun, Submitting, SubmitterAt, Scheduler!Admit, StreamInv, TypeOK,
     ThreadTypeOK, GateKept, AdmissionKept, RouteKept, Legs, RouteStates, Submitted, PdfAt
<1>18. ASSUME NEW who \in {"process", "pdf"}, SubmitRefused(who) PROVE RouteKept'
  <2>1. UNCHANGED <<pdfvars, next_page, fold_empty, fold_has_cv, plan, admitted>>
    BY <1>18 DEF SubmitRefused, Submitting, SubmitterAt, PartFailed, part_done,
        record_part_failure, FirstFailure, NoFinish, request_finish, Overrides, pump, CancelRun,
        Scheduler!Withdraw
  <2>3. leg' = leg \/ (leg["pdf"] = "submit" /\ leg' = [leg EXCEPT !["pdf"] = "done"])
    BY <1>18 DEF SubmitRefused, Submitting, SubmitterAt
  <2>4. leg'["pdf"] = leg["pdf"] \/ leg'["pdf"] = "done" BY <2>3 DEF StreamInv, TypeOK,
      ThreadTypeOK, Legs
  <2>2. StreamTakes' => StreamTakes BY StatusStep DEF StatusOnward
  <2> QED BY <2>1, <2>2, <2>4 DEF RouteKept
<1>19. ASSUME NEW who \in {"process", "pdf"}, SetTicket(who) PROVE RouteKept'
  <2>1. UNCHANGED <<pdfvars, next_page, fold_empty, fold_has_cv, plan, admitted>>
    BY <1>19 DEF SetTicket, Submitted, SubmitterAt, CancelRun, Scheduler!Withdraw
  <2>3. leg' = leg \/ (leg["pdf"] = "ticket" /\ leg' = [leg EXCEPT !["pdf"] = "done"])
    BY <1>19 DEF SetTicket, Submitted, SubmitterAt
  <2>4. leg'["pdf"] = leg["pdf"] \/ leg'["pdf"] = "done" BY <2>3 DEF StreamInv, TypeOK,
      ThreadTypeOK, Legs
  <2>2. StreamTakes' => StreamTakes BY StatusStep DEF StatusOnward
  <2> QED BY <2>1, <2>2, <2>4 DEF RouteKept
<1>20. ASSUME NEW c \in Legs, NEW success \in BOOLEAN, NEW k \in Nat, NEW streamed \in BOOLEAN,
      LegLands(c, success, k, streamed) PROVE RouteKept'
  <2>1. UNCHANGED <<pdfvars, next_page, plan, admitted, fold_empty, fold_has_cv>>
    BY <1>20 DEF LegLands, on_collector_done, DocumentArrived, DocumentRefused, PartFailed,
        PartSucceeded, part_done, CancelRun, Scheduler!Withdraw
  <2>2. StreamTakes' => StreamTakes BY StatusStep DEF StatusOnward
  <2>3. leg' = [leg EXCEPT ![c] = "done"] BY <1>20 DEF LegLands, on_collector_done
  <2>4. leg'["pdf"] = leg["pdf"] \/ leg'["pdf"] = "done" BY <2>3 DEF StreamInv, TypeOK,
      ThreadTypeOK, Legs
  <2> QED BY <2>1, <2>2, <2>4 DEF RouteKept
<1>21. ASSUME NEW clean \in BOOLEAN, PdfSlice(clean) PROVE RouteKept'
  <2>0. /\ UNCHANGED <<leg, plan, admitted, fold_has_cv>> /\ leg["pdf"] = "reading"
        /\ plan = {"pdf"}
    BY <1>21 DEF PdfSlice, NotStreamed, on_streamed_page, StreamInv, GateKept, RouteStates
  <2>t. pdf_next \in Nat /\ next_page \in Nat /\ pdf_streamed \in Nat /\ pdf_held \in Seq(Pages)
    BY StreamAssumption DEF StreamAssumption, StreamInv, TypeOK, ThreadTypeOK, PageTypeOK
  <2>s. StreamTakes' => StreamTakes BY StatusStep DEF StatusOnward
  <2>1. CASE ~(pdf_run_open /\ clean)
    <3>1. /\ ~pdf_run_open' /\ pdf_held' = Append(pdf_held, pdf_next) /\ pdf_next' = pdf_next +
             1
          /\ UNCHANGED <<next_page, fold_empty, pdf_streamed>>
      BY <1>21, <2>1 DEF PdfSlice, NotStreamed
    <3>2. ASSUME StreamTakes'
          PROVE  /\ pdf_next' = next_page' + Len(pdf_held')
                 /\ \A i \in DOMAIN pdf_held' : pdf_held'[i] = next_page' + i - 1
      <4>1. /\ pdf_next = next_page + Len(pdf_held)
            /\ \A i \in DOMAIN pdf_held : pdf_held[i] = next_page + i - 1
        BY <2>0, <2>s, <3>2 DEF RouteKept
      <4>2. Len(pdf_held') = Len(pdf_held) + 1 /\ Len(pdf_held) \in Nat BY <2>t, <3>1
      <4>3. pdf_next' = next_page' + Len(pdf_held') BY <2>t, <3>1, <4>1, <4>2
      <4>4. ASSUME NEW i \in DOMAIN pdf_held' PROVE pdf_held'[i] = next_page' + i - 1
        <5>1. i \in DOMAIN pdf_held \/ i = Len(pdf_held) + 1 BY <2>t, <3>1
        <5>2. CASE i \in DOMAIN pdf_held
          <6>1. pdf_held'[i] = pdf_held[i] BY <2>t, <3>1, <5>2
          <6> QED BY <3>1, <4>1, <5>2, <6>1
        <5>3. CASE i = Len(pdf_held) + 1
          <6>1. pdf_held'[i] = pdf_next BY <2>t, <3>1, <5>3
          <6> QED BY <2>t, <3>1, <4>1, <4>2, <5>3, <6>1
        <5> QED BY <5>1, <5>2, <5>3
      <4> QED BY <4>3, <4>4
    <3> QED BY <2>0, <3>1, <3>2 DEF RouteKept
  <2>2. CASE pdf_run_open /\ clean /\ StreamTakes
    <3>1. /\ next_page' = pdf_next + 1 /\ pdf_next' = pdf_next + 1
          /\ pdf_streamed' = pdf_streamed + 1 /\ UNCHANGED <<pdf_run_open, pdf_held>>
      BY <1>21, <2>2 DEF PdfSlice, on_streamed_page
    <3>2. pdf_held = <<>> BY <2>0, <2>2 DEF RouteKept
    <3>3. Len(<<>>) = 0 /\ DOMAIN <<>> = {} OBVIOUS
    <3>4. pdf_next' = next_page' + Len(pdf_held') /\ DOMAIN pdf_held' = {}
      BY <2>t, <3>1, <3>2, <3>3
    <3>5. pdf_streamed' > 0 BY <2>t, <3>1
    <3> QED BY <2>0, <3>1, <3>2, <3>4, <3>5 DEF RouteKept
  <2>3. CASE pdf_run_open /\ clean /\ ~StreamTakes
    <3>1. UNCHANGED <<next_page, fold_empty, pdf_streamed, pdf_held>>
      BY <1>21, <2>3 DEF PdfSlice, NotStreamed
    <3> QED BY <2>0, <2>s, <2>3, <3>1 DEF RouteKept
  <2> QED BY <2>1, <2>2, <2>3
<1>22. ASSUME NEW success \in BOOLEAN, NEW fast \in BOOLEAN, PdfEnd(success, fast) PROVE
      RouteKept'
  <2>1. UNCHANGED <<pdfvars, next_page, fold_empty, fold_has_cv, plan, admitted>>
    BY <1>22 DEF PdfEnd
  <2>2. StreamTakes' => StreamTakes BY StatusStep DEF StatusOnward
  <2>3. leg["pdf"] = "reading" /\ leg'["pdf"] \in RouteStates \ {"router", "reading"}
        /\ (leg'["pdf"] = "held" => pdf_streamed > 0)
    BY <1>22 DEF PdfEnd, PdfAt, StreamInv, TypeOK, ThreadTypeOK, Legs, RouteStates
  <2> QED BY <2>1, <2>2, <2>3 DEF RouteKept, RouteStates
<1>23. CASE PdfHeld
  <2>0. /\ UNCHANGED <<plan, admitted, fold_has_cv, pdf_next, pdf_streamed, pdf_run_open>>
        /\ leg["pdf"] = "held" /\ plan = {"pdf"} /\ pdf_streamed > 0
    BY <1>23 DEF PdfHeld, NotStreamed, on_streamed_page, StreamInv, GateKept, RouteStates,
        RouteKept
  <2>t. pdf_next \in Nat /\ next_page \in Nat /\ pdf_held \in Seq(Pages)
    BY StreamAssumption DEF StreamAssumption, StreamInv, TypeOK, ThreadTypeOK, PageTypeOK
  <2>1. CASE /\ pdf_held # <<>> /\ StreamTakes /\ on_streamed_page(Head(pdf_held))
             /\ pdf_held' = Tail(pdf_held) /\ UNCHANGED leg
    <3>1. /\ next_page' = Head(pdf_held) + 1 /\ pdf_held' = Tail(pdf_held) /\ UNCHANGED leg
      BY <2>1 DEF on_streamed_page
    <3>2. /\ pdf_next = next_page + Len(pdf_held)
          /\ \A i \in DOMAIN pdf_held : pdf_held[i] = next_page + i - 1
      BY <2>0, <2>1 DEF RouteKept
    <3>3. /\ Len(pdf_held) \in Nat \ {0} /\ 1 \in DOMAIN pdf_held /\ Head(pdf_held) =
             pdf_held[1]
          /\ Len(Tail(pdf_held)) = Len(pdf_held) - 1
          /\ \A i \in DOMAIN Tail(pdf_held) : /\ i \in Nat /\ i + 1 \in DOMAIN pdf_held
                                               /\ Tail(pdf_held)[i] = pdf_held[i + 1]
      BY <2>t, <2>1
    <3>4. next_page' = next_page + 1 BY <2>t, <3>1, <3>2, <3>3
    <3>5. pdf_next' = next_page' + Len(pdf_held') BY <2>0, <2>t, <3>1, <3>2, <3>3, <3>4
    <3>6. \A i \in DOMAIN pdf_held' : pdf_held'[i] = next_page' + i - 1
      BY <2>t, <3>1, <3>2, <3>3, <3>4
    <3> QED BY <2>0, <3>1, <3>5, <3>6 DEF RouteKept
  <2>2. CASE NotStreamed /\ UNCHANGED pdf_held /\ \E end \in {"deliver_ok", "deliver_failed"} : PdfAt(end)
    <3>1. UNCHANGED <<next_page, fold_empty, pdf_held>> BY <2>2 DEF NotStreamed
    <3>2. leg'["pdf"] \in {"deliver_ok", "deliver_failed"}
      BY <2>2 DEF PdfAt, StreamInv, TypeOK, ThreadTypeOK, Legs
    <3> QED BY <2>0, <3>1, <3>2 DEF RouteKept
  <2> QED BY <1>23, <2>1, <2>2 DEF PdfHeld
<1>24. CASE PdfLeft
  BY <1>24 DEF PdfLeft, PdfAt, StreamInv, TypeOK, ThreadTypeOK, GateKept, AdmissionKept,
     RouteKept, Legs, RouteStates, Submitting, Submitted, SubmitterAt
<1>25. CASE PdfFallback
  <2>1. UNCHANGED <<pdfvars, next_page, fold_empty, fold_has_cv, plan, admitted>>
        /\ leg["pdf"] = "fallback" /\ leg' = [leg EXCEPT !["pdf"] = "route"]
    BY <1>25 DEF PdfFallback, PdfAt
  <2>2. leg'["pdf"] = "route" BY <2>1 DEF StreamInv, TypeOK, ThreadTypeOK, Legs
  <2> QED BY <2>1, <2>2 DEF RouteKept
<1>26. CASE PdfSubmit
  BY <1>26 DEF PdfSubmit, PdfAt, StreamInv, TypeOK, ThreadTypeOK, GateKept, AdmissionKept,
     RouteKept, Legs, RouteStates, Submitting, Submitted, SubmitterAt
<1>27. CASE RunOpens
  <2>1. UNCHANGED <<pdfvars, next_page, leg, fold_empty, fold_has_cv, plan, admitted>>
    BY <1>27 DEF RunOpens, Scheduler!Size, Scheduler!Live
  <2>2. StreamTakes' => StreamTakes BY StatusStep DEF StatusOnward
  <2> QED BY <2>1, <2>2 DEF RouteKept
<1>28. CASE RunFails
  <2>1. UNCHANGED <<pdfvars, next_page, leg, fold_empty, fold_has_cv, plan, admitted>>
    BY <1>28 DEF RunFails, Scheduler!Live, Scheduler!Break
  <2>2. StreamTakes' => StreamTakes BY StatusStep DEF StatusOnward
  <2> QED BY <2>1, <2>2 DEF RouteKept
<1>29. CASE on_document
  <2>1. UNCHANGED <<pdfvars, next_page, leg, fold_empty, fold_has_cv, plan, admitted>>
    BY <1>29 DEF on_document, Scheduler!Announce
  <2>2. StreamTakes' => StreamTakes BY StatusStep DEF StatusOnward
  <2> QED BY <2>1, <2>2 DEF RouteKept
<1>30. ASSUME NEW p \in Pages, on_page(p) PROVE RouteKept'
  <2>1. UNCHANGED <<pdfvars, leg, plan, admitted>> BY <1>30 DEF on_page, Scheduler!DeliverPage
  <2>2. Run \in admitted BY <1>30 DEF on_page, Scheduler!DeliverPage, Scheduler!Deliverable,
      Scheduler!Live
  <2>3. leg["pdf"] \in {"idle", "planned", "running", "ticket", "done"}
    BY <2>2 DEF StreamInv, AdmissionKept
  <2>4. ~fold_empty' /\ ~fold_has_cv' => ~fold_empty /\ ~fold_has_cv BY <1>30 DEF on_page
  <2> QED BY <2>1, <2>2, <2>3, <2>4 DEF RouteKept
<1>31. ASSUME NEW p \in Pages, PageRefused(p) PROVE RouteKept'
  <2>1. UNCHANGED <<pdfvars, next_page, leg, fold_empty, fold_has_cv, plan, admitted>>
    BY <1>31 DEF PageRefused, Scheduler!Deliverable, Scheduler!Live, Scheduler!Withdraw,
        request_finish, Overrides, pump
  <2>2. StreamTakes' => StreamTakes BY StatusStep DEF StatusOnward
  <2> QED BY <2>1, <2>2 DEF RouteKept
<1>32. ASSUME NEW why \in {"none", "failed"}, on_scheduler_finish(why) PROVE RouteKept'
  <2>1. UNCHANGED <<pdfvars, next_page, leg, fold_empty, fold_has_cv, plan, admitted>>
    BY <1>32 DEF on_scheduler_finish, Scheduler!Finish, Scheduler!Live, RunStatus, PartFailed,
        PartSucceeded, FinishCall, part_done, record_part_failure, FirstFailure, NoFinish,
        request_finish, Overrides, pump
  <2>2. StreamTakes' => StreamTakes BY StatusStep DEF StatusOnward
  <2> QED BY <2>1, <2>2 DEF RouteKept
<1>33. CASE UNCHANGED vars
  <2>1. UNCHANGED <<pdfvars, next_page, leg, fold_empty, fold_has_cv, plan, admitted>>
    BY <1>33 DEF vars
  <2>2. StreamTakes' => StreamTakes BY StatusStep DEF StatusOnward
  <2> QED BY <2>1, <2>2 DEF RouteKept
<1> QED BY StepCases, <1>1, <1>2, <1>3, <1>4, <1>5, <1>6, <1>7, <1>8, <1>9, <1>10, <1>11, <1>12,
    <1>13, <1>14, <1>15, <1>16, <1>17, <1>18, <1>19, <1>20, <1>21, <1>22, <1>23, <1>24, <1>25,
    <1>26, <1>27, <1>28, <1>29, <1>30, <1>31, <1>32, <1>33

----------------------------------------------------------------------------
(* The CV run. *)

\* A live run is an open part, so the call has not been finished as OK.
LEMMA LiveUnended ==
  ASSUME StreamInv, Scheduler!Live(Run)
  PROVE  finish_requested => finish_status # "OK"
<1>1. RunOpen = 1 BY DEF RunOpen
<1>2. PartsOpen # 0 BY <1>1 DEF PartsOpen, LegOpen
<1> QED BY <1>2 DEF StreamInv, PartsKept

\* The buffer has room for every page the scheduler may deliver.
LEMMA NeverFull ==
  ASSUME StreamInv, NEW p, Scheduler!Deliverable(Run, p), ~client_cancelled
  PROVE  buffered_pages < PageWindow
BY DEF StreamInv, BufferKept, BufferMatchesCredits, Scheduler!Deliverable

\* The pages before a later one are more.
LEMMA UpTo == ASSUME NEW a \in Nat, NEW b \in Nat, b >= a PROVE 1..a - 1 \subseteq 1..b - 1
OBVIOUS

\* The pages that go out are the ones from next_page on.
LEMMA InOrderNext ==
  ASSUME PageTypeOK, NEW pages, NEW n \in InOrder(pages)
  PROVE  n \in 1..next_page + Cardinality(InOrder(pages)) - 1
<1>1. DocPages \in Int /\ next_page \in Nat \ {0} /\ n \in Int /\ next_page <= n
  BY StreamAssumption DEF StreamAssumption, PageTypeOK, InOrder
<1>2. next_page..n \subseteq InOrder(pages)
  <2> SUFFICES ASSUME NEW m \in next_page..n PROVE m \in InOrder(pages) OBVIOUS
  <2>1. m \in next_page..DocPages BY <1>1 DEF InOrder
  <2>2. \A q \in next_page..m : q \in next_page..n BY <1>1
  <2> QED BY <2>1, <2>2 DEF InOrder
<1>3. IsFiniteSet(InOrder(pages)) BY InOrderSpan
<1>4. Cardinality(InOrder(pages)) \in Nat BY <1>3, FS_CardinalityType
<1>5. Cardinality(next_page..n) <= Cardinality(InOrder(pages)) BY <1>2, <1>3, FS_Subset
<1>6. Cardinality(next_page..n) = n - next_page + 1
  <2>1. PICK a \in Int : a = next_page BY <1>1
  <2>2. Cardinality(a..n) = IF a > n THEN 0 ELSE n - a + 1 BY <1>1, FS_Interval
  <2> QED BY <1>1, <2>1, <2>2
<1> QED BY <1>1, <1>4, <1>5, <1>6

\* The run is live while its ticket is not stored: a finish takes the gate.
LEMMA SubmittedStep ==
  ASSUME StreamInv, SubmittedLive, [Next]_vars
  PROVE  SubmittedLive'
<1>1. ASSUME NEW names \in {"same", "none", "other"}, NEW size \in {0, 1}, NEW last \in BOOLEAN,
      NEW room \in BOOLEAN, OnChunk(names, size, last, room) PROVE SubmittedLive'
  BY <1>1 DEF OnChunk, FinishCall, request_finish, Overrides, pump, CancelRun, Scheduler!Withdraw,
     SubmittedLive, StreamInv, TypeOK, ThreadTypeOK, RunTypes, GateKept, AdmissionKept,
     Scheduler!Live, Submitting, Submitted, SubmitterAt, PdfAt, Legs, RouteStates
<1>2. CASE ClientHalfClose
  BY <1>2 DEF ClientHalfClose, SubmittedLive, StreamInv, TypeOK, ThreadTypeOK, RunTypes, GateKept,
     AdmissionKept, Scheduler!Live, Submitting, Submitted, SubmitterAt, PdfAt, Legs, RouteStates
<1>3. CASE ClientCancel
  BY <1>3 DEF ClientCancel, SubmittedLive, StreamInv, TypeOK, ThreadTypeOK, RunTypes, GateKept,
     AdmissionKept, Scheduler!Live, Submitting, Submitted, SubmitterAt, PdfAt, Legs, RouteStates
<1>4. CASE OnReadClosed
  BY <1>4 DEF OnReadClosed, start_processing, FinishCall, request_finish, Overrides, pump,
     CancelRun, Scheduler!Withdraw, SubmittedLive, StreamInv, TypeOK, ThreadTypeOK, RunTypes,
     GateKept, AdmissionKept, Scheduler!Live, Submitting, Submitted, SubmitterAt, PdfAt, Legs,
     RouteStates
<1>5. CASE OnCancel
  BY <1>5 DEF OnCancel, FinishCall, request_finish, Overrides, pump, CancelRun,
     Scheduler!Withdraw, SubmittedLive, StreamInv, TypeOK, ThreadTypeOK, RunTypes, GateKept,
     AdmissionKept, Scheduler!Live, Submitting, Submitted, SubmitterAt, PdfAt, Legs, RouteStates
<1>6. CASE OnWriteDone
  BY <1>6 DEF OnWriteDone, pump, Scheduler!Credit, SubmittedLive, StreamInv, TypeOK, ThreadTypeOK,
     RunTypes, GateKept, AdmissionKept, Scheduler!Live, Submitting, Submitted, SubmitterAt,
     PdfAt, Legs, RouteStates
<1>7. CASE OnWriteFailed
  BY <1>7 DEF OnWriteFailed, FinishCall, request_finish, Overrides, pump, CancelRun,
     Scheduler!Withdraw, SubmittedLive, StreamInv, TypeOK, ThreadTypeOK, RunTypes, GateKept,
     AdmissionKept, Scheduler!Live, Submitting, Submitted, SubmitterAt, PdfAt, Legs, RouteStates
<1>8. CASE OnDone
  BY <1>8 DEF OnDone, SubmittedLive, StreamInv, TypeOK, ThreadTypeOK, RunTypes, GateKept,
     AdmissionKept, Scheduler!Live, Submitting, Submitted, SubmitterAt, PdfAt, Legs, RouteStates
<1>9. CASE DropBuffer
  BY <1>9 DEF DropBuffer, SubmittedLive, StreamInv, TypeOK, ThreadTypeOK, RunTypes, GateKept,
     AdmissionKept, Scheduler!Live, Submitting, Submitted, SubmitterAt, PdfAt, Legs, RouteStates
<1>10. CASE ResolveRefused
  BY <1>10 DEF ResolveRefused, take_bytes, ProcessEnds, FinishCall, request_finish, Overrides,
     pump, CancelRun, Scheduler!Withdraw, SubmittedLive, StreamInv, TypeOK, ThreadTypeOK,
     RunTypes, GateKept, AdmissionKept, Scheduler!Live, Submitting, Submitted, SubmitterAt,
     PdfAt, Legs, RouteStates
<1>11. ASSUME NEW pl \in Plans, ResolvePlan(pl) PROVE SubmittedLive'
  BY <1>11 DEF ResolvePlan, take_bytes, FinishCall, request_finish, Overrides, pump, CancelRun,
     Scheduler!Withdraw, SubmittedLive, StreamInv, TypeOK, ThreadTypeOK, RunTypes, GateKept,
     AdmissionKept, Scheduler!Live, Submitting, Submitted, SubmitterAt, PdfAt, Legs, RouteStates
<1>12. CASE ProcessLaunch
  BY <1>12 DEF ProcessLaunch, SubmittedLive, StreamInv, TypeOK, ThreadTypeOK, RunTypes, GateKept,
     AdmissionKept, Scheduler!Live, Submitting, Submitted, SubmitterAt, PdfAt, Legs, RouteStates
<1>13. CASE ProcessGone
  BY <1>13 DEF ProcessGone, ProcessEnds, SubmittedLive, StreamInv, TypeOK, ThreadTypeOK, RunTypes,
     GateKept, AdmissionKept, Scheduler!Live, Submitting, Submitted, SubmitterAt, PdfAt, Legs,
     RouteStates
<1>14. CASE ProcessThrows
  BY <1>14 DEF ProcessThrows, ProcessEnds, FinishCall, request_finish, Overrides, pump, CancelRun,
     Scheduler!Withdraw, SubmittedLive, StreamInv, TypeOK, ThreadTypeOK, RunTypes, GateKept,
     AdmissionKept, Scheduler!Live, Submitting, Submitted, SubmitterAt, PdfAt, Legs, RouteStates
<1>15. CASE LaunchDone
  BY <1>15 DEF LaunchDone, SubmittedLive, StreamInv, TypeOK, ThreadTypeOK, RunTypes, GateKept,
     AdmissionKept, Scheduler!Live, Submitting, Submitted, SubmitterAt, PdfAt, Legs, RouteStates
<1>16. ASSUME NEW c \in Legs, LaunchLeg(c) PROVE SubmittedLive'
  BY <1>16 DEF LaunchLeg, SubmittedLive, StreamInv, TypeOK, ThreadTypeOK, RunTypes, GateKept,
     AdmissionKept, Scheduler!Live, Submitting, Submitted, SubmitterAt, PdfAt, Legs, RouteStates
<1>17. ASSUME NEW who \in {"process", "pdf"}, SubmitRun(who) PROVE SubmittedLive'
  BY <1>17 DEF SubmitRun, Submitting, SubmitterAt, Scheduler!Admit, SubmittedLive, StreamInv,
     TypeOK, ThreadTypeOK, RunTypes, GateKept, AdmissionKept, Scheduler!Live, Submitted, PdfAt,
     Legs, RouteStates
<1>18. ASSUME NEW who \in {"process", "pdf"}, SubmitRefused(who) PROVE SubmittedLive'
  BY <1>18 DEF SubmitRefused, Submitting, SubmitterAt, PartFailed, part_done, record_part_failure,
     FirstFailure, NoFinish, request_finish, Overrides, pump, CancelRun, Scheduler!Withdraw,
     SubmittedLive, StreamInv, TypeOK, ThreadTypeOK, RunTypes, GateKept, AdmissionKept,
     Scheduler!Live, Submitted, PdfAt, Legs, RouteStates
<1>19. ASSUME NEW who \in {"process", "pdf"}, SetTicket(who) PROVE SubmittedLive'
  BY <1>19 DEF SetTicket, Submitted, SubmitterAt, CancelRun, Scheduler!Withdraw, SubmittedLive,
     StreamInv, TypeOK, ThreadTypeOK, RunTypes, GateKept, AdmissionKept, Scheduler!Live,
     Submitting, PdfAt, Legs, RouteStates
<1>20. ASSUME NEW c \in Legs, NEW success \in BOOLEAN, NEW k \in Nat, NEW streamed \in BOOLEAN,
      LegLands(c, success, k, streamed) PROVE SubmittedLive'
  BY <1>20 DEF LegLands, on_collector_done, DocumentArrived, DocumentRefused, PartFailed,
     PartSucceeded, FinishCall, part_done, record_part_failure, FirstFailure, NoFinish,
     request_finish, Overrides, pump, CancelRun, Scheduler!Withdraw, SubmittedLive, StreamInv,
     TypeOK, ThreadTypeOK, RunTypes, GateKept, AdmissionKept, Scheduler!Live, Submitting,
     Submitted, SubmitterAt, PdfAt, Legs, RouteStates
<1>21. ASSUME NEW clean \in BOOLEAN, PdfSlice(clean) PROVE SubmittedLive'
  BY <1>21 DEF PdfSlice, NotStreamed, StreamTakes, on_streamed_page, pump, SubmittedLive,
     StreamInv, TypeOK, ThreadTypeOK, RunTypes, GateKept, AdmissionKept, Scheduler!Live,
     Submitting, Submitted, SubmitterAt, PdfAt, Legs, RouteStates
<1>22. ASSUME NEW success \in BOOLEAN, NEW fast \in BOOLEAN, PdfEnd(success, fast) PROVE
      SubmittedLive'
  BY <1>22 DEF PdfEnd, PdfAt, SubmittedLive, StreamInv, TypeOK, ThreadTypeOK, RunTypes, GateKept,
     AdmissionKept, Scheduler!Live, Submitting, Submitted, SubmitterAt, Legs, RouteStates
<1>23. CASE PdfHeld
  BY <1>23 DEF PdfHeld, PdfAt, NotStreamed, StreamTakes, on_streamed_page, pump, SubmittedLive,
     StreamInv, TypeOK, ThreadTypeOK, RunTypes, GateKept, AdmissionKept, Scheduler!Live,
     Submitting, Submitted, SubmitterAt, Legs, RouteStates
<1>24. CASE PdfLeft
  BY <1>24 DEF PdfLeft, PdfAt, SubmittedLive, StreamInv, TypeOK, ThreadTypeOK, RunTypes, GateKept,
     AdmissionKept, Scheduler!Live, Submitting, Submitted, SubmitterAt, Legs, RouteStates
<1>25. CASE PdfFallback
  BY <1>25 DEF PdfFallback, PdfAt, record_part_failure, SubmittedLive, StreamInv, TypeOK,
     ThreadTypeOK, RunTypes, GateKept, AdmissionKept, Scheduler!Live, Submitting, Submitted,
     SubmitterAt, Legs, RouteStates
<1>26. CASE PdfSubmit
  BY <1>26 DEF PdfSubmit, PdfAt, SubmittedLive, StreamInv, TypeOK, ThreadTypeOK, RunTypes,
     GateKept, AdmissionKept, Scheduler!Live, Submitting, Submitted, SubmitterAt, Legs,
     RouteStates
<1>27. CASE RunOpens
  BY <1>27 DEF RunOpens, Scheduler!Size, Scheduler!Live, SubmittedLive, StreamInv, TypeOK,
     ThreadTypeOK, RunTypes, GateKept, AdmissionKept, Submitting, Submitted, SubmitterAt, PdfAt,
     Legs, RouteStates
<1>28. CASE RunFails
  BY <1>28 DEF RunFails, Scheduler!Live, Scheduler!Break, SubmittedLive, StreamInv, TypeOK,
     ThreadTypeOK, RunTypes, GateKept, AdmissionKept, Submitting, Submitted, SubmitterAt, PdfAt,
     Legs, RouteStates
<1>29. CASE on_document
  BY <1>29 DEF on_document, Scheduler!Announce, SubmittedLive, StreamInv, TypeOK, ThreadTypeOK,
     RunTypes, GateKept, AdmissionKept, Scheduler!Live, Submitting, Submitted, SubmitterAt,
     PdfAt, Legs, RouteStates
<1>30. ASSUME NEW p \in Pages, on_page(p) PROVE SubmittedLive'
  BY <1>30 DEF on_page, pump, Scheduler!DeliverPage, Scheduler!Deliverable, Scheduler!Live,
     SubmittedLive, StreamInv, TypeOK, ThreadTypeOK, RunTypes, GateKept, AdmissionKept,
     Submitting, Submitted, SubmitterAt, PdfAt, Legs, RouteStates
<1>31. ASSUME NEW p \in Pages, PageRefused(p) PROVE SubmittedLive'
  BY <1>31 DEF PageRefused, Scheduler!Deliverable, Scheduler!Live, Scheduler!Withdraw,
     request_finish, Overrides, pump, SubmittedLive, StreamInv, TypeOK, ThreadTypeOK, RunTypes,
     GateKept, AdmissionKept, Submitting, Submitted, SubmitterAt, PdfAt, Legs, RouteStates
<1>32. ASSUME NEW why \in {"none", "failed"}, on_scheduler_finish(why) PROVE SubmittedLive'
  BY <1>32 DEF on_scheduler_finish, Scheduler!Finish, Scheduler!Live, RunStatus, PartFailed,
     PartSucceeded, FinishCall, part_done, record_part_failure, FirstFailure, NoFinish,
     request_finish, Overrides, pump, SubmittedLive, StreamInv, TypeOK, ThreadTypeOK, RunTypes,
     GateKept, AdmissionKept, Submitting, Submitted, SubmitterAt, PdfAt, Legs, RouteStates
<1>33. CASE UNCHANGED vars
  BY <1>33 DEF vars, SubmittedLive, StreamInv, TypeOK, ThreadTypeOK, RunTypes, GateKept,
     AdmissionKept, Scheduler!Live, Submitting, Submitted, SubmitterAt, PdfAt, Legs, RouteStates
<1> QED BY StepCases, <1>1, <1>2, <1>3, <1>4, <1>5, <1>6, <1>7, <1>8, <1>9, <1>10, <1>11, <1>12,
    <1>13, <1>14, <1>15, <1>16, <1>17, <1>18, <1>19, <1>20, <1>21, <1>22, <1>23, <1>24, <1>25,
    <1>26, <1>27, <1>28, <1>29, <1>30, <1>31, <1>32, <1>33

\* The run is withdrawn by a failure: its own, or one that finished the call.
LEMMA WithdrawnStep ==
  ASSUME StreamInv, SubmittedLive, WithdrawnFailed, [Next]_vars
  PROVE  WithdrawnFailed'
<1>1. ASSUME NEW names \in {"same", "none", "other"}, NEW size \in {0, 1}, NEW last \in BOOLEAN,
      NEW room \in BOOLEAN, OnChunk(names, size, last, room) PROVE WithdrawnFailed'
  <2>1. ~Unfailed => ~Unfailed' BY StatusStep DEF StatusOnward
  <2>2. CASE ticket_cancelled' # ticket_cancelled
    <3>1. finish_requested' /\ finish_status' # "OK" BY <1>1, <2>2 DEF OnChunk, FinishCall,
        request_finish, Overrides, pump, CancelRun, Scheduler!Withdraw, StreamInv, TicketsKept,
        TypeOK, FinishTypeOK
    <3> QED BY <3>1 DEF WithdrawnFailed, Unfailed
  <2>3. CASE UNCHANGED ticket_cancelled
    <3>1. UNCHANGED <<withdrawn, failed>> BY <1>1, <2>3 DEF OnChunk, FinishCall, request_finish,
        Overrides, pump, CancelRun, Scheduler!Withdraw
    <3> QED BY <2>1, <3>1 DEF WithdrawnFailed
  <2> QED BY <2>2, <2>3
<1>2. CASE ClientHalfClose
  <2>1. UNCHANGED <<withdrawn, failed>> BY <1>2 DEF ClientHalfClose
  <2>2. ~Unfailed => ~Unfailed' BY StatusStep DEF StatusOnward
  <2> QED BY <2>1, <2>2 DEF WithdrawnFailed
<1>3. CASE ClientCancel
  <2>1. UNCHANGED <<withdrawn, failed>> BY <1>3 DEF ClientCancel
  <2>2. ~Unfailed => ~Unfailed' BY StatusStep DEF StatusOnward
  <2> QED BY <2>1, <2>2 DEF WithdrawnFailed
<1>4. CASE OnReadClosed
  <2>1. ~Unfailed => ~Unfailed' BY StatusStep DEF StatusOnward
  <2>2. CASE ticket_cancelled' # ticket_cancelled
    <3>1. finish_requested' /\ finish_status' # "OK" BY <1>4, <2>2 DEF OnReadClosed,
        start_processing, FinishCall, request_finish, Overrides, pump, CancelRun,
        Scheduler!Withdraw, StreamInv, TicketsKept, TypeOK, FinishTypeOK
    <3> QED BY <3>1 DEF WithdrawnFailed, Unfailed
  <2>3. CASE UNCHANGED ticket_cancelled
    <3>1. UNCHANGED <<withdrawn, failed>> BY <1>4, <2>3 DEF OnReadClosed, start_processing,
        FinishCall, request_finish, Overrides, pump, CancelRun, Scheduler!Withdraw
    <3> QED BY <2>1, <3>1 DEF WithdrawnFailed
  <2> QED BY <2>2, <2>3
<1>5. CASE OnCancel
  <2>1. ~Unfailed => ~Unfailed' BY StatusStep DEF StatusOnward
  <2>2. CASE ticket_cancelled' # ticket_cancelled
    <3>1. finish_requested' /\ finish_status' # "OK" BY <1>5, <2>2 DEF OnCancel, FinishCall,
        request_finish, Overrides, pump, CancelRun, Scheduler!Withdraw, StreamInv, TicketsKept,
        TypeOK, FinishTypeOK
    <3> QED BY <3>1 DEF WithdrawnFailed, Unfailed
  <2>3. CASE UNCHANGED ticket_cancelled
    <3>1. UNCHANGED <<withdrawn, failed>> BY <1>5, <2>3 DEF OnCancel, FinishCall,
        request_finish, Overrides, pump, CancelRun, Scheduler!Withdraw
    <3> QED BY <2>1, <3>1 DEF WithdrawnFailed
  <2> QED BY <2>2, <2>3
<1>6. CASE OnWriteDone
  <2>1. UNCHANGED <<withdrawn, failed>> BY <1>6 DEF OnWriteDone, pump, Scheduler!Credit
  <2>2. ~Unfailed => ~Unfailed' BY StatusStep DEF StatusOnward
  <2> QED BY <2>1, <2>2 DEF WithdrawnFailed
<1>7. CASE OnWriteFailed
  <2>1. ~Unfailed => ~Unfailed' BY StatusStep DEF StatusOnward
  <2>2. CASE ticket_cancelled' # ticket_cancelled
    <3>1. finish_requested' /\ finish_status' # "OK" BY <1>7, <2>2 DEF OnWriteFailed,
        FinishCall, request_finish, Overrides, pump, CancelRun, Scheduler!Withdraw, StreamInv,
        TicketsKept, TypeOK, FinishTypeOK
    <3> QED BY <3>1 DEF WithdrawnFailed, Unfailed
  <2>3. CASE UNCHANGED ticket_cancelled
    <3>1. UNCHANGED <<withdrawn, failed>> BY <1>7, <2>3 DEF OnWriteFailed, FinishCall,
        request_finish, Overrides, pump, CancelRun, Scheduler!Withdraw
    <3> QED BY <2>1, <3>1 DEF WithdrawnFailed
  <2> QED BY <2>2, <2>3
<1>8. CASE OnDone
  <2>1. UNCHANGED <<withdrawn, failed>> BY <1>8 DEF OnDone
  <2>2. ~Unfailed => ~Unfailed' BY StatusStep DEF StatusOnward
  <2> QED BY <2>1, <2>2 DEF WithdrawnFailed
<1>9. CASE DropBuffer
  <2>1. UNCHANGED <<withdrawn, failed>> BY <1>9 DEF DropBuffer
  <2>2. ~Unfailed => ~Unfailed' BY StatusStep DEF StatusOnward
  <2> QED BY <2>1, <2>2 DEF WithdrawnFailed
<1>10. CASE ResolveRefused
  <2>1. ~Unfailed => ~Unfailed' BY StatusStep DEF StatusOnward
  <2>2. CASE ticket_cancelled' # ticket_cancelled
    <3>1. finish_requested' /\ finish_status' # "OK" BY <1>10, <2>2 DEF ResolveRefused,
        take_bytes, ProcessEnds, FinishCall, request_finish, Overrides, pump, CancelRun,
        Scheduler!Withdraw, StreamInv, TicketsKept, TypeOK, FinishTypeOK
    <3> QED BY <3>1 DEF WithdrawnFailed, Unfailed
  <2>3. CASE UNCHANGED ticket_cancelled
    <3>1. UNCHANGED <<withdrawn, failed>> BY <1>10, <2>3 DEF ResolveRefused, take_bytes,
        ProcessEnds, FinishCall, request_finish, Overrides, pump, CancelRun, Scheduler!Withdraw
    <3> QED BY <2>1, <3>1 DEF WithdrawnFailed
  <2> QED BY <2>2, <2>3
<1>11. ASSUME NEW pl \in Plans, ResolvePlan(pl) PROVE WithdrawnFailed'
  <2>1. ~Unfailed => ~Unfailed' BY StatusStep DEF StatusOnward
  <2>2. CASE ticket_cancelled' # ticket_cancelled
    <3>1. finish_requested' /\ finish_status' # "OK" BY <1>11, <2>2 DEF ResolvePlan, take_bytes,
        FinishCall, request_finish, Overrides, pump, CancelRun, Scheduler!Withdraw, StreamInv,
        TicketsKept, TypeOK, FinishTypeOK
    <3> QED BY <3>1 DEF WithdrawnFailed, Unfailed
  <2>3. CASE UNCHANGED ticket_cancelled
    <3>1. UNCHANGED <<withdrawn, failed>> BY <1>11, <2>3 DEF ResolvePlan, take_bytes,
        FinishCall, request_finish, Overrides, pump, CancelRun, Scheduler!Withdraw
    <3> QED BY <2>1, <3>1 DEF WithdrawnFailed
  <2> QED BY <2>2, <2>3
<1>12. CASE ProcessLaunch
  <2>1. UNCHANGED <<withdrawn, failed>> BY <1>12 DEF ProcessLaunch
  <2>2. ~Unfailed => ~Unfailed' BY StatusStep DEF StatusOnward
  <2> QED BY <2>1, <2>2 DEF WithdrawnFailed
<1>13. CASE ProcessGone
  <2>1. UNCHANGED <<withdrawn, failed>> BY <1>13 DEF ProcessGone, ProcessEnds
  <2>2. ~Unfailed => ~Unfailed' BY StatusStep DEF StatusOnward
  <2> QED BY <2>1, <2>2 DEF WithdrawnFailed
<1>14. CASE ProcessThrows
  <2>1. ~Unfailed => ~Unfailed' BY StatusStep DEF StatusOnward
  <2>2. CASE ticket_cancelled' # ticket_cancelled
    <3>1. finish_requested' /\ finish_status' # "OK" BY <1>14, <2>2 DEF ProcessThrows,
        ProcessEnds, FinishCall, request_finish, Overrides, pump, CancelRun, Scheduler!Withdraw,
        StreamInv, TicketsKept, TypeOK, FinishTypeOK
    <3> QED BY <3>1 DEF WithdrawnFailed, Unfailed
  <2>3. CASE UNCHANGED ticket_cancelled
    <3>1. UNCHANGED <<withdrawn, failed>> BY <1>14, <2>3 DEF ProcessThrows, ProcessEnds,
        FinishCall, request_finish, Overrides, pump, CancelRun, Scheduler!Withdraw
    <3> QED BY <2>1, <3>1 DEF WithdrawnFailed
  <2> QED BY <2>2, <2>3
<1>15. CASE LaunchDone
  <2>1. UNCHANGED <<withdrawn, failed>> BY <1>15 DEF LaunchDone
  <2>2. ~Unfailed => ~Unfailed' BY StatusStep DEF StatusOnward
  <2> QED BY <2>1, <2>2 DEF WithdrawnFailed
<1>16. ASSUME NEW c \in Legs, LaunchLeg(c) PROVE WithdrawnFailed'
  <2>1. UNCHANGED <<withdrawn, failed>> BY <1>16 DEF LaunchLeg
  <2>2. ~Unfailed => ~Unfailed' BY StatusStep DEF StatusOnward
  <2> QED BY <2>1, <2>2 DEF WithdrawnFailed
<1>17. ASSUME NEW who \in {"process", "pdf"}, SubmitRun(who) PROVE WithdrawnFailed'
  <2>1. UNCHANGED <<withdrawn, failed>> BY <1>17 DEF SubmitRun, Submitting, SubmitterAt,
      Scheduler!Admit
  <2>2. ~Unfailed => ~Unfailed' BY StatusStep DEF StatusOnward
  <2> QED BY <2>1, <2>2 DEF WithdrawnFailed
<1>18. ASSUME NEW who \in {"process", "pdf"}, SubmitRefused(who) PROVE WithdrawnFailed'
  <2>1. ~Unfailed => ~Unfailed' BY StatusStep DEF StatusOnward
  <2>2. CASE ticket_cancelled' # ticket_cancelled
    <3>1. finish_requested' /\ finish_status' # "OK" BY <1>18, <2>2 DEF SubmitRefused,
        Submitting, SubmitterAt, PartFailed, part_done, record_part_failure, FirstFailure,
        NoFinish, request_finish, Overrides, pump, CancelRun, Scheduler!Withdraw, StreamInv,
        TicketsKept, TypeOK, FinishTypeOK
    <3> QED BY <3>1 DEF WithdrawnFailed, Unfailed
  <2>3. CASE UNCHANGED ticket_cancelled
    <3>1. UNCHANGED <<withdrawn, failed>> BY <1>18, <2>3 DEF SubmitRefused, Submitting,
        SubmitterAt, PartFailed, part_done, record_part_failure, FirstFailure, NoFinish,
        request_finish, Overrides, pump, CancelRun, Scheduler!Withdraw
    <3> QED BY <2>1, <3>1 DEF WithdrawnFailed
  <2> QED BY <2>2, <2>3
<1>19. ASSUME NEW who \in {"process", "pdf"}, SetTicket(who) PROVE WithdrawnFailed'
  <2>1. Scheduler!Live(Run) BY <1>19 DEF SetTicket, SubmittedLive
  <2>2. finish_requested => ~Unfailed' BY <1>19, <2>1, LiveUnended DEF SetTicket, Unfailed
  <2>3. CASE finish_requested BY <2>2, <2>3 DEF WithdrawnFailed
  <2>4. CASE ~finish_requested
    <3>1. ticket_cancelled = FALSE BY <1>19 DEF SetTicket, StreamInv, TicketsKept, FinishTypeOK,
        TypeOK, AdmissionKept
    <3>2. UNCHANGED <<withdrawn, failed, finish_requested, finish_status>>
      <4>1. finish_requested = FALSE BY <2>4 DEF StreamInv, TypeOK, FinishTypeOK
      <4> QED BY <1>19, <3>1, <4>1 DEF SetTicket, CancelRun
    <3> QED BY <3>2 DEF WithdrawnFailed, Unfailed
  <2> QED BY <2>3, <2>4
<1>20. ASSUME NEW c \in Legs, NEW success \in BOOLEAN, NEW k \in Nat, NEW streamed \in BOOLEAN,
      LegLands(c, success, k, streamed) PROVE WithdrawnFailed'
  <2>1. ~Unfailed => ~Unfailed' BY StatusStep DEF StatusOnward
  <2>2. CASE ticket_cancelled' # ticket_cancelled
    <3>1. finish_requested' /\ finish_status' # "OK" BY <1>20, <2>2 DEF LegLands, LegLands,
        on_collector_done, DocumentArrived, DocumentRefused, PartFailed, PartSucceeded,
        FinishCall, part_done, record_part_failure, FirstFailure, NoFinish, request_finish,
        Overrides, pump, CancelRun, Scheduler!Withdraw, StreamInv, TicketsKept, TypeOK,
        FinishTypeOK
    <3> QED BY <3>1 DEF WithdrawnFailed, Unfailed
  <2>3. CASE UNCHANGED ticket_cancelled
    <3>1. UNCHANGED <<withdrawn, failed>> BY <1>20, <2>3 DEF LegLands, LegLands,
        on_collector_done, DocumentArrived, DocumentRefused, PartFailed, PartSucceeded,
        FinishCall, part_done, record_part_failure, FirstFailure, NoFinish, request_finish,
        Overrides, pump, CancelRun, Scheduler!Withdraw
    <3> QED BY <2>1, <3>1 DEF WithdrawnFailed
  <2> QED BY <2>2, <2>3
<1>21. ASSUME NEW clean \in BOOLEAN, PdfSlice(clean) PROVE WithdrawnFailed'
  <2>1. UNCHANGED <<withdrawn, failed>> BY <1>21 DEF PdfSlice, NotStreamed, StreamTakes,
      on_streamed_page, pump
  <2>2. ~Unfailed => ~Unfailed' BY StatusStep DEF StatusOnward
  <2> QED BY <2>1, <2>2 DEF WithdrawnFailed
<1>22. ASSUME NEW success \in BOOLEAN, NEW fast \in BOOLEAN, PdfEnd(success, fast) PROVE
      WithdrawnFailed'
  <2>1. UNCHANGED <<withdrawn, failed>> BY <1>22 DEF PdfEnd, PdfAt
  <2>2. ~Unfailed => ~Unfailed' BY StatusStep DEF StatusOnward
  <2> QED BY <2>1, <2>2 DEF WithdrawnFailed
<1>23. CASE PdfHeld
  <2>1. UNCHANGED <<withdrawn, failed>> BY <1>23 DEF PdfHeld, PdfAt, NotStreamed, StreamTakes,
      on_streamed_page, pump
  <2>2. ~Unfailed => ~Unfailed' BY StatusStep DEF StatusOnward
  <2> QED BY <2>1, <2>2 DEF WithdrawnFailed
<1>24. CASE PdfLeft
  <2>1. UNCHANGED <<withdrawn, failed>> BY <1>24 DEF PdfLeft, PdfAt
  <2>2. ~Unfailed => ~Unfailed' BY StatusStep DEF StatusOnward
  <2> QED BY <2>1, <2>2 DEF WithdrawnFailed
<1>25. CASE PdfFallback
  <2>1. UNCHANGED <<withdrawn, failed>> BY <1>25 DEF PdfFallback, PdfAt, record_part_failure
  <2>2. ~Unfailed => ~Unfailed' BY StatusStep DEF StatusOnward
  <2> QED BY <2>1, <2>2 DEF WithdrawnFailed
<1>26. CASE PdfSubmit
  <2>1. UNCHANGED <<withdrawn, failed>> BY <1>26 DEF PdfSubmit, PdfAt
  <2>2. ~Unfailed => ~Unfailed' BY StatusStep DEF StatusOnward
  <2> QED BY <2>1, <2>2 DEF WithdrawnFailed
<1>27. CASE RunOpens
  <2>1. UNCHANGED <<withdrawn, failed>> BY <1>27 DEF RunOpens, Scheduler!Size, Scheduler!Live
  <2>2. ~Unfailed => ~Unfailed' BY StatusStep DEF StatusOnward
  <2> QED BY <2>1, <2>2 DEF WithdrawnFailed
<1>28. CASE RunFails
  <2>1. failed'[Run] BY <1>28 DEF RunFails, Scheduler!Break, StreamInv, RunTypes, Run
  <2> QED BY <2>1 DEF WithdrawnFailed
<1>29. CASE on_document
  <2>1. UNCHANGED <<withdrawn, failed>> BY <1>29 DEF on_document, Scheduler!Announce
  <2>2. ~Unfailed => ~Unfailed' BY StatusStep DEF StatusOnward
  <2> QED BY <2>1, <2>2 DEF WithdrawnFailed
<1>30. ASSUME NEW p \in Pages, on_page(p) PROVE WithdrawnFailed'
  <2>1. UNCHANGED <<withdrawn, failed>> BY <1>30 DEF on_page, pump, Scheduler!DeliverPage,
      Scheduler!Deliverable, Scheduler!Live
  <2>2. ~Unfailed => ~Unfailed' BY StatusStep DEF StatusOnward
  <2> QED BY <2>1, <2>2 DEF WithdrawnFailed
<1>31. ASSUME NEW p \in Pages, PageRefused(p) PROVE WithdrawnFailed'
  <2>1. Scheduler!Live(Run) /\ Scheduler!Deliverable(Run, p) BY <1>31 DEF PageRefused,
      Scheduler!Deliverable
  <2>n. buffered_pages \in Nat /\ PageWindow \in Nat BY StreamAssumption DEF StreamInv, TypeOK,
      PageTypeOK, StreamAssumption
  <2>l. ~client_cancelled => buffered_pages < PageWindow BY <2>1, NeverFull
  <2>p. gone \/ client_cancelled \/ buffered_pages >= PageWindow BY <1>31 DEF PageRefused
  <2>2. gone \/ client_cancelled BY <2>n, <2>l, <2>p
  <2>3. finish_requested BY <2>2 DEF StreamInv, TicketsKept
  <2>4. ~Unfailed BY <2>1, <2>3, LiveUnended DEF Unfailed
  <2>5. ~Unfailed' BY <2>4, StatusStep DEF StatusOnward
  <2> QED BY <2>5 DEF WithdrawnFailed
<1>32. ASSUME NEW why \in {"none", "failed"}, on_scheduler_finish(why) PROVE WithdrawnFailed'
  <2>1. failed'[Run] \/ UNCHANGED <<withdrawn, failed>>
    BY <1>32 DEF on_scheduler_finish, Scheduler!Finish, StreamInv, RunTypes, Run
  <2>2. ~Unfailed => ~Unfailed' BY StatusStep DEF StatusOnward
  <2> QED BY <2>1, <2>2 DEF WithdrawnFailed
<1>33. CASE UNCHANGED vars
  <2>1. UNCHANGED <<withdrawn, failed>> BY <1>33 DEF vars
  <2>2. ~Unfailed => ~Unfailed' BY StatusStep DEF StatusOnward
  <2> QED BY <2>1, <2>2 DEF WithdrawnFailed
<1> QED BY StepCases, <1>1, <1>2, <1>3, <1>4, <1>5, <1>6, <1>7, <1>8, <1>9, <1>10, <1>11, <1>12,
    <1>13, <1>14, <1>15, <1>16, <1>17, <1>18, <1>19, <1>20, <1>21, <1>22, <1>23, <1>24, <1>25,
    <1>26, <1>27, <1>28, <1>29, <1>30, <1>31, <1>32, <1>33

\* An accepted page goes out or waits.
LEMMA TakenStep ==
  ASSUME StreamInv, TypeOK', RouteKept, TakenOut, [Next]_vars
  PROVE  TakenOut'
<1>1. ASSUME NEW names \in {"same", "none", "other"}, NEW size \in {0, 1}, NEW last \in BOOLEAN,
      NEW room \in BOOLEAN, OnChunk(names, size, last, room) PROVE TakenOut'
  <2>1. UNCHANGED <<taken, hi, next_page, completed_pages>> BY <1>1 DEF OnChunk, FinishCall,
      request_finish, Overrides, pump, CancelRun, Scheduler!Withdraw
  <2> QED BY <2>1 DEF TakenOut
<1>2. CASE ClientHalfClose
  <2>1. UNCHANGED <<taken, hi, next_page, completed_pages>> BY <1>2 DEF ClientHalfClose
  <2> QED BY <2>1 DEF TakenOut
<1>3. CASE ClientCancel
  <2>1. UNCHANGED <<taken, hi, next_page, completed_pages>> BY <1>3 DEF ClientCancel
  <2> QED BY <2>1 DEF TakenOut
<1>4. CASE OnReadClosed
  <2>1. UNCHANGED <<taken, hi, next_page, completed_pages>> BY <1>4 DEF OnReadClosed,
      start_processing, FinishCall, request_finish, Overrides, pump, CancelRun,
      Scheduler!Withdraw
  <2> QED BY <2>1 DEF TakenOut
<1>5. CASE OnCancel
  <2>1. UNCHANGED <<taken, hi, next_page, completed_pages>> BY <1>5 DEF OnCancel, FinishCall,
      request_finish, Overrides, pump, CancelRun, Scheduler!Withdraw
  <2> QED BY <2>1 DEF TakenOut
<1>6. CASE OnWriteDone
  <2>1. UNCHANGED <<taken, hi, next_page, completed_pages>> BY <1>6 DEF OnWriteDone, pump,
      Scheduler!Credit
  <2> QED BY <2>1 DEF TakenOut
<1>7. CASE OnWriteFailed
  <2>1. UNCHANGED <<taken, hi, next_page, completed_pages>> BY <1>7 DEF OnWriteFailed,
      FinishCall, request_finish, Overrides, pump, CancelRun, Scheduler!Withdraw
  <2> QED BY <2>1 DEF TakenOut
<1>8. CASE OnDone
  <2>1. UNCHANGED <<taken, hi, next_page, completed_pages>> BY <1>8 DEF OnDone
  <2> QED BY <2>1 DEF TakenOut
<1>9. CASE DropBuffer
  <2>1. UNCHANGED <<taken, hi, next_page, completed_pages>> BY <1>9 DEF DropBuffer
  <2> QED BY <2>1 DEF TakenOut
<1>10. CASE ResolveRefused
  <2>1. UNCHANGED <<taken, hi, next_page, completed_pages>> BY <1>10 DEF ResolveRefused,
      take_bytes, ProcessEnds, FinishCall, request_finish, Overrides, pump, CancelRun,
      Scheduler!Withdraw
  <2> QED BY <2>1 DEF TakenOut
<1>11. ASSUME NEW pl \in Plans, ResolvePlan(pl) PROVE TakenOut'
  <2>1. UNCHANGED <<taken, hi, next_page, completed_pages>> BY <1>11 DEF ResolvePlan,
      take_bytes, FinishCall, request_finish, Overrides, pump, CancelRun, Scheduler!Withdraw
  <2> QED BY <2>1 DEF TakenOut
<1>12. CASE ProcessLaunch
  <2>1. UNCHANGED <<taken, hi, next_page, completed_pages>> BY <1>12 DEF ProcessLaunch
  <2> QED BY <2>1 DEF TakenOut
<1>13. CASE ProcessGone
  <2>1. UNCHANGED <<taken, hi, next_page, completed_pages>> BY <1>13 DEF ProcessGone,
      ProcessEnds
  <2> QED BY <2>1 DEF TakenOut
<1>14. CASE ProcessThrows
  <2>1. UNCHANGED <<taken, hi, next_page, completed_pages>> BY <1>14 DEF ProcessThrows,
      ProcessEnds, FinishCall, request_finish, Overrides, pump, CancelRun, Scheduler!Withdraw
  <2> QED BY <2>1 DEF TakenOut
<1>15. CASE LaunchDone
  <2>1. UNCHANGED <<taken, hi, next_page, completed_pages>> BY <1>15 DEF LaunchDone
  <2> QED BY <2>1 DEF TakenOut
<1>16. ASSUME NEW c \in Legs, LaunchLeg(c) PROVE TakenOut'
  <2>1. UNCHANGED <<taken, hi, next_page, completed_pages>> BY <1>16 DEF LaunchLeg
  <2> QED BY <2>1 DEF TakenOut
<1>17. ASSUME NEW who \in {"process", "pdf"}, SubmitRun(who) PROVE TakenOut'
  <2>1. UNCHANGED <<taken, hi, next_page, completed_pages>> BY <1>17 DEF SubmitRun, Submitting,
      SubmitterAt, Scheduler!Admit
  <2> QED BY <2>1 DEF TakenOut
<1>18. ASSUME NEW who \in {"process", "pdf"}, SubmitRefused(who) PROVE TakenOut'
  <2>1. UNCHANGED <<taken, hi, next_page, completed_pages>> BY <1>18 DEF SubmitRefused,
      Submitting, SubmitterAt, PartFailed, part_done, record_part_failure, FirstFailure,
      NoFinish, request_finish, Overrides, pump, CancelRun, Scheduler!Withdraw
  <2> QED BY <2>1 DEF TakenOut
<1>19. ASSUME NEW who \in {"process", "pdf"}, SetTicket(who) PROVE TakenOut'
  <2>1. UNCHANGED <<taken, hi, next_page, completed_pages>> BY <1>19 DEF SetTicket, Submitted,
      SubmitterAt, CancelRun, Scheduler!Withdraw
  <2> QED BY <2>1 DEF TakenOut
<1>20. ASSUME NEW c \in Legs, NEW success \in BOOLEAN, NEW k \in Nat, NEW streamed \in BOOLEAN,
      LegLands(c, success, k, streamed) PROVE TakenOut'
  <2>1. UNCHANGED <<taken, hi, next_page, completed_pages>> BY <1>20 DEF LegLands, LegLands,
      on_collector_done, DocumentArrived, DocumentRefused, PartFailed, PartSucceeded,
      FinishCall, part_done, record_part_failure, FirstFailure, NoFinish, request_finish,
      Overrides, pump, CancelRun, Scheduler!Withdraw
  <2> QED BY <2>1 DEF TakenOut
<1>21. ASSUME NEW clean \in BOOLEAN, PdfSlice(clean) PROVE TakenOut'
  <2>0. next_page \in Nat /\ next_page' \in Nat BY DEF TypeOK, PageTypeOK, StreamInv
  <2>1. UNCHANGED <<taken, hi, completed_pages>> BY <1>21 DEF PdfSlice, NotStreamed,
      StreamTakes, on_streamed_page, pump
  <2>2. next_page' >= next_page
    <3>1. CASE UNCHANGED next_page BY <2>0, <3>1
    <3>2. CASE StreamTakes /\ pdf_run_open /\ next_page' = pdf_next + 1
      <4>1. leg["pdf"] = "reading" BY <1>21 DEF PdfSlice
      <4>2. pdf_next = next_page + Len(pdf_held) /\ pdf_held = <<>> BY <3>2, <4>1 DEF RouteKept
      <4>3. Len(<<>>) = 0 OBVIOUS
      <4> QED BY <2>0, <3>2, <4>2, <4>3
    <3> QED BY <1>21, <3>1, <3>2 DEF PdfSlice, NotStreamed, on_streamed_page
  <2>3. 1..next_page - 1 \subseteq 1..next_page' - 1 BY <2>0, <2>2, UpTo
  <2> QED BY <2>1, <2>3 DEF TakenOut
<1>22. ASSUME NEW success \in BOOLEAN, NEW fast \in BOOLEAN, PdfEnd(success, fast) PROVE
      TakenOut'
  <2>1. UNCHANGED <<taken, hi, next_page, completed_pages>> BY <1>22 DEF PdfEnd, PdfAt
  <2> QED BY <2>1 DEF TakenOut
<1>23. CASE PdfHeld
  <2>0. next_page \in Nat /\ next_page' \in Nat BY DEF TypeOK, PageTypeOK, StreamInv
  <2>1. UNCHANGED <<taken, hi, completed_pages>> BY <1>23 DEF PdfHeld, PdfAt, NotStreamed,
      StreamTakes, on_streamed_page, pump
  <2>2. next_page' >= next_page
    <3>1. CASE UNCHANGED next_page BY <2>0, <3>1
    <3>2. CASE StreamTakes /\ pdf_held # <<>> /\ next_page' = Head(pdf_held) + 1
      <4>1. leg["pdf"] = "held" BY <1>23 DEF PdfHeld
      <4>2. \A i \in DOMAIN pdf_held : pdf_held[i] = next_page + i - 1 BY <3>2, <4>1 DEF
          RouteKept
      <4>3. 1 \in DOMAIN pdf_held /\ Head(pdf_held) = pdf_held[1]
        BY <3>2 DEF StreamInv, TypeOK, ThreadTypeOK
      <4>4. Head(pdf_held) = next_page BY <2>0, <4>2, <4>3
      <4> QED BY <2>0, <3>2, <4>4
    <3> QED BY <1>23, <3>1, <3>2 DEF PdfHeld, NotStreamed, on_streamed_page
  <2>3. 1..next_page - 1 \subseteq 1..next_page' - 1 BY <2>0, <2>2, UpTo
  <2> QED BY <2>1, <2>3 DEF TakenOut
<1>24. CASE PdfLeft
  <2>1. UNCHANGED <<taken, hi, next_page, completed_pages>> BY <1>24 DEF PdfLeft, PdfAt
  <2> QED BY <2>1 DEF TakenOut
<1>25. CASE PdfFallback
  <2>1. UNCHANGED <<taken, hi, next_page, completed_pages>> BY <1>25 DEF PdfFallback, PdfAt,
      record_part_failure
  <2> QED BY <2>1 DEF TakenOut
<1>26. CASE PdfSubmit
  <2>1. UNCHANGED <<taken, hi, next_page, completed_pages>> BY <1>26 DEF PdfSubmit, PdfAt
  <2> QED BY <2>1 DEF TakenOut
<1>27. CASE RunOpens
  <2>1. hi'[Run] # 0 BY <1>27, StreamAssumption DEF RunOpens, Scheduler!Size, StreamInv,
      RunTypes, Run, StreamAssumption
  <2>2. UNCHANGED <<taken, next_page, completed_pages>> BY <1>27 DEF RunOpens, Scheduler!Size
  <2> QED BY <2>1, <2>2 DEF TakenOut
<1>28. CASE RunFails
  <2>1. UNCHANGED <<taken, hi, next_page, completed_pages>> BY <1>28 DEF RunFails,
      Scheduler!Live, Scheduler!Break
  <2> QED BY <2>1 DEF TakenOut
<1>29. CASE on_document
  <2>1. UNCHANGED <<taken, hi, next_page, completed_pages>> BY <1>29 DEF on_document,
      Scheduler!Announce
  <2> QED BY <2>1 DEF TakenOut
<1>30. ASSUME NEW p \in Pages, on_page(p) PROVE TakenOut'
  <2> DEFINE out == InOrder(completed_pages \cup {p})
  <2>0. /\ next_page \in Nat \ {0} /\ IsFiniteSet(out) /\ Cardinality(out) \in Nat
    BY InOrderSpan, FS_CardinalityType DEF StreamInv, TypeOK, PageTypeOK
  <2>1. /\ next_page' = next_page + Cardinality(out) /\ UNCHANGED hi
        /\ completed_pages' = (completed_pages \cup {p}) \ out
        /\ taken' = [taken EXCEPT ![Run] = taken[Run] \cup {p}]
    BY <1>30, SMTT(30) DEF on_page, Scheduler!DeliverPage
  <2>2. taken'[Run] = taken[Run] \cup {p} BY <2>1 DEF StreamInv, RunTypes, Run
  <2>3. \A n \in out : n \in 1..next_page + Cardinality(out) - 1
    BY InOrderNext DEF StreamInv, TypeOK
  <2> HIDE DEF out
  <2>4. next_page' \in Nat /\ next_page' >= next_page BY <2>0, <2>1
  <2>7. 1..next_page - 1 \subseteq 1..next_page' - 1 BY <2>0, <2>4, UpTo
  <2>5. taken'[Run] \subseteq 1..next_page' - 1 \cup completed_pages'
    <3>1. taken[Run] \subseteq 1..next_page - 1 \cup completed_pages BY DEF TakenOut
    <3>3. next_page' - 1 = next_page + Cardinality(out) - 1 BY <2>0, <2>1
    <3>2. \A n \in out : n \in 1..next_page' - 1 BY <2>3, <3>3
    <3> QED BY <2>1, <2>2, <2>7, <3>1, <3>2
  <2>6. hi[Run] # 0
    <3>1. p \in lo[Run]..hi[Run] BY <1>30 DEF on_page, Scheduler!DeliverPage,
        Scheduler!Deliverable
    <3>2. lo[Run] \in Nat \ {0} /\ hi[Run] \in Nat BY StreamAssumption DEF StreamInv, RunTypes,
        Run, Pages, StreamAssumption
    <3> QED BY <3>1, <3>2
  <2> QED BY <2>1, <2>5, <2>6 DEF TakenOut
<1>31. ASSUME NEW p \in Pages, PageRefused(p) PROVE TakenOut'
  <2>1. Scheduler!Live(Run) /\ Scheduler!Deliverable(Run, p) BY <1>31 DEF PageRefused,
      Scheduler!Deliverable
  <2>n. buffered_pages \in Nat /\ PageWindow \in Nat BY StreamAssumption DEF StreamInv, TypeOK,
      PageTypeOK, StreamAssumption
  <2>l. ~client_cancelled => buffered_pages < PageWindow BY <2>1, NeverFull
  <2>p. gone \/ client_cancelled \/ buffered_pages >= PageWindow BY <1>31 DEF PageRefused
  <2>2. gone \/ client_cancelled BY <2>n, <2>l, <2>p
  <2>3. ~(~gone /\ ~client_cancelled /\ buffered_pages >= PageWindow) BY <2>2
  <2>4. UNCHANGED <<taken, hi, next_page, completed_pages>> BY <1>31, <2>3 DEF PageRefused,
      Scheduler!Withdraw
  <2> QED BY <2>4 DEF TakenOut
<1>32. ASSUME NEW why \in {"none", "failed"}, on_scheduler_finish(why) PROVE TakenOut'
  <2>1. UNCHANGED <<taken, hi, next_page, completed_pages>> BY <1>32 DEF on_scheduler_finish,
      Scheduler!Finish, Scheduler!Live, RunStatus, PartFailed, PartSucceeded, FinishCall,
      part_done, record_part_failure, FirstFailure, NoFinish, request_finish, Overrides, pump
  <2> QED BY <2>1 DEF TakenOut
<1>33. CASE UNCHANGED vars
  <2>1. UNCHANGED <<taken, hi, next_page, completed_pages>> BY <1>33 DEF vars
  <2> QED BY <2>1 DEF TakenOut
<1> QED BY StepCases, <1>1, <1>2, <1>3, <1>4, <1>5, <1>6, <1>7, <1>8, <1>9, <1>10, <1>11, <1>12,
    <1>13, <1>14, <1>15, <1>16, <1>17, <1>18, <1>19, <1>20, <1>21, <1>22, <1>23, <1>24, <1>25,
    <1>26, <1>27, <1>28, <1>29, <1>30, <1>31, <1>32, <1>33

----------------------------------------------------------------------------
(* What every collector of the plan leaves behind. *)

\* Nothing that is to be written is taken back.
OnlyMore == \A e : Has(Outgoing, e) => Has(Outgoing', e)

\* A part that lands adds its events.
LEMMA PartAdds ==
  ASSUME StreamInv, wire \in Seq(EventType), NEW r \in Seq(EventType), NEW settled,
         part_done(events \o r, settled), succeeded_parts' \in Nat
  PROVE  OnlyMore /\ \A e : Has(r, e) => Has(Outgoing', e)
<1>1. Joined(r) \/ Completed(r, settled) BY PartDoneJoins
<1>2. Outgoing \in Seq(EventType)
  <2>1. events \in Seq(EventType) BY DEF StreamInv, TypeOK, QueueTypeOK
  <2> QED BY <2>1 DEF Outgoing
<1>3. Outgoing \o r \in Seq(EventType) /\ \A e : Has(Outgoing \o r, e) <=> Has(Outgoing, e) \/ Has(r, e)
  <2>1. Outgoing \o r \in Seq(EventType) BY <1>2
  <2> QED BY <1>2, <2>1, JoinHas
<1>4. CASE Joined(r) BY <1>3, <1>4 DEF Joined, OnlyMore
<1>5. CASE Completed(r, settled)
  <2>1. PICK with \in BOOLEAN :
          Outgoing' = (Outgoing \o r) \o (FoldDelta(settled, with) \o <<Complete>>)
    BY <1>5 DEF Completed
  <2>2. \A e : Has(Outgoing \o r, e) => Has(Outgoing', e) BY <1>3, <2>1, FoldDeltaTyped, JoinHas
  <2> QED BY <1>3, <2>2 DEF OnlyMore
<1> QED BY <1>1, <1>4, <1>5

\* A part that lands with nothing to say takes nothing back.
LEMMA PartStays ==
  ASSUME StreamInv, TypeOK', wire \in Seq(EventType), NEW settled, part_done(events, settled)
  PROVE  OnlyMore
<1>1. events \o <<>> = events /\ <<>> \in Seq(EventType) /\ succeeded_parts' \in Nat
  BY DEF StreamInv, TypeOK, QueueTypeOK, FinishTypeOK
<1>2. part_done(events \o <<>>, settled) BY <1>1
<1> QED BY <1>1, <1>2, PartAdds

\* A Document that arrives is to be written.
LEMMA ArrivedAdds ==
  ASSUME StreamInv, TypeOK', wire \in Seq(EventType), NEW c \in Legs, NEW k \in Nat,
         NEW streamed \in BOOLEAN, DocumentArrived(c, k, streamed)
  PROVE  OnlyMore /\ Has(Outgoing', Document(c))
<1>1. PICK changed \in BOOLEAN :
        /\ DocumentTail(c, k, streamed, changed) \in Seq(EventType)
        /\ part_done(events \o DocumentTail(c, k, streamed, changed),
                     fold_settled \/ (streamed /\ ~fold_has_cv /\ ~fold_settled))
  BY ArrivedTail
<1> DEFINE pages == IF streamed THEN <<>> ELSE [p \in 1..k |-> ProjectedPage(c, p)]
           settles == streamed /\ ~fold_has_cv /\ ~fold_settled
           rep == IF changed /\ (settles \/ pages # <<>>) THEN <<Repair(c)>> ELSE <<>>
           d == <<Document(c)>>
<1>2. DocumentTail(c, k, streamed, changed) = pages \o (rep \o d) BY DEF DocumentTail
<1>3. pages \in Seq(EventType) /\ rep \in Seq(EventType) /\ d \in Seq(EventType)
  <2>0. c \in Collectors BY DEF Legs, Collectors
  <2>1. \A p \in Nat : ProjectedPage(c, p) \in EventType BY <2>0, Kinds
  <2>2. [p \in 1..k |-> ProjectedPage(c, p)] \in Seq(EventType) BY <2>1
  <2>3. Repair(c) \in EventType /\ Document(c) \in EventType BY <2>0, Kinds
  <2>4. pages \in Seq(EventType) BY <2>2
  <2> HIDE DEF pages, settles
  <2> QED BY <2>3, <2>4
<1>4. Has(d, Document(c))
  <2>1. 1 \in DOMAIN d /\ d[1] = Document(c) OBVIOUS
  <2> QED BY <2>1 DEF Has
<1> HIDE DEF pages, rep, d
<1>5. Has(pages \o (rep \o d), Document(c))
  <2>1. Has(rep \o d, Document(c)) /\ rep \o d \in Seq(EventType) BY <1>3, <1>4, JoinHas
  <2> QED BY <1>3, <2>1, JoinHas
<1>6. succeeded_parts' \in Nat BY DEF TypeOK, FinishTypeOK
<1> QED BY <1>1, <1>2, <1>5, <1>6, PartAdds

\* Only a write that failed, which fails the call, takes back what is to be
\* written.
LEMMA OutgoingStep ==
  ASSUME StreamInv, TypeOK', wire \in Seq(EventType), EndKept, [Next]_vars
  PROVE  OnlyMore \/ ~Unfailed'
<1>1. ASSUME NEW names \in {"same", "none", "other"}, NEW size \in {0, 1}, NEW last \in BOOLEAN,
      NEW room \in BOOLEAN, OnChunk(names, size, last, room) PROVE OnlyMore \/ ~Unfailed'
  <2>1. pump(events, write_in_flight, TRUE) \/ UNCHANGED <<events, wire>>
    BY <1>1 DEF OnChunk, FinishCall
  <2>2. Outgoing' = Outgoing BY <2>1, PumpStill
  <2> QED BY <2>2 DEF OnlyMore
<1>2. CASE ClientHalfClose
  <2>1. pump(events, write_in_flight, TRUE) \/ UNCHANGED <<events, wire>>
    BY <1>2 DEF ClientHalfClose
  <2>2. Outgoing' = Outgoing BY <2>1, PumpStill
  <2> QED BY <2>2 DEF OnlyMore
<1>3. CASE ClientCancel
  <2>1. pump(events, write_in_flight, TRUE) \/ UNCHANGED <<events, wire>>
    BY <1>3 DEF ClientCancel
  <2>2. Outgoing' = Outgoing BY <2>1, PumpStill
  <2> QED BY <2>2 DEF OnlyMore
<1>4. CASE OnReadClosed
  <2>1. pump(events, write_in_flight, TRUE) \/ UNCHANGED <<events, wire>>
    BY <1>4 DEF OnReadClosed, start_processing, FinishCall
  <2>2. Outgoing' = Outgoing BY <2>1, PumpStill
  <2> QED BY <2>2 DEF OnlyMore
<1>5. CASE OnCancel
  <2>1. pump(events, write_in_flight, TRUE) \/ UNCHANGED <<events, wire>>
    BY <1>5 DEF OnCancel, FinishCall
  <2>2. Outgoing' = Outgoing BY <2>1, PumpStill
  <2> QED BY <2>2 DEF OnlyMore
<1>6. CASE OnWriteDone
  <2>1. write_in_flight /\ pump(Tail(events), FALSE, finish_requested)
    BY <1>6 DEF OnWriteDone
  <2>2. Outgoing' = Outgoing BY <2>1, PumpStill
  <2> QED BY <2>2 DEF OnlyMore
<1>7. CASE OnWriteFailed
  BY <1>7, CutFails DEF Unfailed
<1>8. CASE OnDone
  <2>1. pump(events, write_in_flight, TRUE) \/ UNCHANGED <<events, wire>>
    BY <1>8 DEF OnDone
  <2>2. Outgoing' = Outgoing BY <2>1, PumpStill
  <2> QED BY <2>2 DEF OnlyMore
<1>9. CASE DropBuffer
  <2>1. pump(events, write_in_flight, TRUE) \/ UNCHANGED <<events, wire>>
    BY <1>9 DEF DropBuffer
  <2>2. Outgoing' = Outgoing BY <2>1, PumpStill
  <2> QED BY <2>2 DEF OnlyMore
<1>10. CASE ResolveRefused
  <2>1. pump(events, write_in_flight, TRUE) \/ UNCHANGED <<events, wire>>
    BY <1>10 DEF ResolveRefused, FinishCall
  <2>2. Outgoing' = Outgoing BY <2>1, PumpStill
  <2> QED BY <2>2 DEF OnlyMore
<1>11. ASSUME NEW pl \in Plans, ResolvePlan(pl) PROVE OnlyMore \/ ~Unfailed'
  <2>1. pump(events, write_in_flight, TRUE) \/ UNCHANGED <<events, wire>>
    BY <1>11 DEF ResolvePlan, FinishCall
  <2>2. Outgoing' = Outgoing BY <2>1, PumpStill
  <2> QED BY <2>2 DEF OnlyMore
<1>12. CASE ProcessLaunch
  <2>1. pump(events, write_in_flight, TRUE) \/ UNCHANGED <<events, wire>>
    BY <1>12 DEF ProcessLaunch
  <2>2. Outgoing' = Outgoing BY <2>1, PumpStill
  <2> QED BY <2>2 DEF OnlyMore
<1>13. CASE ProcessGone
  <2>1. pump(events, write_in_flight, TRUE) \/ UNCHANGED <<events, wire>>
    BY <1>13 DEF ProcessGone
  <2>2. Outgoing' = Outgoing BY <2>1, PumpStill
  <2> QED BY <2>2 DEF OnlyMore
<1>14. CASE ProcessThrows
  <2>1. pump(events, write_in_flight, TRUE) \/ UNCHANGED <<events, wire>>
    BY <1>14 DEF ProcessThrows, FinishCall
  <2>2. Outgoing' = Outgoing BY <2>1, PumpStill
  <2> QED BY <2>2 DEF OnlyMore
<1>15. CASE LaunchDone
  <2>1. pump(events, write_in_flight, TRUE) \/ UNCHANGED <<events, wire>>
    BY <1>15 DEF LaunchDone
  <2>2. Outgoing' = Outgoing BY <2>1, PumpStill
  <2> QED BY <2>2 DEF OnlyMore
<1>16. ASSUME NEW c \in Legs, LaunchLeg(c) PROVE OnlyMore \/ ~Unfailed'
  <2>1. pump(events, write_in_flight, TRUE) \/ UNCHANGED <<events, wire>>
    BY <1>16 DEF LaunchLeg
  <2>2. Outgoing' = Outgoing BY <2>1, PumpStill
  <2> QED BY <2>2 DEF OnlyMore
<1>17. ASSUME NEW who \in {"process", "pdf"}, SubmitRun(who) PROVE OnlyMore \/ ~Unfailed'
  <2>1. pump(events, write_in_flight, TRUE) \/ UNCHANGED <<events, wire>>
    BY <1>17 DEF SubmitRun
  <2>2. Outgoing' = Outgoing BY <2>1, PumpStill
  <2> QED BY <2>2 DEF OnlyMore
<1>18. ASSUME NEW who \in {"process", "pdf"}, SubmitRefused(who) PROVE OnlyMore \/ ~Unfailed'
  <2>1. part_done(events, fold_settled) BY <1>18 DEF SubmitRefused, PartFailed
  <2> QED BY <2>1, PartStays
<1>19. ASSUME NEW who \in {"process", "pdf"}, SetTicket(who) PROVE OnlyMore \/ ~Unfailed'
  <2>1. pump(events, write_in_flight, TRUE) \/ UNCHANGED <<events, wire>>
    BY <1>19 DEF SetTicket
  <2>2. Outgoing' = Outgoing BY <2>1, PumpStill
  <2> QED BY <2>2 DEF OnlyMore
<1>20. ASSUME NEW c \in Legs, NEW success \in BOOLEAN, NEW k \in Nat, NEW streamed \in BOOLEAN,
      LegLands(c, success, k, streamed) PROVE OnlyMore \/ ~Unfailed'
  <2>1. CASE DocumentArrived(c, k, streamed) BY <2>1, ArrivedAdds
  <2>2. CASE PartFailed(c, "UNAVAILABLE") BY <2>2, PartStays DEF PartFailed
  <2>3. CASE DocumentRefused \/ UNCHANGED writes
    <3>1. pump(events, write_in_flight, TRUE) \/ UNCHANGED <<events, wire>>
      BY <2>3 DEF DocumentRefused, FinishCall
    <3>2. Outgoing' = Outgoing BY <3>1, PumpStill
    <3> QED BY <3>2 DEF OnlyMore
  <2> QED BY <1>20, <2>1, <2>2, <2>3 DEF LegLands, on_collector_done
<1>21. ASSUME NEW clean \in BOOLEAN, PdfSlice(clean) PROVE OnlyMore \/ ~Unfailed'
  <2>1. CASE NotStreamed
    <3>1. UNCHANGED <<events, wire>> BY <2>1 DEF NotStreamed
    <3>2. Outgoing' = Outgoing BY <3>1, PumpStill
    <3> QED BY <3>2 DEF OnlyMore
  <2>2. CASE ~NotStreamed
    <3>1. PICK n \in Nat : on_streamed_page(n)
      <4>1. on_streamed_page(pdf_next) /\ pdf_next \in Nat BY <1>21, <2>2, StreamAssumption DEF
          PdfSlice, StreamInv, TypeOK, ThreadTypeOK, Pages, StreamAssumption
      <4> QED BY <4>1
    <3>2. PICK e \in EventType : e = StreamedPage(n) BY DEF StreamedPage, Event, EventType
    <3>3. events \in Seq(EventType) /\ <<e>> \in Seq(EventType) /\ Append(events, e) = events \o
        <<e>>
      BY <3>2 DEF StreamInv, TypeOK, QueueTypeOK
    <3>4. pump(events \o <<e>>, write_in_flight, finish_requested)
      BY <3>1, <3>2, <3>3 DEF on_streamed_page
    <3>5. Outgoing \in Seq(EventType) /\ Outgoing' = Outgoing \o <<e>>
      BY <3>3, <3>4, PumpJoins
    <3> QED BY <3>3, <3>5, JoinHas DEF OnlyMore
  <2> QED BY <2>1, <2>2
<1>22. ASSUME NEW success \in BOOLEAN, NEW fast \in BOOLEAN, PdfEnd(success, fast) PROVE
      OnlyMore \/ ~Unfailed'
  <2>1. pump(events, write_in_flight, TRUE) \/ UNCHANGED <<events, wire>>
    BY <1>22 DEF PdfEnd
  <2>2. Outgoing' = Outgoing BY <2>1, PumpStill
  <2> QED BY <2>2 DEF OnlyMore
<1>23. CASE PdfHeld
  <2>1. CASE NotStreamed
    <3>1. UNCHANGED <<events, wire>> BY <2>1 DEF NotStreamed
    <3>2. Outgoing' = Outgoing BY <3>1, PumpStill
    <3> QED BY <3>2 DEF OnlyMore
  <2>2. CASE ~NotStreamed
    <3>1. PICK n \in Nat : on_streamed_page(n)
      <4>1. on_streamed_page(Head(pdf_held)) /\ Head(pdf_held) \in Nat BY <1>23, <2>2,
          StreamAssumption DEF PdfHeld, StreamInv, TypeOK, ThreadTypeOK, Pages, StreamAssumption
      <4> QED BY <4>1
    <3>2. PICK e \in EventType : e = StreamedPage(n) BY DEF StreamedPage, Event, EventType
    <3>3. events \in Seq(EventType) /\ <<e>> \in Seq(EventType) /\ Append(events, e) = events \o
        <<e>>
      BY <3>2 DEF StreamInv, TypeOK, QueueTypeOK
    <3>4. pump(events \o <<e>>, write_in_flight, finish_requested)
      BY <3>1, <3>2, <3>3 DEF on_streamed_page
    <3>5. Outgoing \in Seq(EventType) /\ Outgoing' = Outgoing \o <<e>>
      BY <3>3, <3>4, PumpJoins
    <3> QED BY <3>3, <3>5, JoinHas DEF OnlyMore
  <2> QED BY <2>1, <2>2
<1>24. CASE PdfLeft
  <2>1. pump(events, write_in_flight, TRUE) \/ UNCHANGED <<events, wire>>
    BY <1>24 DEF PdfLeft
  <2>2. Outgoing' = Outgoing BY <2>1, PumpStill
  <2> QED BY <2>2 DEF OnlyMore
<1>25. CASE PdfFallback
  <2>1. pump(events, write_in_flight, TRUE) \/ UNCHANGED <<events, wire>>
    BY <1>25 DEF PdfFallback
  <2>2. Outgoing' = Outgoing BY <2>1, PumpStill
  <2> QED BY <2>2 DEF OnlyMore
<1>26. CASE PdfSubmit
  <2>1. pump(events, write_in_flight, TRUE) \/ UNCHANGED <<events, wire>>
    BY <1>26 DEF PdfSubmit
  <2>2. Outgoing' = Outgoing BY <2>1, PumpStill
  <2> QED BY <2>2 DEF OnlyMore
<1>27. CASE RunOpens
  <2>1. pump(events, write_in_flight, TRUE) \/ UNCHANGED <<events, wire>>
    BY <1>27 DEF RunOpens
  <2>2. Outgoing' = Outgoing BY <2>1, PumpStill
  <2> QED BY <2>2 DEF OnlyMore
<1>28. CASE RunFails
  <2>1. pump(events, write_in_flight, TRUE) \/ UNCHANGED <<events, wire>>
    BY <1>28 DEF RunFails
  <2>2. Outgoing' = Outgoing BY <2>1, PumpStill
  <2> QED BY <2>2 DEF OnlyMore
<1>29. CASE on_document
  <2>1. pump(events, write_in_flight, TRUE) \/ UNCHANGED <<events, wire>>
    BY <1>29 DEF on_document
  <2>2. Outgoing' = Outgoing BY <2>1, PumpStill
  <2> QED BY <2>2 DEF OnlyMore
<1>30. ASSUME NEW p \in Pages, on_page(p) PROVE OnlyMore \/ ~Unfailed'
  <2> DEFINE n == Cardinality(InOrder(completed_pages \cup {p}))
             fresh == [i \in 1..n |-> CvPage(next_page + i - 1)]
  <2>1. pump(events \o fresh, write_in_flight, finish_requested) BY <1>30 DEF on_page
  <2>2. fresh \in Seq(EventType)
    <3>1. n \in Nat /\ next_page \in Nat \ {0} BY <1>30, PageAccepted DEF StreamInv, TypeOK,
        PageTypeOK
    <3> HIDE DEF n
    <3>2. \A m \in Nat : CvPage(m) \in EventType BY DEF CvPage, Event, EventType, Collectors
    <3>3. \A i \in 1..n : next_page + i - 1 \in Nat BY <3>1
    <3> QED BY <3>1, <3>2, <3>3
  <2> HIDE DEF fresh
  <2>3. /\ Outgoing \in Seq(EventType) /\ Outgoing' = Outgoing \o fresh
    BY <2>1, <2>2, PumpJoins
  <2> QED BY <2>2, <2>3, JoinHas DEF OnlyMore
<1>31. ASSUME NEW p \in Pages, PageRefused(p) PROVE OnlyMore \/ ~Unfailed'
  <2>1. Scheduler!Deliverable(Run, p) BY <1>31 DEF PageRefused
  <2>2. buffered_pages \in Nat /\ PageWindow \in Nat
    BY StreamAssumption DEF StreamInv, TypeOK, PageTypeOK, StreamAssumption
  <2>3. ~client_cancelled => buffered_pages < PageWindow BY <2>1, NeverFull
  <2>4. ~(~client_cancelled /\ buffered_pages >= PageWindow) BY <2>2, <2>3
  <2>5. UNCHANGED <<events, wire>> BY <1>31, <2>4 DEF PageRefused
  <2>6. Outgoing' = Outgoing BY <2>5, PumpStill
  <2> QED BY <2>6 DEF OnlyMore
<1>32. ASSUME NEW why \in {"none", "failed"}, on_scheduler_finish(why) PROVE OnlyMore \/
      ~Unfailed'
  <2>1. CASE part_done(events, fold_settled) BY <2>1, PartStays
  <2>2. CASE ~part_done(events, fold_settled)
    <3>1. pump(events, write_in_flight, TRUE) \/ UNCHANGED <<events, wire>>
      BY <1>32, <2>2 DEF on_scheduler_finish, FinishCall, PartSucceeded, PartFailed
    <3>2. Outgoing' = Outgoing BY <3>1, PumpStill
    <3> QED BY <3>2 DEF OnlyMore
  <2> QED BY <2>1, <2>2
<1>33. CASE UNCHANGED vars
  <2>1. pump(events, write_in_flight, TRUE) \/ UNCHANGED <<events, wire>>
    BY <1>33 DEF vars
  <2>2. Outgoing' = Outgoing BY <2>1, PumpStill
  <2> QED BY <2>2 DEF OnlyMore
<1> QED BY StepCases, <1>1, <1>2, <1>3, <1>4, <1>5, <1>6, <1>7, <1>8, <1>9, <1>10, <1>11, <1>12,
    <1>13, <1>14, <1>15, <1>16, <1>17, <1>18, <1>19, <1>20, <1>21, <1>22, <1>23, <1>24, <1>25,
    <1>26, <1>27, <1>28, <1>29, <1>30, <1>31, <1>32, <1>33

\* The last page stays the last.
LEMMA LastStep ==
  ASSUME StreamInv, RouteKept, [Next]_vars
  PROVE  next_page = DocPages + 1 => next_page' = DocPages + 1
<1>1. ASSUME NEW names \in {"same", "none", "other"}, NEW size \in {0, 1}, NEW last \in BOOLEAN,
      NEW room \in BOOLEAN, OnChunk(names, size, last, room) PROVE next_page = DocPages + 1 =>
      next_page' = DocPages + 1
  <2>1. UNCHANGED next_page BY <1>1 DEF OnChunk, FinishCall, request_finish, Overrides, pump,
      CancelRun, Scheduler!Withdraw
  <2> QED BY <2>1
<1>2. CASE ClientHalfClose
  <2>1. UNCHANGED next_page BY <1>2 DEF ClientHalfClose
  <2> QED BY <2>1
<1>3. CASE ClientCancel
  <2>1. UNCHANGED next_page BY <1>3 DEF ClientCancel
  <2> QED BY <2>1
<1>4. CASE OnReadClosed
  <2>1. UNCHANGED next_page BY <1>4 DEF OnReadClosed, start_processing, FinishCall,
      request_finish, Overrides, pump, CancelRun, Scheduler!Withdraw
  <2> QED BY <2>1
<1>5. CASE OnCancel
  <2>1. UNCHANGED next_page BY <1>5 DEF OnCancel, FinishCall, request_finish, Overrides, pump,
      CancelRun, Scheduler!Withdraw
  <2> QED BY <2>1
<1>6. CASE OnWriteDone
  <2>1. UNCHANGED next_page BY <1>6 DEF OnWriteDone, pump, Scheduler!Credit
  <2> QED BY <2>1
<1>7. CASE OnWriteFailed
  <2>1. UNCHANGED next_page BY <1>7 DEF OnWriteFailed, FinishCall, request_finish, Overrides,
      pump, CancelRun, Scheduler!Withdraw
  <2> QED BY <2>1
<1>8. CASE OnDone
  <2>1. UNCHANGED next_page BY <1>8 DEF OnDone
  <2> QED BY <2>1
<1>9. CASE DropBuffer
  <2>1. UNCHANGED next_page BY <1>9 DEF DropBuffer
  <2> QED BY <2>1
<1>10. CASE ResolveRefused
  <2>1. UNCHANGED next_page BY <1>10 DEF ResolveRefused, take_bytes, ProcessEnds, FinishCall,
      request_finish, Overrides, pump, CancelRun, Scheduler!Withdraw
  <2> QED BY <2>1
<1>11. ASSUME NEW pl \in Plans, ResolvePlan(pl) PROVE next_page = DocPages + 1 => next_page' =
      DocPages + 1
  <2>1. UNCHANGED next_page BY <1>11 DEF ResolvePlan, take_bytes, FinishCall, request_finish,
      Overrides, pump, CancelRun, Scheduler!Withdraw
  <2> QED BY <2>1
<1>12. CASE ProcessLaunch
  <2>1. UNCHANGED next_page BY <1>12 DEF ProcessLaunch
  <2> QED BY <2>1
<1>13. CASE ProcessGone
  <2>1. UNCHANGED next_page BY <1>13 DEF ProcessGone, ProcessEnds
  <2> QED BY <2>1
<1>14. CASE ProcessThrows
  <2>1. UNCHANGED next_page BY <1>14 DEF ProcessThrows, ProcessEnds, FinishCall, request_finish,
      Overrides, pump, CancelRun, Scheduler!Withdraw
  <2> QED BY <2>1
<1>15. CASE LaunchDone
  <2>1. UNCHANGED next_page BY <1>15 DEF LaunchDone
  <2> QED BY <2>1
<1>16. ASSUME NEW c \in Legs, LaunchLeg(c) PROVE next_page = DocPages + 1 => next_page' =
      DocPages + 1
  <2>1. UNCHANGED next_page BY <1>16 DEF LaunchLeg
  <2> QED BY <2>1
<1>17. ASSUME NEW who \in {"process", "pdf"}, SubmitRun(who) PROVE next_page = DocPages + 1 =>
      next_page' = DocPages + 1
  <2>1. UNCHANGED next_page BY <1>17 DEF SubmitRun, Submitting, SubmitterAt, Scheduler!Admit
  <2> QED BY <2>1
<1>18. ASSUME NEW who \in {"process", "pdf"}, SubmitRefused(who) PROVE next_page = DocPages + 1
      => next_page' = DocPages + 1
  <2>1. UNCHANGED next_page BY <1>18 DEF SubmitRefused, Submitting, SubmitterAt, PartFailed,
      part_done, record_part_failure, FirstFailure, NoFinish, request_finish, Overrides, pump,
      CancelRun, Scheduler!Withdraw
  <2> QED BY <2>1
<1>19. ASSUME NEW who \in {"process", "pdf"}, SetTicket(who) PROVE next_page = DocPages + 1 =>
      next_page' = DocPages + 1
  <2>1. UNCHANGED next_page BY <1>19 DEF SetTicket, Submitted, SubmitterAt, CancelRun,
      Scheduler!Withdraw
  <2> QED BY <2>1
<1>20. ASSUME NEW c \in Legs, NEW success \in BOOLEAN, NEW k \in Nat, NEW streamed \in BOOLEAN,
      LegLands(c, success, k, streamed) PROVE next_page = DocPages + 1 => next_page' = DocPages
      + 1
  <2>1. UNCHANGED next_page BY <1>20 DEF LegLands, LegLands, on_collector_done, DocumentArrived,
      DocumentRefused, PartFailed, PartSucceeded, FinishCall, part_done, record_part_failure,
      FirstFailure, NoFinish, request_finish, Overrides, pump, CancelRun, Scheduler!Withdraw
  <2> QED BY <2>1
<1>21. ASSUME NEW clean \in BOOLEAN, PdfSlice(clean) PROVE next_page = DocPages + 1 =>
      next_page' = DocPages + 1
  <2>0. next_page \in Nat /\ DocPages \in Nat BY StreamAssumption DEF StreamAssumption,
      StreamInv, TypeOK, PageTypeOK
  <2>1. CASE UNCHANGED next_page BY <2>1
  <2>2. CASE StreamTakes /\ pdf_run_open /\ pdf_next <= DocPages
    <3>1. leg["pdf"] = "reading" BY <1>21 DEF PdfSlice
    <3>2. pdf_next = next_page + Len(pdf_held) /\ pdf_held = <<>> BY <2>2, <3>1 DEF RouteKept
    <3>3. Len(<<>>) = 0 OBVIOUS
    <3>4. next_page <= DocPages BY <2>0, <2>2, <3>2, <3>3
    <3> QED BY <2>0, <3>4
  <2> QED BY <1>21, <2>1, <2>2 DEF PdfSlice, NotStreamed
<1>22. ASSUME NEW success \in BOOLEAN, NEW fast \in BOOLEAN, PdfEnd(success, fast) PROVE
      next_page = DocPages + 1 => next_page' = DocPages + 1
  <2>1. UNCHANGED next_page BY <1>22 DEF PdfEnd, PdfAt
  <2> QED BY <2>1
<1>23. CASE PdfHeld
  <2>0. next_page \in Nat /\ DocPages \in Nat BY StreamAssumption DEF StreamAssumption,
      StreamInv, TypeOK, PageTypeOK
  <2>1. CASE UNCHANGED next_page BY <2>1
  <2>2. CASE StreamTakes /\ pdf_held # <<>>
    <3>1. leg["pdf"] = "held" BY <1>23 DEF PdfHeld
    <3>2. \A i \in DOMAIN pdf_held : pdf_held[i] = next_page + i - 1 BY <2>2, <3>1 DEF RouteKept
    <3>3. 1 \in DOMAIN pdf_held /\ pdf_held[1] \in Pages BY <2>2 DEF StreamInv, TypeOK,
        ThreadTypeOK
    <3>4. pdf_held[1] = next_page BY <2>0, <3>2, <3>3
    <3>5. next_page <= DocPages BY <2>0, <3>3, <3>4 DEF Pages
    <3> QED BY <2>0, <3>5
  <2> QED BY <1>23, <2>1, <2>2 DEF PdfHeld, NotStreamed
<1>24. CASE PdfLeft
  <2>1. UNCHANGED next_page BY <1>24 DEF PdfLeft, PdfAt
  <2> QED BY <2>1
<1>25. CASE PdfFallback
  <2>1. UNCHANGED next_page BY <1>25 DEF PdfFallback, PdfAt, record_part_failure
  <2> QED BY <2>1
<1>26. CASE PdfSubmit
  <2>1. UNCHANGED next_page BY <1>26 DEF PdfSubmit, PdfAt
  <2> QED BY <2>1
<1>27. CASE RunOpens
  <2>1. UNCHANGED next_page BY <1>27 DEF RunOpens, Scheduler!Size, Scheduler!Live
  <2> QED BY <2>1
<1>28. CASE RunFails
  <2>1. UNCHANGED next_page BY <1>28 DEF RunFails, Scheduler!Live, Scheduler!Break
  <2> QED BY <2>1
<1>29. CASE on_document
  <2>1. UNCHANGED next_page BY <1>29 DEF on_document, Scheduler!Announce
  <2> QED BY <2>1
<1>30. ASSUME NEW p \in Pages, on_page(p) PROVE next_page = DocPages + 1 => next_page' =
      DocPages + 1
  <2>1. next_page' = next_page + Cardinality(InOrder(completed_pages \cup {p})) BY <1>30 DEF
      on_page
  <2>2. Cardinality(InOrder(completed_pages \cup {p})) \in 0..DocPages + 1 - next_page
    BY InOrderSpan DEF StreamInv, TypeOK
  <2>3. next_page \in Nat /\ DocPages \in Nat BY StreamAssumption DEF StreamAssumption,
      StreamInv, TypeOK, PageTypeOK
  <2>4. PICK n \in Int : n = Cardinality(InOrder(completed_pages \cup {p})) BY <2>2
  <2>5. n >= 0 /\ n <= DocPages + 1 - next_page BY <2>2, <2>3, <2>4
  <2> QED BY <2>1, <2>3, <2>4, <2>5
<1>31. ASSUME NEW p \in Pages, PageRefused(p) PROVE next_page = DocPages + 1 => next_page' =
      DocPages + 1
  <2>1. UNCHANGED next_page BY <1>31 DEF PageRefused, Scheduler!Deliverable, Scheduler!Live,
      Scheduler!Withdraw, request_finish, Overrides, pump
  <2> QED BY <2>1
<1>32. ASSUME NEW why \in {"none", "failed"}, on_scheduler_finish(why) PROVE next_page =
      DocPages + 1 => next_page' = DocPages + 1
  <2>1. UNCHANGED next_page BY <1>32 DEF on_scheduler_finish, Scheduler!Finish, Scheduler!Live,
      RunStatus, PartFailed, PartSucceeded, FinishCall, part_done, record_part_failure,
      FirstFailure, NoFinish, request_finish, Overrides, pump
  <2> QED BY <2>1
<1>33. CASE UNCHANGED vars
  <2>1. UNCHANGED next_page BY <1>33 DEF vars
  <2> QED BY <2>1
<1> QED BY StepCases, <1>1, <1>2, <1>3, <1>4, <1>5, <1>6, <1>7, <1>8, <1>9, <1>10, <1>11, <1>12,
    <1>13, <1>14, <1>15, <1>16, <1>17, <1>18, <1>19, <1>20, <1>21, <1>22, <1>23, <1>24, <1>25,
    <1>26, <1>27, <1>28, <1>29, <1>30, <1>31, <1>32, <1>33

\* The step ends no part, or only because a failure has finished the call.
NoPartEnds ==
  /\ UNCHANGED <<plan, succeeded_parts>> /\ failures' \in {failures, failures \cup {"pdf"}}
  /\ \A c \in Legs : leg'[c] = "done" =>
       leg[c] = "done" \/ (plan = {"pdf"} /\ Run \in admitted) \/ ~Unfailed'
  /\ process' = "done" => process = "done" \/ "cv" \notin plan \/ Run \in admitted \/ ~Unfailed'
  /\ Run \in admitted' /\ ~Scheduler!Live(Run)' => Run \in admitted /\ ~Scheduler!Live(Run)

\* Where a part ends.
PartEnds ==
  \/ \E pl \in Plans : ResolvePlan(pl)
  \/ \E who \in {"process", "pdf"} : SubmitRefused(who)
  \/ \E c \in Legs, success \in BOOLEAN, k \in Nat, streamed \in BOOLEAN :
       LegLands(c, success, k, streamed)
  \/ \E why \in {"none", "failed"} : on_scheduler_finish(why)

\* A call that is finished while a part is open has failed.
LEMMA OpenFailed ==
  ASSUME StreamInv, [Next]_vars, finish_requested,
         \/ \E c \in Legs : leg[c] \notin {"idle", "done", "ticket"}
         \/ "cv" \in plan /\ process \in {"origin", "launch", "submit"}
         \/ Scheduler!Live(Run)
         \/ process \in {"none", "resolving"}
  PROVE  ~Unfailed'
<1>1. PartsOpen # 0 \/ process \in {"none", "resolving"}
  <2>1. \A c \in Legs : leg[c] \notin {"idle", "done", "ticket"} => PartsOpen # 0
    BY DEF PartsOpen, LegOpen, RunOpen, Legs
  <2> QED BY <2>1 DEF PartsOpen, LegOpen, RunOpen
<1>2. ~Unfailed BY <1>1 DEF Unfailed, StreamInv, PartsKept, TicketsKept
<1> QED BY <1>2, StatusStep DEF StatusOnward

\* Every other step ends no part.
LEMMA PartFrame ==
  ASSUME StreamInv, [Next]_vars
  PROVE  NoPartEnds \/ PartEnds
<1>1. ASSUME NEW names \in {"same", "none", "other"}, NEW size \in {0, 1}, NEW last \in BOOLEAN,
      NEW room \in BOOLEAN, OnChunk(names, size, last, room) PROVE NoPartEnds \/ PartEnds
  BY <1>1 DEF OnChunk, FinishCall, request_finish, Overrides, pump, CancelRun,
      Scheduler!Withdraw, NoPartEnds, Scheduler!Live
<1>2. CASE ClientHalfClose
  BY <1>2 DEF ClientHalfClose, NoPartEnds, Scheduler!Live
<1>3. CASE ClientCancel
  BY <1>3 DEF ClientCancel, NoPartEnds, Scheduler!Live
<1>4. CASE OnReadClosed
  BY <1>4 DEF OnReadClosed, start_processing, FinishCall, request_finish, Overrides, pump,
      CancelRun, Scheduler!Withdraw, NoPartEnds, Scheduler!Live
<1>5. CASE OnCancel
  BY <1>5 DEF OnCancel, FinishCall, request_finish, Overrides, pump, CancelRun,
      Scheduler!Withdraw, NoPartEnds, Scheduler!Live
<1>6. CASE OnWriteDone
  BY <1>6 DEF OnWriteDone, pump, Scheduler!Credit, NoPartEnds, Scheduler!Live
<1>7. CASE OnWriteFailed
  BY <1>7 DEF OnWriteFailed, FinishCall, request_finish, Overrides, pump, CancelRun,
      Scheduler!Withdraw, NoPartEnds, Scheduler!Live
<1>8. CASE OnDone
  BY <1>8 DEF OnDone, NoPartEnds, Scheduler!Live
<1>9. CASE DropBuffer
  BY <1>9 DEF DropBuffer, NoPartEnds, Scheduler!Live
<1>10. CASE ResolveRefused
  BY <1>10 DEF ResolveRefused, take_bytes, ProcessEnds, FinishCall, request_finish, Overrides,
     pump, CancelRun, Scheduler!Withdraw, NoPartEnds, PartEnds, Unfailed, StreamInv, TypeOK,
     FinishTypeOK, ThreadTypeOK, RunTypes, GateKept, AdmissionKept, TicketsKept, Scheduler!Live,
     Legs, RouteStates, Submitting, Submitted, SubmitterAt, PdfAt
<1>11. ASSUME NEW pl \in Plans, ResolvePlan(pl) PROVE NoPartEnds \/ PartEnds
  BY <1>11 DEF PartEnds
<1>12. CASE ProcessLaunch
  BY <1>12 DEF ProcessLaunch, NoPartEnds, Scheduler!Live
<1>13. CASE ProcessGone
  <2>1. "cv" \in plan => ~Unfailed' BY <1>13, OpenFailed DEF ProcessGone, StreamInv, TicketsKept
  <2> QED BY <1>13, <2>1 DEF ProcessGone, ProcessEnds, NoPartEnds, Scheduler!Live
<1>14. CASE ProcessThrows
  <2>1. finish_requested /\ "cv" \in plan => ~Unfailed' BY <1>14, OpenFailed DEF ProcessThrows
  <2>2. ~finish_requested => ~Unfailed'
    BY <1>14 DEF ProcessThrows, FinishCall, request_finish, Overrides, StreamInv, TicketsKept,
        Unfailed
  <2> QED BY <1>14, <2>1, <2>2 DEF ProcessThrows, ProcessEnds, CancelRun, Scheduler!Withdraw,
      NoPartEnds, Scheduler!Live
<1>15. CASE LaunchDone
  BY <1>15 DEF LaunchDone, NoPartEnds, Scheduler!Live
<1>16. ASSUME NEW c \in Legs, LaunchLeg(c) PROVE NoPartEnds \/ PartEnds
  BY <1>16 DEF LaunchLeg, NoPartEnds, PartEnds, Unfailed, StreamInv, TypeOK, FinishTypeOK,
     ThreadTypeOK, RunTypes, GateKept, AdmissionKept, TicketsKept, Scheduler!Live, Legs,
     RouteStates, Submitting, Submitted, SubmitterAt, PdfAt
<1>17. ASSUME NEW who \in {"process", "pdf"}, SubmitRun(who) PROVE NoPartEnds \/ PartEnds
  BY <1>17 DEF SubmitRun, Submitting, SubmitterAt, Scheduler!Admit, NoPartEnds, PartEnds,
     Unfailed, StreamInv, TypeOK, FinishTypeOK, ThreadTypeOK, RunTypes, GateKept, AdmissionKept,
     TicketsKept, Scheduler!Live, Legs, RouteStates, Submitted, PdfAt
<1>18. ASSUME NEW who \in {"process", "pdf"}, SubmitRefused(who) PROVE NoPartEnds \/ PartEnds
  BY <1>18 DEF PartEnds
<1>19. ASSUME NEW who \in {"process", "pdf"}, SetTicket(who) PROVE NoPartEnds \/ PartEnds
  BY <1>19 DEF SetTicket, Submitted, SubmitterAt, CancelRun, Scheduler!Withdraw, NoPartEnds,
     PartEnds, Unfailed, StreamInv, TypeOK, FinishTypeOK, ThreadTypeOK, RunTypes, GateKept,
     AdmissionKept, TicketsKept, Scheduler!Live, Legs, RouteStates, Submitting, PdfAt
<1>20. ASSUME NEW c \in Legs, NEW success \in BOOLEAN, NEW k \in Nat, NEW streamed \in BOOLEAN,
      LegLands(c, success, k, streamed) PROVE NoPartEnds \/ PartEnds
  BY <1>20 DEF PartEnds
<1>21. ASSUME NEW clean \in BOOLEAN, PdfSlice(clean) PROVE NoPartEnds \/ PartEnds
  BY <1>21 DEF PdfSlice, NotStreamed, StreamTakes, on_streamed_page, pump, NoPartEnds, PartEnds,
     Unfailed, StreamInv, TypeOK, FinishTypeOK, ThreadTypeOK, RunTypes, GateKept, AdmissionKept,
     TicketsKept, Scheduler!Live, Legs, RouteStates, Submitting, Submitted, SubmitterAt, PdfAt
<1>22. ASSUME NEW success \in BOOLEAN, NEW fast \in BOOLEAN, PdfEnd(success, fast) PROVE
      NoPartEnds \/ PartEnds
  BY <1>22 DEF PdfEnd, PdfAt, NoPartEnds, PartEnds, Unfailed, StreamInv, TypeOK, FinishTypeOK,
     ThreadTypeOK, RunTypes, GateKept, AdmissionKept, TicketsKept, Scheduler!Live, Legs,
     RouteStates, Submitting, Submitted, SubmitterAt
<1>23. CASE PdfHeld
  BY <1>23 DEF PdfHeld, PdfAt, NotStreamed, StreamTakes, on_streamed_page, pump, NoPartEnds,
     PartEnds, Unfailed, StreamInv, TypeOK, FinishTypeOK, ThreadTypeOK, RunTypes, GateKept,
     AdmissionKept, TicketsKept, Scheduler!Live, Legs, RouteStates, Submitting, Submitted,
     SubmitterAt
<1>24. CASE PdfLeft
  <2>1. gone => ~Unfailed' BY <1>24, OpenFailed DEF PdfLeft, StreamInv, TicketsKept, Legs
  <2> QED BY <1>24, <2>1 DEF PdfLeft, NoPartEnds, PartEnds, Unfailed, StreamInv, TypeOK,
      FinishTypeOK, ThreadTypeOK, RunTypes, GateKept, AdmissionKept, TicketsKept,
      Scheduler!Live, Legs, RouteStates, Submitting, Submitted, SubmitterAt, PdfAt
<1>25. CASE PdfFallback
  BY <1>25 DEF PdfFallback, PdfAt, record_part_failure, NoPartEnds, PartEnds, Unfailed, StreamInv,
     TypeOK, FinishTypeOK, ThreadTypeOK, RunTypes, GateKept, AdmissionKept, TicketsKept,
     Scheduler!Live, Legs, RouteStates, Submitting, Submitted, SubmitterAt
<1>26. CASE PdfSubmit
  <2>1. gone => ~Unfailed' BY <1>26, OpenFailed DEF PdfSubmit, StreamInv, TicketsKept, Legs
  <2> QED BY <1>26, <2>1 DEF PdfSubmit, NoPartEnds, PartEnds, Unfailed, StreamInv, TypeOK,
      FinishTypeOK, ThreadTypeOK, RunTypes, GateKept, AdmissionKept, TicketsKept,
      Scheduler!Live, Legs, RouteStates, Submitting, Submitted, SubmitterAt, PdfAt
<1>27. CASE RunOpens
  BY <1>27 DEF RunOpens, Scheduler!Size, Scheduler!Live, NoPartEnds, Scheduler!Live
<1>28. CASE RunFails
  BY <1>28 DEF RunFails, Scheduler!Live, Scheduler!Break, NoPartEnds, Scheduler!Live
<1>29. CASE on_document
  BY <1>29 DEF on_document, Scheduler!Announce, NoPartEnds, Scheduler!Live
<1>30. ASSUME NEW p \in Pages, on_page(p) PROVE NoPartEnds \/ PartEnds
  BY <1>30 DEF on_page, pump, Scheduler!DeliverPage, Scheduler!Deliverable, Scheduler!Live,
      NoPartEnds, Scheduler!Live
<1>31. ASSUME NEW p \in Pages, PageRefused(p) PROVE NoPartEnds \/ PartEnds
  BY <1>31 DEF PageRefused, Scheduler!Deliverable, Scheduler!Live, Scheduler!Withdraw,
      request_finish, Overrides, pump, NoPartEnds, Scheduler!Live
<1>32. ASSUME NEW why \in {"none", "failed"}, on_scheduler_finish(why) PROVE NoPartEnds \/
      PartEnds
  BY <1>32 DEF PartEnds
<1>33. CASE UNCHANGED vars
  BY <1>33 DEF vars, NoPartEnds, Scheduler!Live
<1> QED BY StepCases, <1>1, <1>2, <1>3, <1>4, <1>5, <1>6, <1>7, <1>8, <1>9, <1>10, <1>11, <1>12,
    <1>13, <1>14, <1>15, <1>16, <1>17, <1>18, <1>19, <1>20, <1>21, <1>22, <1>23, <1>24, <1>25,
    <1>26, <1>27, <1>28, <1>29, <1>30, <1>31, <1>32, <1>33

\* A step that ends no part leaves everybody served.
LEMMA ServedNoEnd ==
  ASSUME StreamInv, TypeOK', AllServed, Unfailed', OnlyMore, [Next]_vars, NoPartEnds,
         next_page = DocPages + 1 => next_page' = DocPages + 1
  PROVE  AllServed'
<1>1. /\ UNCHANGED <<plan, succeeded_parts>> /\ failures \subseteq failures'
      /\ failures' \subseteq failures \cup {"pdf"}
  BY DEF NoPartEnds
<1>2. Run \in admitted => Run \in admitted' BY ThreadsStep DEF ThreadsOnward
<1>3. Unwired' BY <1>1 DEF AllServed, Unwired
<1>4. LegsServed'
  BY <1>1, <1>2 DEF AllServed, LegsServed, NoPartEnds, OnlyMore
<1>5. CvSubmitted' BY <1>1, <1>2 DEF AllServed, CvSubmitted, NoPartEnds
<1>6. RunServed' BY <1>1 DEF AllServed, RunServed, NoPartEnds
<1>7. PdfAlone' BY <1>1 DEF AllServed, PdfAlone
<1>8. SomeServed' BY <1>1 DEF AllServed, SomeServed, OnlyMore
<1> QED BY <1>3, <1>4, <1>5, <1>6, <1>7, <1>8 DEF AllServed

\* A plan that was just resolved has served nobody, and failed what this build
\* cannot run.
LEMMA ServedResolved ==
  ASSUME StreamInv, Unfailed', NEW pl \in Plans, ResolvePlan(pl)
  PROVE  AllServed'
<1> DEFINE runnable == pl \cap {"cv", "pdf", "leg"}
<1>1. /\ process = "resolving" /\ plan' = pl /\ failures' = pl \ runnable
      /\ UNCHANGED succeeded_parts
  BY DEF ResolvePlan
<1>2. succeeded_parts = 0 /\ \A c \in Legs : leg[c] = "idle"
  BY <1>1 DEF StreamInv, GateKept
<1>3. Run \notin admitted BY <1>1 DEF StreamInv, AdmissionKept
<1>4. UNCHANGED admitted BY DEF ResolvePlan, CancelRun, Scheduler!Withdraw
<1>5. \A c \in Legs : leg'[c] # "done" BY <1>2 DEF ResolvePlan
<1>6. process' = "done" => "cv" \notin pl BY DEF ResolvePlan
<1>7. pl = {"pdf"} => "cv" \notin failures' BY <1>1
<1>8. Unwired' BY <1>1 DEF Unwired
<1>9. LegsServed' BY <1>5 DEF LegsServed
<1>10. CvSubmitted' BY <1>1, <1>6 DEF CvSubmitted
<1>11. RunServed' BY <1>3, <1>4 DEF RunServed
<1>12. PdfAlone' BY <1>1, <1>7 DEF PdfAlone
<1>13. ~(succeeded_parts' > 0) BY <1>1, <1>2
<1>14. SomeServed' BY <1>13 DEF SomeServed
<1> QED BY <1>8, <1>9, <1>10, <1>11, <1>12, <1>14 DEF AllServed

\* A failure of the CV part is the failure of a call of the pdf collector alone.
LEMMA AloneFails ==
  ASSUME StreamInv, TypeOK', EndKept, [Next]_vars, plan = {"pdf"}, PartFailed("cv", "INTERNAL")
         \/ PartFailed("cv", "UNAVAILABLE") \/ PartFailed("cv", "RESOURCE_EXHAUSTED"),
         \/ leg["pdf"] = "submit"
         \/ Scheduler!Live(Run)
  PROVE  ~Unfailed'
<1>1. part_done(events, fold_settled) /\ succeeded_parts' = succeeded_parts BY DEF PartFailed
<1>2. CASE finish_requested BY <1>2, OpenFailed DEF Legs
<1>3. CASE ~finish_requested
  <2>1. succeeded_parts \in Nat BY DEF StreamInv, TypeOK, FinishTypeOK
  <2>2. PICK n \in Nat : n = PartsOpen BY DEF PartsOpen, LegOpen, RunOpen
  <2>3. n # 0 BY <2>2 DEF PartsOpen, LegOpen, RunOpen
  <2>4. succeeded_parts + n <= 1 BY <2>2 DEF EndKept, Alone
  <2>5. succeeded_parts = 0 /\ n = 1 BY <2>1, <2>3, <2>4
  <2>6. pending_parts = n BY <1>3, <2>2 DEF StreamInv, PartsKept
  <2>7. pending_parts <= 1 /\ ~(succeeded_parts' > 0) BY <1>1, <2>5, <2>6
  <2> QED BY <1>1, <1>3, <2>7, PartDoneFails
<1> QED BY <1>2, <1>3

\* A CV part that is refused is a failure.
LEMMA ServedRefused ==
  ASSUME StreamInv, TypeOK', EndKept, AllServed, Unfailed', OnlyMore, [Next]_vars,
         NEW who \in {"process", "pdf"}, SubmitRefused(who)
  PROVE  AllServed'
<1>1. /\ PartFailed("cv", "RESOURCE_EXHAUSTED") /\ UNCHANGED <<plan, next_page>>
      /\ UNCHANGED <<admitted, result>> /\ SubmitterAt(who, "done") /\ Submitting(who)
  BY DEF SubmitRefused, CancelRun, Scheduler!Withdraw
<1>2. failures' = failures \cup {"cv"} /\ UNCHANGED succeeded_parts
  BY <1>1 DEF PartFailed, record_part_failure
<1>3. who = "pdf" => plan = {"pdf"} BY <1>1 DEF Submitting, StreamInv, GateKept, RouteStates
<1>4. plan # {"pdf"}
  <2>1. who = "process" => "cv" \in plan BY <1>1 DEF Submitting, StreamInv, GateKept
  <2>2. who = "pdf" => leg["pdf"] = "submit" BY <1>1 DEF Submitting
  <2> QED BY <1>1, <2>1, <2>2, AloneFails
<1>5. UNCHANGED leg BY <1>1, <1>3, <1>4 DEF SubmitterAt
<1>6. Unwired' BY <1>1, <1>2 DEF AllServed, Unwired
<1>7. LegsServed' BY <1>1, <1>2, <1>5 DEF AllServed, LegsServed, OnlyMore
<1>8. CvSubmitted' /\ RunServed' BY <1>2 DEF CvSubmitted, RunServed
<1>9. PdfAlone' BY <1>1, <1>4 DEF PdfAlone
<1>10. SomeServed' BY <1>1, <1>2 DEF AllServed, SomeServed, OnlyMore
<1> QED BY <1>6, <1>7, <1>8, <1>9, <1>10 DEF AllServed

\* A leg that lands leaves its Document or its failure.
LEMMA ServedLands ==
  ASSUME StreamInv, TypeOK', wire \in Seq(EventType), EndKept', AllServed, Unfailed', OnlyMore,
         [Next]_vars, NEW c \in Legs, NEW success \in BOOLEAN, NEW k \in Nat,
         NEW streamed \in BOOLEAN, LegLands(c, success, k, streamed)
  PROVE  AllServed'
<1>1. /\ on_collector_done(c, success, k, streamed) /\ leg[c] \notin {"idle", "done", "ticket"}
      /\ leg' = [leg EXCEPT ![c] = "done"] /\ UNCHANGED <<plan, process>>
  BY DEF LegLands, on_collector_done
<1>2. UNCHANGED <<admitted, result, next_page>>
  BY <1>1 DEF on_collector_done, DocumentArrived, DocumentRefused, CancelRun, Scheduler!Withdraw
<1>3. \A x \in Legs : leg'[x] = "done" => leg[x] = "done" \/ x = c
  BY <1>1 DEF StreamInv, TypeOK, ThreadTypeOK
<1>4. ~finish_requested /\ ~gone /\ ~client_cancelled
  <2>1. ~finish_requested BY <1>1, OpenFailed
  <2> QED BY <2>1 DEF StreamInv, TicketsKept
<1>5. ~DocumentRefused
  BY <1>4 DEF DocumentRefused, FinishCall, request_finish, Overrides, StreamInv, TicketsKept,
     Unfailed
<1>6. c \in plan
  <2>1. leg'[c] # "idle" BY <1>1 DEF StreamInv, TypeOK, ThreadTypeOK
  <2> QED BY <1>1, <2>1 DEF EndKept, LegsPlanned
<1>7. CASE DocumentArrived(c, k, streamed)
  <2>1. UNCHANGED failures BY <1>7 DEF DocumentArrived, PartSucceeded
  <2>2. Has(Outgoing', Document(c)) BY <1>7, ArrivedAdds
  <2>3. Unwired' /\ CvSubmitted' /\ PdfAlone'
    BY <1>1, <1>2, <2>1 DEF AllServed, Unwired, CvSubmitted, PdfAlone
  <2>4. LegsServed' BY <1>1, <1>2, <1>3, <2>1, <2>2 DEF AllServed, LegsServed, OnlyMore
  <2>5. RunServed' BY <1>2, <2>1 DEF AllServed, RunServed, Scheduler!Live
  <2>6. SomeServed' BY <1>1, <1>6, <2>2 DEF SomeServed
  <2> QED BY <2>3, <2>4, <2>5, <2>6 DEF AllServed
<1>8. CASE PartFailed(c, "UNAVAILABLE")
  <2>1. failures' = failures \cup {c} /\ UNCHANGED succeeded_parts
    BY <1>8 DEF PartFailed, record_part_failure
  <2>2. c # "cv" BY DEF Legs
  <2>3. Unwired' BY <1>1, <2>1 DEF AllServed, Unwired
  <2>4. CvSubmitted' BY <1>1, <1>2, <2>1 DEF AllServed, CvSubmitted
  <2>5. PdfAlone' BY <1>1, <2>1, <2>2 DEF AllServed, PdfAlone
  <2>6. LegsServed' BY <1>1, <1>2, <1>3, <2>1 DEF AllServed, LegsServed, OnlyMore
  <2>7. RunServed' BY <1>2, <2>1 DEF AllServed, RunServed, Scheduler!Live
  <2>8. SomeServed' BY <1>1, <1>2, <2>1 DEF AllServed, SomeServed, OnlyMore
  <2> QED BY <2>3, <2>4, <2>5, <2>6, <2>7, <2>8 DEF AllServed
<1> QED BY <1>1, <1>4, <1>5, <1>7, <1>8 DEF on_collector_done

\* A run that ends as OK, with no page waiting, has streamed the last one.
LEMMA RunReachesEnd ==
  ASSUME StreamInv, RunKept, Unfailed, Scheduler!Finish(Run, "none"), completed_pages = {}
  PROVE  next_page = DocPages + 1
<1>1. ~failed[Run] BY DEF Scheduler!Finish
<1>2. ~withdrawn[Run] BY <1>1 DEF RunKept, WithdrawnFailed
<1>3. hi[Run] > 0 /\ taken[Run] = lo[Run]..hi[Run] BY <1>2 DEF Scheduler!Finish
<1>4. /\ lo[Run] \in 1..DocPages /\ hi[Run] \in {0, DocPages} /\ DocPages \in Nat
      /\ next_page \in 1..DocPages + 1
  BY StreamAssumption DEF StreamAssumption, StreamInv, RunTypes, Run, Pages, TypeOK, PageTypeOK
<1>5. hi[Run] = DocPages
  <2>1. hi[Run] # 0 BY <1>3
  <2> QED BY <1>4, <2>1
<1>6. DocPages \in taken[Run]
  <2>1. PICK a \in Int : a = lo[Run] BY <1>4
  <2>2. DocPages \in a..DocPages BY <1>4, <2>1
  <2> QED BY <1>3, <1>5, <2>1, <2>2
<1>7. DocPages \in 1..next_page - 1 BY <1>6 DEF RunKept, TakenOut
<1> QED BY <1>4, <1>7

\* A run that ends leaves every page or its failure.
LEMMA ServedFinish ==
  ASSUME StreamInv, TypeOK', EndKept, RunKept, AllServed, Unfailed, Unfailed', OnlyMore,
         [Next]_vars, NEW why \in {"none", "failed"}, on_scheduler_finish(why)
  PROVE  AllServed'
<1>1. /\ Scheduler!Finish(Run, why) /\ Scheduler!Live(Run)
      /\ UNCHANGED <<plan, process, leg, next_page, admitted, completed_pages>>
  BY DEF on_scheduler_finish, Scheduler!Finish
<1>2. ~finish_requested /\ ~gone /\ ~client_cancelled
  <2>1. ~finish_requested BY <1>1, OpenFailed
  <2> QED BY <2>1 DEF StreamInv, TicketsKept
<1>3. ~FinishCall("CANCELLED")
  BY <1>2 DEF FinishCall, request_finish, Overrides, StreamInv, TicketsKept, Unfailed
<1>4. CASE RunStatus(why) = "OK" /\ PartSucceeded(events, fold_settled)
  <2>1. why = "none" /\ completed_pages = {} BY <1>4 DEF RunStatus
  <2>2. next_page' = DocPages + 1 BY <1>1, <2>1, RunReachesEnd
  <2>3. UNCHANGED failures BY <1>4 DEF PartSucceeded
  <2>4. Unwired' /\ CvSubmitted' /\ PdfAlone'
    BY <1>1, <2>3 DEF AllServed, Unwired, CvSubmitted, PdfAlone
  <2>5. LegsServed' BY <1>1, <2>3 DEF AllServed, LegsServed, OnlyMore
  <2>6. RunServed' /\ SomeServed' BY <2>2 DEF RunServed, SomeServed
  <2> QED BY <2>4, <2>5, <2>6 DEF AllServed
<1>5. CASE PartFailed("cv", RunStatus(why)) /\ RunStatus(why) # "OK"
  <2>1. RunStatus(why) \in {"UNAVAILABLE", "INTERNAL"} BY <1>5 DEF RunStatus
  <2>2. plan # {"pdf"} BY <1>1, <1>5, <2>1, AloneFails
  <2>3. failures' = failures \cup {"cv"} /\ UNCHANGED succeeded_parts
    BY <1>5 DEF PartFailed, record_part_failure
  <2>4. Unwired' BY <1>1, <2>3 DEF AllServed, Unwired
  <2>5. LegsServed' BY <1>1, <2>3 DEF AllServed, LegsServed, OnlyMore
  <2>6. CvSubmitted' /\ RunServed' BY <2>3 DEF CvSubmitted, RunServed
  <2>7. PdfAlone' BY <1>1, <2>2 DEF PdfAlone
  <2>8. SomeServed' BY <1>1, <2>3 DEF AllServed, SomeServed, OnlyMore
  <2> QED BY <2>4, <2>5, <2>6, <2>7, <2>8 DEF AllServed
<1> QED BY <1>2, <1>3, <1>4, <1>5 DEF on_scheduler_finish

\* Every step leaves everybody served while the call has not failed.
LEMMA ServedStep ==
  ASSUME StreamInv, TypeOK', wire \in Seq(EventType), RouteKept, EndKept, EndKept', RunKept,
         ServedKept, [Next]_vars
  PROVE  ServedKept'
<1> SUFFICES ASSUME Unfailed' PROVE AllServed' BY DEF ServedKept
<1>1. Unfailed BY StatusStep DEF StatusOnward
<1>2. AllServed BY <1>1 DEF ServedKept
<1>3. OnlyMore BY OutgoingStep
<1>4. CASE NoPartEnds BY <1>2, <1>3, <1>4, LastStep, ServedNoEnd
<1>5. ASSUME NEW pl \in Plans, ResolvePlan(pl) PROVE AllServed'
  BY <1>5, ServedResolved
<1>6. ASSUME NEW who \in {"process", "pdf"}, SubmitRefused(who) PROVE AllServed'
  BY <1>2, <1>3, <1>6, ServedRefused
<1>7. ASSUME NEW c \in Legs, NEW success \in BOOLEAN, NEW k \in Nat, NEW streamed \in BOOLEAN,
             LegLands(c, success, k, streamed)
      PROVE  AllServed'
  BY <1>2, <1>3, <1>7, ServedLands
<1>8. ASSUME NEW why \in {"none", "failed"}, on_scheduler_finish(why) PROVE AllServed'
  BY <1>1, <1>2, <1>3, <1>8, ServedFinish
<1> QED BY PartFrame, <1>4, <1>5, <1>6, <1>7, <1>8 DEF PartEnds

----------------------------------------------------------------------------
(* The invariant and what it means. *)

\* A call that was just made has nothing to write and serves nobody.
LEMMA WireInit == ASSUME Init PROVE WireInv
<1> USE DEF Init, Scheduler!DInit
<1>1. Outgoing = <<>> /\ wire = <<>> /\ wire \in Seq(EventType) BY DEF Outgoing
<1>2. DOMAIN <<>> = {} /\ Len(<<>>) = 0 OBVIOUS
<1>3. \A e : ~Has(Outgoing, e) BY <1>1, <1>2 DEF Has
<1>4. Ordered(Outgoing) BY <1>1, <1>2 DEF Ordered
<1>5. Streamed(Outgoing) = 0
  <2>1. {j \in 1..Len(Outgoing) : OneAtATime(Outgoing[j])} = {}
    <3>1. 1..0 = {} OBVIOUS
    <3> QED BY <1>1, <1>2, <3>1
  <2> QED BY <2>1, FS_EmptySet DEF Streamed, StreamedIn
<1>6. "pdf" \in Collectors BY DEF Collectors
<1>7. OrderKept BY <1>1, <1>3, <1>4, <1>5, <1>6 DEF OrderKept
<1>8. RouteKept BY DEF RouteKept, Legs
<1>9. EndKept BY DEF EndKept, Said, Drained, Alone, LegsPlanned, Resolved
<1>10. RunKept
  BY DEF RunKept, SubmittedLive, Submitted, WithdrawnFailed, TakenOut, Run, Legs
<1>11. ServedKept
  BY DEF ServedKept, AllServed, Unwired, LegsServed, CvSubmitted, RunServed, PdfAlone, SomeServed
<1> QED BY <1>7, <1>8, <1>9, <1>10, <1>11 DEF WireInv

\* WireInv is inductive once StreamInv is there.
LEMMA WireStep == ASSUME StreamInv, WireInv, [Next]_vars PROVE WireInv'
<1>1. StreamInv' /\ TypeOK' BY InvStep DEF StreamInv
<1>2. OrderKept /\ RouteKept /\ EndKept /\ RunKept /\ ServedKept /\ wire \in Seq(EventType)
  BY DEF WireInv, OrderKept
<1>3. EndKept'
  BY <1>1, <1>2, SaidStep, DrainedStep, AloneStep, LegsPlannedStep DEF EndKept
<1>4. RouteKept' BY <1>2, RouteStep
<1>5. OrderKept' BY <1>1, <1>2, <1>3, OrderStep
<1>6. RunKept' BY <1>1, <1>2, SubmittedStep, WithdrawnStep, TakenStep DEF RunKept
<1>7. ServedKept' BY <1>1, <1>2, <1>3, ServedStep
<1> QED BY <1>3, <1>4, <1>5, <1>6, <1>7 DEF WireInv

\* The order of the events and what an OK promises hold in every state.
THEOREM WireInvKept == Spec => [](StreamInv /\ WireInv)
<1>1. Init => StreamInv /\ WireInv BY InvInit, WireInit
<1>2. StreamInv /\ WireInv /\ [Next]_vars => (StreamInv /\ WireInv)' BY InvStep, WireStep
<1> QED BY <1>1, <1>2, PTL DEF Spec

\* What the client reads is in order, whatever order the pages, the parts and
\* the repairs came in, and OK is only said after the complete event.
THEOREM WireAlwaysInOrder == Spec => []WireInOrder
<1>1. StreamInv /\ WireInv => WireInOrder
  <2> SUFFICES ASSUME StreamInv, WireInv PROVE WireInOrder OBVIOUS
  <2>1. wire \in Seq(EventType) /\ events \in Seq(EventType) /\ Ordered(Outgoing)
    BY DEF WireInv, OrderKept, StreamInv, TypeOK, QueueTypeOK
  <2>2. Ordered(wire)
    <3>1. CASE events = <<>> BY <2>1, <3>1 DEF Outgoing
    <3>2. CASE events # <<>>
      <4>1. Outgoing = wire \o Tail(events) /\ Tail(events) \in Seq(EventType)
        BY <2>1, <3>2 DEF Outgoing
      <4> QED BY <2>1, <4>1, PrefixOrdered
    <3> QED BY <3>1, <3>2
  <2>3. ASSUME finish_started, finish_status = "OK" PROVE Written(Complete)
    <3>1. finish_requested BY <2>3 DEF StreamInv, TicketsKept
    <3>2. events = <<>> /\ Has(Outgoing, Complete)
      BY <2>3, <3>1 DEF WireInv, EndKept, Said, Drained
    <3> QED BY <3>2 DEF Outgoing, Has, Written
  <2> QED BY <2>2, <2>3 DEF WireInOrder
<1> QED BY <1>1, WireInvKept, PTL

\* A stream that ends OK has served every collector of its plan, or lists it
\* among the failures, and has served at least one.
THEOREM OKAlwaysServed == Spec => []OKMeansServed
<1>1. StreamInv /\ WireInv => OKMeansServed
  <2> SUFFICES ASSUME StreamInv, WireInv, finish_started, finish_status = "OK"
               PROVE  /\ \A c \in plan : Served(c) \/ c \in failures
                      /\ \E c \in plan \cup {"cv"} : Served(c)
    BY DEF OKMeansServed
  <2>1. finish_requested BY DEF StreamInv, TicketsKept
  <2>2. Unfailed /\ Intact /\ AllServed /\ Resolved /\ PartsOpen = 0
    BY <2>1 DEF Unfailed, Intact, Resolved, WireInv, ServedKept, StreamInv, TicketsKept, PartsKept
  <2>3. Outgoing = wire /\ succeeded_parts > 0
    BY <2>1 DEF WireInv, EndKept, Said, Drained, Outgoing
  <2>4. next_page = DocPages + 1 => StreamedIn(wire, Len(wire)) = DocPages
    <3>1. Streamed(wire) = next_page - 1 BY <2>2, <2>3 DEF WireInv, OrderKept
    <3>2. DocPages \in Nat BY StreamAssumption DEF StreamAssumption
    <3> QED BY <3>1, <3>2 DEF Streamed
  <2>5. \A c \in Legs : Has(Outgoing, Document(c)) => Served(c)
    BY <2>3 DEF Has, Served, Written
  <2>6. ~Scheduler!Live(Run) /\ \A who \in {"process", "pdf"} : ~Submitted(who)
    <3>1. ~Scheduler!Live(Run) BY <2>2 DEF PartsOpen, LegOpen, RunOpen
    <3> QED BY <3>1 DEF WireInv, RunKept, SubmittedLive
  <2>7. ASSUME NEW c \in plan \cap Legs PROVE Served(c) \/ c \in failures
    <3>1. leg[c] \in {"done", "ticket"}
      <4>1. leg[c] # "idle" BY <2>2 DEF WireInv, EndKept, LegsPlanned
      <4>2. LegOpen(c) = 0 BY <2>2 DEF PartsOpen, LegOpen, RunOpen, Legs
      <4> QED BY <4>1, <4>2 DEF LegOpen
    <3>2. leg[c] # "ticket"
      <4>1. leg["leg"] # "ticket" BY DEF StreamInv, GateKept
      <4>2. leg["pdf"] # "ticket" BY <2>6 DEF Submitted
      <4> QED BY <4>1, <4>2 DEF Legs
    <3>3. CASE plan = {"pdf"} /\ Run \in admitted
      <4>1. "cv" \notin failures BY <2>2, <3>3 DEF AllServed, PdfAlone
      <4>2. next_page = DocPages + 1 BY <2>2, <2>6, <3>3, <4>1 DEF AllServed, RunServed
      <4> QED BY <2>4, <3>3, <4>2 DEF Served
    <3>4. CASE Has(Outgoing, Document(c)) BY <2>5, <3>4
    <3> QED BY <2>2, <3>1, <3>2, <3>3, <3>4 DEF AllServed, LegsServed
  <2>8. "cv" \in plan => Served("cv") \/ "cv" \in failures
    <3> SUFFICES ASSUME "cv" \in plan PROVE Served("cv") \/ "cv" \in failures OBVIOUS
    <3>1. CASE Run \in admitted
      <4>1. "cv" \in failures \/ next_page = DocPages + 1
        BY <2>2, <2>6, <3>1 DEF AllServed, RunServed
      <4> QED BY <2>4, <4>1 DEF Served
    <3>2. CASE Run \notin admitted
      <4>1. process \notin {"origin", "launch", "submit"}
        BY <2>2 DEF PartsOpen, LegOpen, RunOpen
      <4>2. process # "ticket" BY <2>6 DEF Submitted
      <4>3. process = "done" BY <2>2, <4>1, <4>2 DEF StreamInv, TypeOK, ThreadTypeOK, Resolved
      <4> QED BY <2>2, <3>2, <4>3 DEF AllServed, CvSubmitted
    <3> QED BY <3>1, <3>2
  <2>9. \A c \in plan : Served(c) \/ c \in failures
    <3>1. \A c \in plan \ {"cv", "pdf", "leg"} : c \in failures BY <2>2 DEF AllServed, Unwired
    <3> QED BY <2>7, <2>8, <3>1 DEF Legs
  <2>10. \E c \in plan \cup {"cv"} : Served(c)
    <3>1. next_page = DocPages + 1 => Served("cv") BY <2>4 DEF Served
    <3> QED BY <2>2, <2>3, <2>5, <3>1 DEF AllServed, SomeServed
  <2> QED BY <2>9, <2>10
<1> QED BY <1>1, WireInvKept, PTL
=============================================================================
