# TLA+ models of the gRParse server

gRParse turns an uploaded file into a structured Document. Recognition runs
page by page through a pipeline of threads; other readings come from collector
services; what they found is merged, repaired, chunked and rendered, and leaves
either as one answer or page by page on a stream. These modules model the
server where its correctness depends on the order of threads, callbacks and
messages, and where it depends on the algorithms that rewrite a document. TLC
checks them on small instances; TLAPS proves what matters most about the
concurrent parts for every size.

## The system's parts

| part | state it keeps | operations | correct when |
|---|---|---|---|
| Page scheduler (`page_scheduler.cpp`) | four bounded queues, a waiter list, one `Ticket::State` per document (source, cursor, credits, remaining pages, first failure) | submit, cancel, release, open, schedule, render, recognize, assemble, stop | each page of an admitted document is delivered at most once within the window, `on_finish` runs exactly once, no wake-up is lost, a cancel reaches the source |
| Streaming service (`document_streaming_service.cpp`) | one reactor per call: upload, event queue, write in flight, reorder buffer, pending parts, ticket | the gRPC reactions, the processing thread, collector legs, pdf routing leg, the scheduler's callbacks | a producer's pages in order, one `complete` last, nothing held after the call, bytes charged exactly once |
| Pdf collector (`collectors/pdf_collector.cpp`) | the run of clean pages, the held pages, the classification | read the inspector's events, route | the pages it streamed and the pages recognition takes over are disjoint and complete |
| In-flight budget, call executor, fetch slots, resource pool | counters and queues guarded by a mutex or a CAS loop | acquire, release, submit, drain | never over the limit, nothing lost on a throw |
| Unary parser and collector coordinator (`document_parser_service.cpp`, `source_parse.cpp`, `collectors/`) | one task per call: its legs, readings, failures, offset rows | admit, fetch, scatter, gather, merge, shape, write | answered once, an OK carries its plan, every resource returned |
| Remote and consensus page sources | per backend: the registered calls, the cancelled mark, the password that opened; over them the legs that loaded, the breaker's counts | open, read text, render, cancel | a healthy backend carries its pages, a cancel reaches every call, a failure keeps its cause |
| Collector legs (`collector_support.h`, `src/collectors`) | upload writer, reads, the fold of the answers, a second round of parallel dials | upload, read, fold, time out, report | the outcome says what the wire said, what was folded is complete |
| Office, storage, book, match and archive folds | the Document under construction and the indexes of its fold | one operation per event | each event folded once, references resolve, reading order kept |
| Document passes (merge, repair, headings, reading order, page fold, delta, chunker) | the item arenas and their references | renumber, move, split, delete | every reference resolves, no text lost, the client holds the server's document |
| Exports | a walk over a copy of the Document | html, doctags, gdocs, vtt, markdown, latex, doclang, canonical json | each item once, in order, none lost, the tree untouched |

The streaming service submits the CV part of a call to the page scheduler and
returns one credit per page event written; the scheduler calls back on its own
threads (`on_document`, `on_page`, `on_finish`) through the reactor's callback
gate. Collector legs and the pdf routing leg run on threads of their own and
settle one pending part each; the last part to land completes the stream. A
unary call is admitted on the thread that reacted to it, charged to the
in-flight budget, queued on the executor, and run by a worker through
`parse_source`: fetch (a slot, then a charge), one thread per leg, merge in
plan order, the repair passes, and the surface's own shaping.

What is hard here, and hard to test: a page or a cancel between two sections
of one callback; the last page counted by one worker while another cuts the
document; a client that cancels between `submit()` and the ticket being stored;
a prefix streamed by the inspector and taken over by recognition; `stop()` with
pages between two queues; a bounded buffer that must be exactly as large as the
credit window; a charge, slot or engine on a path that throws; a worker
that answers before the upload has ended; a renumbering that must reach
every reference of a document, also one whose pages a client already holds.
`PROJECT.json` lists each hazard at its line with the property that would
catch it.

## Modules

### Threads, calls and messages

`DocumentDelivery` is the abstract specification: what `PageScheduler::submit`
promises its caller. A document is admitted, sized once, announced; a page of
its span is delivered at most once and only while fewer than `page_window`
pages are uncredited; `on_finish` runs once and no page comes after it; a
document that finishes cleanly and was never withdrawn delivered its span.

`PageScheduler` models `PageScheduler::Impl`. Every thread is a process whose
program counter stands between the sections of its loop; an action is one
section under a lock, or one atomic operation. `documents_`, `render_`,
`inference_`, `assembly_` and the reschedule queue are sequences with their
capacities, a blocked push is an action that is not enabled. Pages are numbers,
and what a stage computes is a choice between success, a throw and a cancel.
`stop()` is a process of its own that may start at any time. Its last lines
instantiate `DocumentDelivery` with the refinement mapping.

`DocumentStream` models one `StreamProcessDocument` call: the client, the
reactor's reactions, the processing thread, up to two collector legs, the pdf
routing leg over `collect_pdf`, and the CV run. The run *is* `DocumentDelivery`
(instantiated for one document), so what is checked of the call rests on the
promise that `PageScheduler` is shown to keep, not on a second copy of the
scheduler. An action is one section under `mutex_`; the callback gate is a
variable where a thread holds it over several sections (`launch`,
`submit_cv`), and elsewhere its exclusion is the action's atomicity. Chunk
payloads are unit sizes, events are (kind, producer, page) records, what the
repair pass changes and what a collector answers are choices.

`ParseCall` models the unary and streamed conversion calls and what they share:
the executor's bounded queue with its sleeping workers and draining destructor,
the load and compare-exchange loop of the byte budget, the fetch slots, the
pool of recognition engines and the embedding engine's mutex. A document is the
sequence of readings merged into it; a fault is a choice at each place where the
code can fail.

`ConsensusSource` models where a PDF's pages come from: `ConsensusPdfPageSource`
over one `RemotePdfPageSource` per backend, driven by an opener and by render
workers as the scheduler drives it. An operation of a leg is a loop of backend
calls: a call is registered (unless the leg is cancelled), and then answered,
failed, or aborted; a hash-only call that misses the backend's cache is retried
with the bytes, a Probe goes on to the next password. Pages are scanned, folded
and rendered leg by leg because other workers move the breaker in between, and
`cancel()` walks the legs one at a time. Backends and their caches are external.
The vote on the words of a page, rasters and cells are abstracted: a text answer
has text or is blank. Backends answer CANCELLED only to a call that was
cancelled, as the code assumes when it takes that status for the request's own.

`CollectorCalls` models one collector leg: the upload writer on its own thread
against a transport of bounded window, the reads, a cancel, the deadline, the
final status, the second round of parallel dials that books and messages make,
and the outcome. It folds what it reads with `StreamFolds` (the match stream of
markup and the record stream of web archives), `BookFold` (chapters of a book,
HTML bodies of a message) and, for the in-process storage handler,
`StorageFold` (the tolerant parser and the fold of its node tree).
`CollectedDocument` is the Document these folds grow. The worker service is
external: a script of answers, in the order the worker may send them.

### Documents

`DocumentTree` is a Document as arenas of linked items, with its references,
its integrity check, item placement and rename log. Over it:

* `StructureRepair`: the four structural repairs, and text retirement with its
  renumbering; `DocumentText`: the text rules over tokens; `DocumentRepair`:
  the passes of `repair_document` (running headers, run-in headings, form rows,
  levels, continuations, hyphenation); `HeadingHierarchy`:
  `infer_heading_hierarchy` for decimal numberings; `ReadingOrder`: the
  recursive whitespace cut and the body order.
* `DocumentMerge`: `merge_documents`, arenas appended under new names and claims
  decided by standing; `StreamDelta`: the projection into pages, the fold both
  sides keep, and the delta; `Chunker`: the chunkers and their offset table.
* `DocumentPasses` composes them: a document on its way to a client, in the
  modes unary, streamed, projected, recognized and abandoned, and a chunking
  call over a unary document.
* `ExportWalk` (cell layouts under a budget, what an export does to its copy,
  then the walk as a stack of jobs), `MarkupExports` (HTML, DocTags, Google
  Docs, WebVTT), `TreeExports` (Markdown, LaTeX, DocLang); `DocumentExports` is
  one export of one document.
* `OfficeArena` (the state the office folds share), `WriterFold` (body,
  comments, bookmarks, forms), `DeckFold` (objects, charts, slides, drawings),
  `SheetFold` (workbook sheets); `OfficeMapper` is the router, the end-of-stream
  sequence, the collector's outcome and the figure enrichment, with the parts
  of the worker's stream interleaved arbitrarily.

A pass is an operator from a document to a document; a step of the composing
modules applies one of them, in the code's order.

### For TLC and TLAPS

The `MC...` modules give the instances. Eight modules hold theorems:
`PageSchedulerProofs` and `SchedulerDeliveryProofs`, `DocumentStreamProofs` and
`StreamOrderProofs`, `ParseCallProofs`, `ConsensusSourceProofs`,
`CollectorCallsProofs` and `DocumentPassesProofs`.

## Runs

| run | question | instance |
|---|---|---|
| `scheduler_one_document` | types, page accounting, cancels and the refinement of `DocumentDelivery`, against every throw, cancel, consumer answer and a shutdown at any moment | one document whose `page_range` starts at its second page, two assemblers, window two |
| `scheduler_two_documents` | credits, parking and hand-over on a render queue of one place | two documents, window one |
| `scheduler_finishes` | every admitted document reaches `on_finish` | one thread of each kind, fair |
| `stream_call` | pages and events in order, bytes and credits conserved, an OK was served, no run is orphaned, every call ends | three pages, window two, every shape of plan, two chunks against a limit of two |
| `stream_enforced_finish` | (violation) nothing is written after `Finish` | one page, a leg that breaks a rule |
| `consensus_pages` | a healthy backend carries its pages, cancels stop calls, the first cause is kept, one upload | backends of two and one pages, two workers, one password, three faults, one eviction, a cancel |
| `parse_call` | resources conserved, one answer, an OK carries its plan, offset rows label recognition only | two calls of mixed requests, two workers, one place, slot and engine, every fault |
| `parse_finishes` | an accepted call is run even by a dying executor, every call is answered | two fetched calls, a throwing factory, the executor destroyed at any moment |
| `document_passes` | repairs hold, no text is lost, reading order, the client's copy, claims, merged trees, chunks | seven families of small documents in the modes that deliver them |
| `document_exports` | everything rendered once, in order, tables and registries consistent, the tree kept | five families of small documents through every format |
| `office_fold` | every event folded once, references resolve, layout order | letters, reports, forms, decks, drawings, workbooks, every interleaving of their parts |
| `collector_calls` | truthful outcome, complete folds, storage markup kept, every leg ends | markup, book, mail, page and archive legs with uploads that break and early answers; storage bodies of up to four more constructs |

What the properties say, where the name alone does not:

* `WireInOrder`: the pages recognition and the inspector send reach the client as
  1, 2, 3, ..., a repair follows the last page it speaks of and precedes its
  collector's Document, `complete` is last, and OK is said only after it.
  `OKMeansServed`: a call finished OK served every collector of its plan or
  lists it among the failures, and served at least one.
* `BufferMatchesCredits`: `buffered_pages` is the number of queued page events
  whose credit the writer still has to return.
* `NoOrphanRun`: no CV run goes on after the call with nobody to cancel it.
* `ContentKept`: the passes neither lose nor invent text, and character spans
  follow the text they label. `RepairsHold`: the integrity check finds nothing
  after the repairs, and what they settle stays settled. `MergeHolds`: a
  document-level field carries its best account (`ClaimsDecide`), and legs whose
  documents are sound merge into a sound document (`MergedSound`).
  `ClientHoldsDocument`: pages, fold and delta give the client the server's
  document. `ChunksHoldDocument`: chunks carry all the content, and the offset
  table points at it.
* `RenderedWhole`: nothing twice, nothing lost. `SideTablesHold`: the grids and
  registries an export builds agree with the document. `LoadKeepsTree`: the
  normalised copy is a tree with the same content.
* `FoldComplete`: every event is folded once, and a comment, a tracked change
  and a filled field point at the paragraph, and the characters of it, that
  their offsets name, or at nothing when they name none. `StorageKept`: words,
  links and table grids are those of the body, and an item names the innermost
  panel and the innermost other macro it stands in.
* `AnswersFolded`: what a leg's Document holds is what the worker sent, cut only
  where the code cuts. `OutcomeTruthful`: success exactly when the stream was
  complete and the status OK; no cancelled or late call is a success.

The bounds are named constants. Two pages are the fewest for which a last page
is different from another, three the fewest for overtaking plus one page
behind; a window of two lets a document be out of credits, one page short, or
free. One place in a queue makes every push meet a full queue. Two chunks of
one unit against a limit of two let an upload be complete, short, over the
limit, refused by the budget, or followed by data. `consensus_pages` sets
`BreakerFailures` to two where the code has three: two workers and three faults
then drop a leg while its pages are in flight and still leave a fault for the
other leg; backends of different length give a page only one of them has, and
one eviction makes a page call miss after the document was opened. Two calls
against one slot, one engine and a budget of three units contend for each.
The document passes scale the code's thresholds down (a caption of two
words where it has more, a table of five positions where it has millions), so
that a document of a handful of items stands on both sides of each; the
properties do not depend on a threshold's value, only on there being one. The
document families are named for the structure they vary; each combines every
placement of a few items in it. Workers, and calls where only invariants are checked, are
symmetric.

`document_passes`, `document_exports`, `office_fold` and `collector_calls` do not
check deadlock: a document, fold or leg that is done stops. Everywhere else a
state without a step must be the finished one, which the model gives a
stuttering step.

## Fairness

Weak fairness of every thread's steps: the server's threads run, a worker does
not sit on a page for ever (recognition and rendering end or throw), and a
mutex is released after a bounded section. For the scheduler the consumer
returns the credits of the pages it accepted; the streaming service does (an
accepted page is written or the call is finished). For the streaming call a
write in flight completes or fails, as gRPC guarantees, a leg's call is bounded
by its deadline, and the CV run finishes because the scheduler's liveness says
so. `ParseCall` assumes that each call's own steps and each worker's steps run;
`CollectorCalls` that the writer thread, the server's reads, the cut of a broken
upload, the reader and the dialers run and that a deadline passes. No client is
ever assumed to send, to half-close or to cancel, and `LegEnds` lets a server be
silent. `ConsensusSource` states no fairness; that a document is never stuck
there is the absence of deadlock, since the model may stop only when the
document is settled.

## Findings

`stream_enforced_finish` is expected to fail: `on_page` does not look at
`finish_requested_`, so after ENFORCE finished the call a page that an
assembler already holds is accepted and its write starts behind `Finish`
(`document_streaming_service.cpp:912`).

The other disagreements between code and text met while modelling have no run
of their own; the models follow the code and the properties are stated so that
they allow exactly these:

* Scheduler and stream: `stop()` closes the queues before documents are failed
  as shutting down, so a page in flight reports INTERNAL and not UNAVAILABLE. A
  collector's Document with more pages than the CV run raises `total_pages_`,
  and the clean run is recorded as failed (`document_streaming_service.cpp:961,
  1033`). With a collector beside the CV run page events are not in page order.
  When the breaker has dropped the only backend that has a page, the page fails
  as a refused document although there were only outages.
* Parsing: the VLM branch returns OK without `derive_offsets`
  (`source_parse.cpp:2529`; `src/README.md:174` "Every parse path builds the
  offset table from the finished document"). The rename log of a merge is
  incomplete (`document_merge.cpp:446` against `document_merge.h:74`).
* Repair: `absorb` does not shift character spans (`document_repair.cpp:783`),
  and a joined hyphen leaves the head's span one too long; `repair_document` is
  not idempotent (`document_repair.h:143`); `split_group` leaves the children of
  a code item with their old parent; `heading_hierarchy.h` speaks of a title
  that pushes sections down, the code does not.
* Chunks: the captions of a code block are marked as rendered and never emitted
  (`chunker.cpp:339, 643`); the children of a blank heading's folded child are
  not walked; a list absorbs a text that is also a float's caption, which then
  repeats.
* Exports: a caption ahead of its float renders twice in HTML, DocTags and
  Google Docs (`renderer_base.h:203`); HTML and Google Docs lists drop children
  that are no texts and inline groups ignore a child's layer; the migration of
  a misplaced list item drops its children, and a rich cell that named it keeps
  a shifted reference; only the first LaTeX title survives, and LaTeX footnotes
  do not render through their claimer; DocLang drops code directly in a list
  and the children of tables, forms and pictures; Markdown loses the captions of
  forms, and repeats or misplaces page breaks after a list or section that
  spans pages (`markdown_walk.cpp:245`); DocTags writes two tokens for one
  position when spans and offsets disagree.
* Collectors: parallel dials may have parsed a chapter or body behind a skipped
  one; it is then dropped although the warning says it was "not parsed". In
  storage markup, pictures in headings, table cells and task bodies are lost,
  a list item's text precedes its blocks, an end tag for an element flattened as
  too deep closes an outer one of the same name, and where a colspan crosses a
  rowspan the later cell wins. `stamp_meta` writes the name of each open scope
  under `panel` or `macro`, the outermost first, so an item of a note inside an
  info keeps only `note` (`confluence/storage_fold.cpp:109`), where the comment
  on `StampScope` (`storage_fold.h:56`) has every item inside a scope carry its
  name. A forced flush of the match stream may cut a
  character reference in two.
* Office: a slot whose anchor is a picture later moved to the furniture sends the
  next picture to the front of the body (`writer_fold.cpp:200`); a picture of a
  hidden sheet is in the body layer; a sheet's chart that arrives before its
  sheet goes to the body. Frames, shapes and pictures are taken to stream after
  the body text, as comments of the code say.

## Proofs

Every theorem holds for all values of the constants that satisfy the named
assumptions: `SchedulerAssumption` and `ThreadAssumption` (capacities, the
window and the page count are positive, spans are ranges of pages, threads of
different roles differ, the workers are finitely many), `StreamAssumption`,
`ParseAssumption` (finitely many calls; no call is called `NoCall` or
`exited`), `ConsensusAssumption`, `LegAssumption` (scripts are lists, an error
of a script states a code, only plain streams carry pages) and
`InputsAssumption` (documents have the arenas and lists of a `Document`,
confidences are numbers, collectors have a rank). Nothing is assumed of the size
of a queue, a window, a budget, a plan, a script, a document or a set of threads
or documents beyond that.

### The scheduler

The state of a thread alone does not say what it may do next, so types are not
inductive: a worker's next step indexes the document and page it holds.
`HoldsJob` adds that a busy thread holds a job and that queues contain only
jobs; with it `TypeCorrect` follows, and `CancelAlwaysReachesSource`: whichever
of `cancel()` and the opener's publication comes first, a cancelled document's
published source is cancelled, or is about to be by the thread that saw the
flag.

The second part of `PageSchedulerProofs` adds where documents are in their life. `Lifecycle`: a
document is admitted, queued, opened and sized at most once, and pages and
reschedules exist only of sized documents (`LifecycleKept`). `WakesOwned`: a
pending reschedule mark has an owner that clears it (the queue, the waiters, or
a thread with the push or the loop in hand), a parked document waits on a full
render queue, and a cancel during the push loop has its canceller waiting
(`WakesAlwaysOwned`). From the two, `WakeupNeverLost`: `Spec => []NoLostWakeup`.
The delicate steps are the ones that release a mark: a thread that ends
`schedule_pages` must leave nothing to schedule, or another owner.

The first part of `SchedulerDeliveryProofs` counts. `PagesAlwaysAccounted`: `remaining_pages` is the
number of pages not ended and the document has finished exactly when it is
zero; a page is with one of the queues or threads (`Holding` and `Queued` as
cardinalities of finite sets, with lemmas for what one step adds or removes).
`CreditsAlwaysConserved`: the free credits, the pages in flight and the pages
owed add up to the window of a live document. That is not inductive alone: an
assembler that returns a credit must be known to hold a page that is still
owed (`CreditsAlwaysKept`).

The rest of `SchedulerDeliveryProofs` proves the refinement. `Journeys`: each page is in
one place at a time and in the span, none is delivered twice, and a scheduled
page of a document that is neither cancelled nor failed is delivered or on its
way. `Announcing`: `on_document` precedes every page. Then each action of
`PageScheduler` maps to `Admit`, `Withdraw`, `Break`, `Size`, `Announce`,
`DeliverPage`, `Credit`, `Finish` or a stutter (`SchedulerImplementsDelivery`:
`Spec => ImplementsDelivery`). The step that needs every invariant is the last
page: the thread that counts `remaining_pages` down to zero may finish cleanly
only if every page of the span was delivered, which is `PagesAccounted` and
`Journeys` together (`LastPage`).

### The streaming call

`StreamInv` is the inductive invariant of `DocumentStream`, in groups: types of
the run, the charges (`ChargesKept`), the upload and callback gate (`GateKept`,
`AdmissionKept`), the pending parts and who settles them (`PartsKept`), the
ticket (`TicketsKept`, `OwedHasTicket`), the buffer (`BufferKept`) and the pdf
route (`PdfKept`). From it `StreamTypeCorrect`, `ChargesAlwaysConserved`,
`BufferAlwaysMatches` and `NoRunOrphaned`. The last goes: a call that finishes
OK has no pending part, hence its run is over; a call that finishes otherwise
cancels its ticket then, or whoever stores the ticket finds the call finished
and cancels it. A consequence of `BufferMatchesCredits`: the refusal of a
page by a full buffer (`PageRefused`) is never taken while the client is there,
because the scheduler never has more pages out than the window.

`StreamOrderProofs` is about everything a client is written. The wire alone is
not inductive: the next event comes from the queue, and what may still be queued
depends on what was. So the invariant speaks of `Outgoing`, the events on the
wire and the ones queued behind them as one sequence. A step leaves it, adds
events at its end (a page, a repair, a Document, `complete`, or a projected
collector's pages at once), or, when a write fails, cuts it and fails the call.
`Follows` says what may come next; `OneFollows`, `PagesFollow` and
`ProjectedFollow` that adding what follows keeps the sequence `Ordered`, of
which the wire is a prefix. `WireInv` adds what is still to land: pages still to
come are those not in `Outgoing` (`RouteKept`, `RunKept`), a repair is not yet
sent while its part is pending (`OrderKept`), `complete` is there once the
last part settled (`EndKept`), and every collector of the plan is pending,
served or listed as failed (`ServedKept`). From it `WireAlwaysInOrder` and
`OKAlwaysServed`.

### The conversion calls

`CallInv` says of the shared parts that the queue, budget, slots and pool hold
what the calls hold (`QueueKept`, `BudgetKept`, `SlotsKept`, `PoolKept`), and of
each call how its answer, legs, plan, offset rows and charges fit its program
counter. Its proof rests on `OwnStep`: a step is a call's own or a worker's with
it, and leaves the other calls alone; what one call's step does to a counter is
settled once (`ChangeOne`). The theorems: `ResourcesAlwaysConserved`,
`AnswersAlwaysOnce`, `OKAlwaysCarriesPlan`, `OverlayAlwaysCv` (a plan names a
collector once, so one leg is recognition), `AlwaysDrainedBeforeExit`.

### The consensus source

`CancelAlwaysStopsCalls` and `FirstCauseAlwaysKept` rest on `CancelInv`:
`cancel()` has set exactly the legs it passed, a call registered with such a
leg was aborted (`LegsCancelled`), an operation ends as cancelled only after
`cancel()` began, and `cancel()` begins only after a failure was recorded or the
client cancelled (`CancelHasCause`).

`HealthyLegAlwaysCarries` says that a document fails unasked only on a page
every healthy backend lacks. Its invariant `PageInv` adds where each operation
is in its life (`Stages`, `OpsPlaced`, `Doors`), that a failure of an operation
blames its own backend (`Blamed`), that a leg without a failure that loaded is
a source with all of its pages (`Sized`), that the scan asked it (`Heard`) and
that a probe has not gone past the password that opens (`Tried`): so whichever
leg the scan, the fold or the render passes over has failed or lacks the page.
`UploadedAlwaysOnce` follows from `Uploads`: bytes go to a backend only with the
opener's call, and only while that backend does not have the document.

Steps that write one operation of one thread are instances of `Operation` with
an outcome, worker steps of `Turn`; `WritingOne`, `WritingAll` and `Failing`
settle what they preserve and each action cites one of them.

### The collector call

`OutcomeTruthful` compares the outcome of a leg with what its server did, and the
reader knows only its flags. `LegInv` closes the gap with the answers on their
way: on a call that was not cut, a trailer or an error of the script has been taken
down by the reader or is in flight or still in the script (`TakenDown`); a call
that ended by itself has nothing ahead once the reader is through
(`CallOver`); bytes counted stay under the cap unless the reader said so
(`WithinCap`). `OutcomeAlwaysTruthful` holds for every script, window and
moment of the cut, and for every kind of fold: the proof uses no more of a fold
than which fields it writes.

### The merge

A document-level field: merging only compares a newcomer with the answer in
place, `ClaimsDecide` speaks of the best account of all. `FieldsHeld` says that
the answer in place is its recorded holder's account and beats every other
account so far (where every account states a confidence, or none does). `Beats`
is transitive and total, so one comparison settles a newcomer
(`FieldsAlwaysHeld`, `ClaimsAlwaysDecide`).

The trees: renumbering maps a name of the leg to the same arena, shifted by the
items already there, and leaves roots, pages and absent references alone. The
shift is injective and its range is disjoint from the names of the target, so
an appended item keeps its parent, its children and its targets, and the
target's items are untouched (`ItemsAfter`, `AppendKeepsSound`). `SoundMeans`
ties the pointwise `Sound` to `IntegrityErrors`, the model of
`integrity_check.cpp`: for a document whose items are named by their places the two agree.
By induction along the plan (`TreeHeld`), `MergeAlwaysSound`: any number of legs
without an integrity error merge into a document without one; with the fields,
`MergeAlwaysHolds`. This is the part
of `IntegrityKept` that concerns the merge; the repair passes stay with TLC.

### Only model-checked

* Liveness (`EveryDocumentFinishes`, `EveryCallEnds`, `EveryCallAnswered`,
  `LegEnds`): fairness and ENABLED are outside the prover's reach.
* What the repair passes, the chunkers, the exports, the office folds and the
  collector folds do to a document (`RepairsHold`, `ContentKept`, `ReadsDown`,
  `ClientHoldsDocument`, `ChunksHoldDocument`; the properties of
  `document_exports` and `office_fold`; `AnswersFolded` and `StorageKept`). They
  are recursive definitions and folds over sequences; what such a definition
  computes for every input needs induction over data, which the installed
  provers cannot do with the library's induction theorems.

## Not modelled, and why

The page source watch (a poller that cancels a source, whose effect is
`ConsensusSource`'s cancel), targets and storage sources (planned, below), the
in-memory document (decoding behind the page-source interface), the VLM client,
the recognition engines (numeric inference), and configuration, metrics and the
server's `main`. Within the modelled parts: metrics, logging and timings do not
influence control; option resolution is a choice of plan; the assembly of
regions and cells into items and the vote on a page's words are judged by
scores; escaping, styling and the field-by-field canonical JSON are left out of
the exports, language and table serialization out of the chunker, formatting and
typed values out of the office fold, heading styles, bookmarks, roman and worded
numberings out of the hierarchy; the speech, XML and EBCDIC collectors are the
plain form of a collector leg.

## Plan

1. Page source watch, targets with their retries, and storage sources.
2. Beyond the merge, the document steps that need no induction: that one
   placement of `StructureRepair` moves an item without losing it, and that
   removing retired texts renumbers as the merge does.
