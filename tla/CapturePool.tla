---------------------------- MODULE CapturePool -----------------------------
(***************************************************************************)
(* The concurrent capture pool of the archiver (client/pool.rs): the main  *)
(* thread hands URLs to worker threads over an unbounded task channel,     *)
(* receives outcomes over a bounded channel in whatever order the captures *)
(* finish, and records them in input order.                                *)
(*                                                                         *)
(* A task or an outcome is represented by its index.  The URL it carries   *)
(* is the one at that position of the input (the invariant IndexNamesUrl   *)
(* below), and what was captured for it does not matter to the pool.       *)
(***************************************************************************)
EXTENDS Integers, SequencesExt

CONSTANTS
    Workers,    \* the worker threads; there are `concurrency` of them
    NoWorker,   \* stands for no worker
    NumUrls     \* the number of URLs the caller's iterator yields

ASSUME CapturePoolAssumption ==
    /\ IsFiniteSet(Workers)
    /\ Workers # {}
    /\ NoWorker \notin Workers
    /\ NumUrls \in Nat

Concurrency == Cardinality(Workers)
Limit == 2 * Concurrency

Index == 0 .. (NumUrls - 1)
NoTask == -1                        \* a worker with no task in hand

VARIABLES
    \* The main thread: the dispatcher and the recording loop.
    main,           \* what the main thread is doing
    consumed,       \* URLs taken from the input iterator
    dispatched,     \* URLs handed out, also the index of the next one
    idle,           \* workers the dispatcher believes to be waiting
    cancelled,      \* the sink asked to stop
    completed,      \* outcomes received
    pending,        \* indices received and not yet recorded
    nextToRecord,   \* the index the archive needs next
    result,         \* "ok", or "error" once a record could not be written
    archive,        \* the indices recorded, in the order they were
    \* Shared with the workers.
    tasks,          \* the task channel
    taskOpen,       \* the task sender has not been dropped
    lock,           \* the worker holding the mutex of the task receiver
    outcomes,       \* the bounded outcome channel
    \* The workers.
    pc,             \* where each worker is in its loop
    job             \* the index each worker has in hand

mainVars == <<main, consumed, dispatched, idle, cancelled, completed, pending,
              nextToRecord, result, archive>>
workerVars == <<lock, pc, job>>
vars == <<mainVars, tasks, taskOpen, outcomes, workerVars>>

TypeOK ==
    /\ main \in {"filling", "waiting", "recording", "joining", "returned"}
    /\ consumed \in 0 .. NumUrls
    /\ dispatched \in 0 .. NumUrls
    /\ idle \in 0 .. Concurrency
    /\ cancelled \in BOOLEAN
    /\ completed \in 0 .. NumUrls
    /\ pending \in SUBSET Index
    /\ nextToRecord \in 0 .. NumUrls
    /\ result \in {"ok", "error"}
    /\ archive \in Seq(Index)
    /\ tasks \in Seq(Index)
    /\ taskOpen \in BOOLEAN
    /\ lock \in Workers \cup {NoWorker}
    /\ outcomes \in Seq(Index)
    /\ pc \in [Workers -> {"locking", "receiving", "capturing", "reporting",
                           "exited"}]
    /\ job \in [Workers -> Index \cup {NoTask}]

Init ==
    /\ main = "filling"
    /\ consumed = 0
    /\ dispatched = 0
    /\ idle = Concurrency
    /\ cancelled = FALSE
    /\ completed = 0
    /\ pending = {}
    /\ nextToRecord = 0
    /\ result = "ok"
    /\ archive = <<>>
    /\ tasks = <<>>
    /\ taskOpen = TRUE
    /\ lock = NoWorker
    /\ outcomes = <<>>
    /\ pc = [w \in Workers |-> "locking"]
    /\ job = [w \in Workers |-> NoTask]

-----------------------------------------------------------------------------
(* The main thread.                                                        *)

\* Faulty: the fill loop does not wait for an idle worker.
MayFillWhenBusy ==
    /\ ~cancelled
    /\ dispatched - nextToRecord < Limit

MayFill ==
    /\ ~cancelled
    /\ idle > 0
    /\ dispatched - nextToRecord < Limit

\* One iteration of Dispatcher::fill: the URL leaves the iterator before the
\* sink is asked, so a refused URL is consumed and never dispatched.
Fill ==
    /\ main = "filling"
    /\ MayFill
    /\ consumed < NumUrls
    /\ consumed' = consumed + 1
    /\ \/ cancelled' = TRUE
          /\ UNCHANGED <<tasks, dispatched, idle>>
       \/ tasks' = Append(tasks, dispatched)
          /\ dispatched' = dispatched + 1
          /\ idle' = idle - 1
          /\ UNCHANGED cancelled
    /\ UNCHANGED <<main, completed, pending, nextToRecord, result, archive,
                   taskOpen, outcomes, workerVars>>

\* fill returns: the loop condition fails or the input has run out.
FillDone ==
    /\ main = "filling"
    /\ ~MayFill \/ consumed = NumUrls
    /\ main' = "waiting"
    /\ UNCHANGED <<consumed, dispatched, idle, cancelled, completed, pending,
                   nextToRecord, result, archive, tasks, taskOpen, outcomes,
                   workerVars>>

\* Faulty: an outcome received after a cancellation is dropped.
ReceiveDroppingCancelled ==
    /\ main = "waiting"
    /\ completed < dispatched
    /\ outcomes # <<>>
    /\ outcomes' = Tail(outcomes)
    /\ completed' = completed + 1
    /\ idle' = idle + 1
    /\ IF result = "ok"
       THEN /\ cancelled' \in {cancelled, TRUE}
            /\ pending' = IF cancelled' THEN pending
                                       ELSE pending \cup {Head(outcomes)}
            /\ main' = "recording"
       ELSE UNCHANGED <<cancelled, pending, main>>
    /\ UNCHANGED <<consumed, dispatched, nextToRecord, result, archive, tasks,
                   taskOpen, workerVars>>

\* An outcome is received and the sink told of it.  After a failed record the
\* outcome is only counted, so that no worker is left blocked on the channel.
Receive ==
    /\ main = "waiting"
    /\ completed < dispatched
    /\ outcomes # <<>>
    /\ outcomes' = Tail(outcomes)
    /\ completed' = completed + 1
    /\ idle' = idle + 1
    /\ IF result = "ok"
       THEN /\ cancelled' \in {cancelled, TRUE}
            /\ pending' = pending \cup {Head(outcomes)}
            /\ main' = "recording"
       ELSE UNCHANGED <<cancelled, pending, main>>
    /\ UNCHANGED <<consumed, dispatched, nextToRecord, result, archive, tasks,
                   taskOpen, workerVars>>

\* Faulty: recording goes on past an outcome that cannot be recorded.
RecordPastFailure ==
    /\ main = "recording"
    /\ nextToRecord \in pending
    /\ pending' = pending \ {nextToRecord}
    /\ nextToRecord' = nextToRecord + 1
    /\ \/ archive' = Append(archive, nextToRecord)
          /\ cancelled' \in {cancelled, TRUE}
          /\ UNCHANGED <<result, main>>
       \/ result' = "error"
          /\ UNCHANGED <<archive, main, cancelled>>
    /\ UNCHANGED <<consumed, dispatched, idle, completed, tasks, taskOpen,
                   outcomes, workerVars>>

\* The next outcome in input order is recorded, or cannot be.
Record ==
    /\ main = "recording"
    /\ nextToRecord \in pending
    /\ pending' = pending \ {nextToRecord}
    /\ \/ archive' = Append(archive, nextToRecord)
          /\ nextToRecord' = nextToRecord + 1
          /\ cancelled' \in {cancelled, TRUE}
          /\ UNCHANGED <<result, main>>
       \/ result' = "error"
          /\ main' = "waiting"
          /\ UNCHANGED <<archive, nextToRecord, cancelled>>
    /\ UNCHANGED <<consumed, dispatched, idle, completed, tasks, taskOpen,
                   outcomes, workerVars>>

\* The outcome the archive needs next has not arrived: refill the workers.
RecordDone ==
    /\ main = "recording"
    /\ nextToRecord \notin pending
    /\ main' = "filling"
    /\ UNCHANGED <<consumed, dispatched, idle, cancelled, completed, pending,
                   nextToRecord, result, archive, tasks, taskOpen, outcomes,
                   workerVars>>

\* Faulty: the task sender outlives the recording loop.
CloseKeepingSender ==
    /\ main = "waiting"
    /\ completed = dispatched
    /\ main' = "joining"
    /\ UNCHANGED <<consumed, dispatched, idle, cancelled, completed, pending,
                   nextToRecord, result, archive, tasks, taskOpen, outcomes,
                   workerVars>>

\* Every dispatched capture is accounted for: dropping the dispatcher closes
\* the task channel.
Close ==
    /\ main = "waiting"
    /\ completed = dispatched
    /\ taskOpen' = FALSE
    /\ main' = "joining"
    /\ UNCHANGED <<consumed, dispatched, idle, cancelled, completed, pending,
                   nextToRecord, result, archive, tasks, outcomes, workerVars>>

\* thread::scope joins every worker before it returns.
Join ==
    /\ main = "joining"
    /\ \A w \in Workers : pc[w] = "exited"
    /\ main' = "returned"
    /\ UNCHANGED <<consumed, dispatched, idle, cancelled, completed, pending,
                   nextToRecord, result, archive, tasks, taskOpen, outcomes,
                   workerVars>>

Main == Fill \/ FillDone \/ Receive \/ Record \/ RecordDone \/ Close \/ Join

-----------------------------------------------------------------------------
(* A worker.  It holds the mutex for as long as it waits for a task.       *)

Lock(w) ==
    /\ pc[w] = "locking"
    /\ lock = NoWorker
    /\ lock' = w
    /\ pc' = [pc EXCEPT ![w] = "receiving"]
    /\ UNCHANGED <<mainVars, tasks, taskOpen, outcomes, job>>

TakeTask(w) ==
    /\ pc[w] = "receiving"
    /\ tasks # <<>>
    /\ job' = [job EXCEPT ![w] = Head(tasks)]
    /\ tasks' = Tail(tasks)
    /\ lock' = NoWorker
    /\ pc' = [pc EXCEPT ![w] = "capturing"]
    /\ UNCHANGED <<mainVars, taskOpen, outcomes>>

\* recv fails once the sender is dropped and the channel is empty.
Exit(w) ==
    /\ pc[w] = "receiving"
    /\ tasks = <<>>
    /\ ~taskOpen
    /\ lock' = NoWorker
    /\ pc' = [pc EXCEPT ![w] = "exited"]
    /\ UNCHANGED <<mainVars, tasks, taskOpen, outcomes, job>>

Capture(w) ==
    /\ pc[w] = "capturing"
    /\ pc' = [pc EXCEPT ![w] = "reporting"]
    /\ UNCHANGED <<mainVars, tasks, taskOpen, outcomes, lock, job>>

\* send blocks while the outcome channel holds `concurrency` outcomes.  The
\* receiver outlives the scope, so send never fails.
Report(w) ==
    /\ pc[w] = "reporting"
    /\ Len(outcomes) < Concurrency
    /\ outcomes' = Append(outcomes, job[w])
    /\ job' = [job EXCEPT ![w] = NoTask]
    /\ pc' = [pc EXCEPT ![w] = "locking"]
    /\ UNCHANGED <<mainVars, tasks, taskOpen, lock>>

Worker(w) == Lock(w) \/ TakeTask(w) \/ Exit(w) \/ Capture(w) \/ Report(w)

-----------------------------------------------------------------------------
\* capture_concurrently has returned.
Terminated == main = "returned" /\ UNCHANGED vars

Next == Main \/ (\E w \in Workers : Worker(w)) \/ Terminated

Spec == Init /\ [][Next]_vars

\* Every thread keeps running, and every capture ends (the HTTP client bounds
\* each exchange by its timeouts).  Nothing is assumed of the mutex beyond
\* this: a worker may lose the race for it forever while others take it.
FairSpec ==
    /\ Spec
    /\ WF_vars(Main)
    /\ \A w \in Workers : WF_vars(Worker(w))

-----------------------------------------------------------------------------
(* Properties.                                                             *)

Busy == {w \in Workers : pc[w] \in {"capturing", "reporting"}}

\* Captures that hold memory: on their way to a worker, in its hands, on their
\* way back, or received and not yet recordable.
Outstanding ==
    Len(tasks) + Cardinality(Busy) + Len(outcomes) + Cardinality(pending)

\* "At most twice `concurrency` captures are in flight or waiting to be
\* recorded at once" (pool.rs), however long the first of them takes.
WindowBounded == Outstanding <= Limit

\* The outcome channel always has room for every worker that still has an
\* outcome to report, so no worker ever blocks in send, not even after a
\* failed record stops the main thread from recording.
ReportNeverBlocks == Len(outcomes) + Cardinality(Busy) <= Concurrency

\* The archive holds the captures of the first URLs in input order, whatever
\* order the workers finished them in, with no gap and no repetition.
ArchiveInInputOrder ==
    /\ Len(archive) = nextToRecord
    /\ \A i \in 1 .. Len(archive) : archive[i] = i - 1

\* Nothing that was dispatched is lost: when the run ends without a failed
\* record, cancelled or not, every dispatched capture is in the archive; and
\* if the sink did not cancel, that is the whole input.
NothingLost ==
    main \in {"joining", "returned"} /\ result = "ok" =>
        /\ Len(archive) = dispatched
        /\ cancelled \/ dispatched = NumUrls

\* A worker is left without a URL while the input lasts only because the
\* bound on unrecorded captures is reached.
NoNeedlessIdling ==
    /\ main = "waiting"
    /\ result = "ok"
    /\ ~cancelled
    /\ idle > 0
    /\ consumed < NumUrls
    => dispatched - nextToRecord = Limit

\* No worker waits to report, and none waits for a URL that could be had.
\* (pool.rs, Dispatcher::fill and the bounded channel)
NoWorkerHeldUp == ReportNeverBlocks /\ NoNeedlessIdling

\* No URL is dispatched once the sink has cancelled or a record has failed,
\* and after a failed record nothing else enters the archive.
StopsStarting ==
    [][ /\ cancelled \/ result = "error" => dispatched' = dispatched
        /\ result = "error" => archive' = archive ]_vars

\* Whatever the captures, the sink and the disk do, the pool returns with all
\* its workers gone.
Termination == <>(main = "returned")

\* The pool implements OrderedArchive with a window of twice its concurrency.
Status ==
    IF result = "error" THEN "error"
    ELSE IF main # "returned" THEN "running"
    ELSE IF cancelled THEN "cancelled" ELSE "complete"

Abstract == INSTANCE OrderedArchive
    WITH Window <- Limit, accepted <- dispatched, archived <- nextToRecord,
         stopping <- cancelled, status <- Status

ImplementsOrderedArchive == Abstract!Spec

-----------------------------------------------------------------------------
(* The inductive invariant behind the safety properties (CapturePoolProofs *)
(* proves it).                                                            *)

InHand == {job[w] : w \in Busy}
InFlight == ToSet(tasks) \cup InHand \cup ToSet(outcomes)

\* What the dispatcher believes to be busy is what is on its way.
Accounting ==
    /\ completed <= dispatched
    /\ idle = Concurrency - (dispatched - completed)
    /\ Len(tasks) + Cardinality(Busy) + Len(outcomes) = dispatched - completed

\* A worker has a task in hand exactly while it is busy.
HandsMatch == \A w \in Workers : w \in Busy <=> job[w] # NoTask

\* Received and unrecorded captures fit between the archive and the last one
\* dispatched, which is never more than Limit ahead of the archive.
Window ==
    /\ nextToRecord <= completed
    /\ Cardinality(pending) <= completed - nextToRecord
    /\ dispatched - nextToRecord <= Limit

\* The URL of a task is the one at its index: only a refused URL, after which
\* nothing is dispatched, is taken from the input without getting an index.
IndexNamesUrl == dispatched = consumed \/ (cancelled /\ dispatched < consumed)

\* Every dispatched index is in the archive, waiting to be recorded, or in
\* flight, until a record fails.
Covered ==
    /\ InFlight \cup pending \subseteq 0 .. (dispatched - 1)
    /\ result = "ok" =>
          0 .. (dispatched - 1) \subseteq
             (0 .. (nextToRecord - 1)) \cup pending \cup InFlight

\* What the main thread's position says of the pool.
MainInv ==
    /\ main \in {"filling", "recording"} => result = "ok"
    /\ main \in {"filling", "waiting"} /\ result = "ok" =>
          nextToRecord \notin pending
    /\ main = "waiting" /\ result = "ok" => ~MayFill \/ consumed = NumUrls

IInv ==
    /\ TypeOK
    /\ Accounting
    /\ HandsMatch
    /\ Window
    /\ IndexNamesUrl
    /\ Covered
    /\ MainInv
    /\ ArchiveInInputOrder
    /\ NothingLost

=============================================================================
