------------------------------ MODULE OneShot ------------------------------
(***************************************************************************)
(* A one-shot archive run (archive_collection in client/mod.rs): with a    *)
(* concurrency of one it is the loop of SequentialCapture, with more the   *)
(* pool of CapturePool.  The one that is not chosen never moves.           *)
(***************************************************************************)
EXTENDS CapturePool

VARIABLES
    sequential, \* the configured concurrency is one
    loop,       \* pc, started, recorded, cancelled and result of the loop
    started,
    recorded,
    loopCancelled,
    loopResult

loopVars == <<loop, started, recorded, loopCancelled, loopResult>>
runVars == <<sequential, loopVars, vars>>

Sequential == INSTANCE SequentialCapture
    WITH pc <- loop, cancelled <- loopCancelled, result <- loopResult

RunInit ==
    /\ sequential \in BOOLEAN
    /\ Sequential!Init
    /\ Init

\* A step of the loop, which this thread takes alone.
LoopStep == sequential /\ Sequential!Loop /\ UNCHANGED <<sequential, vars>>

\* A step of the pool, of its main thread or of a worker.
PoolMain == ~sequential /\ Main /\ UNCHANGED <<sequential, loopVars>>
PoolWorker(w) == ~sequential /\ Worker(w) /\ UNCHANGED <<sequential, loopVars>>

\* archive_collection has returned.
Returned == IF sequential THEN loop = "returned" ELSE main = "returned"

RunNext ==
    \/ LoopStep
    \/ PoolMain
    \/ \E w \in Workers : PoolWorker(w)
    \/ Returned /\ UNCHANGED runVars

\* Every thread keeps running, and every capture ends (see CapturePool).
RunSpec ==
    /\ RunInit
    /\ [][RunNext]_runVars
    /\ WF_runVars(LoopStep)
    /\ WF_runVars(PoolMain)
    /\ \A w \in Workers : WF_runVars(PoolWorker(w))

-----------------------------------------------------------------------------
(* Properties.                                                             *)

\* With a concurrency of one, a URL is announced only after the capture before
\* it is archived, and whichever callback cancels ends the run: the loop
\* promises what the pool promises, with a window of one.
SequentialImplementsOrderedArchive == Sequential!ImplementsOrderedArchive

\* Whatever the captures, the sink and the disk do, the run returns, with all
\* the workers of a pool gone.
Ends == <>Returned

=============================================================================
