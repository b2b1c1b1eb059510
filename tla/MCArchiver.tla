----------------------------- MODULE MCArchiver -----------------------------
(***************************************************************************)
(* What the archiver runs, for TLC: a one-shot run over a list of URLs, or *)
(* the request loop of a crawl session.                                    *)
(***************************************************************************)
EXTENDS OneShot, Session

VARIABLE subject    \* which of the two a behaviour is of

mcVars == <<subject, runVars, sessionVars>>

CONSTANTS a, b, c

Get(url) == [url |-> url, idempotent |-> TRUE]
Post(url) == [url |-> url, idempotent |-> FALSE]

Undeduplicated == [seeds |-> <<Post(a), Get(a)>>, dedupe |-> FALSE, limit |-> 2]

\* A seed whose pages link to each other as they please, with no limit, so that only
\* remembering what was discovered ends the crawl; a seed to fetch and one to post to
\* under a limit, with a third URL to discover; and one URL posted to and then fetched,
\* with discoveries that are not deduplicated.
ThreePlans ==
    {[seeds |-> <<Get(a)>>, dedupe |-> TRUE, limit |-> NoLimit],
     [seeds |-> <<Get(a), Post(b)>>, dedupe |-> TRUE, limit |-> 2],
     Undeduplicated}
-----------------------------------------------------------------------------
\* The one that is not run is in an initial state of its own, and stays there.
MCInit ==
    \/ subject = "one shot" /\ RunInit /\ SessionInit /\ plan = Undeduplicated
    \/ subject = "session" /\ RunInit /\ sequential /\ SessionInit

OneShotStep(A) == subject = "one shot" /\ A /\ UNCHANGED <<subject, sessionVars>>
SessionStep == subject = "session" /\ Run /\ UNCHANGED <<subject, runVars>>

MCNext ==
    \/ OneShotStep(RunNext)
    \/ SessionStep
    \/ subject = "session" /\ SessionTerminated /\ UNCHANGED mcVars

\* The fairness of RunSpec and of FairSessionSpec: the loop, the pool's main thread
\* and the session are each the caller's thread, of different behaviours.
CallerStep == OneShotStep(LoopStep \/ PoolMain) \/ SessionStep

MCSpec ==
    /\ MCInit
    /\ [][MCNext]_mcVars
    /\ WF_mcVars(CallerStep)
    /\ \A w \in Workers : WF_mcVars(OneShotStep(PoolWorker(w)))

-----------------------------------------------------------------------------
\* Whatever the captures, the sink and the disk do, a one-shot run returns, with
\* all the workers of a pool gone.  (archive_collection, capture_concurrently)
OneShotEnds == subject = "one shot" => Ends

=============================================================================
