------------------------------ MODULE Session -------------------------------
(***************************************************************************)
(* The request loop of a crawl session (session/run.rs) over the           *)
(* depth-first driver: limits, retries, cancellation by the progress sink, *)
(* inspection, recording, acknowledgment and publication.                  *)
(*                                                                         *)
(* An exchange is represented by the number of the request it belongs to   *)
(* and of the attempt that made it.  What the network, the processor, the  *)
(* sink and the disk do is chosen freely at each step.                     *)
(***************************************************************************)
EXTENDS Crawl

CONSTANTS
    Plans,          \* what a session may start from: its seeds, dedupe_discoveries
                    \* and the most captures to make, if it has a limit
    Attempts,       \* retry.attempts
    NoLimit,        \* stands for no limit
    MaxLinks,       \* bound: links a page may hold
    MaxHops,        \* bound: exchanges an attempt may make
    MaxGiven        \* bound: requests given or discovered, without dedupe

ASSUME SessionAssumption ==
    /\ Plans \subseteq [seeds : Seq(Requests), dedupe : BOOLEAN, limit : Nat \cup {NoLimit}]
    /\ NoRequest \notin Requests
    /\ Attempts \in Nat
    /\ NoLimit \notin Nat
    /\ MaxLinks \in Nat /\ MaxHops \in Nat \ {0} /\ MaxGiven \in Nat

VARIABLES
    plan,           \* what the session started from
    phase,          \* what the session is doing
    crawl,          \* the driver's state
    asked,          \* requests the driver has handed out, in order
    attempt,        \* the current attempt at the last of them
    earlier,        \* exchanges made by the attempts before it
    fetched,        \* what the last attempt came to: exchanges and verdict
    cancelWrite,    \* cancel_after_write
    stopWrite,      \* stop_after_write
    captureCount,   \* captures the driver did not reject
    made,           \* every exchange made, in order
    archived,       \* every exchange in the archive, in order
    acked,          \* what Driver::recorded was called with: one verdict per call
    outcome,        \* "none", then how the crawl ended
    returned        \* "none", then what run returned: "summary" or "error"

sessionVars == <<plan, phase, crawl, asked, attempt, earlier, fetched, cancelWrite,
                 stopWrite, captureCount, made, archived, acked, outcome, returned>>

requestVars == <<earlier, fetched, cancelWrite, stopWrite>>

Exchange(n, hops, try) == [i \in 1 .. hops |-> <<n, try>>]

Request == Last(asked)

AttemptsAllowed ==
    IF ~Request.idempotent THEN 1 ELSE IF Attempts > 1 THEN Attempts ELSE 1
LastAttempt == attempt = AttemptsAllowed

NoFetch == [exchanges |-> <<>>, verdict |-> "failed"]

SessionInit ==
    /\ phase = "loop"
    /\ plan \in Plans
    /\ crawl = NewCrawl(plan.seeds, plan.dedupe)
    /\ asked = <<>>
    /\ attempt = 0
    /\ earlier = <<>>
    /\ fetched = NoFetch
    /\ cancelWrite = FALSE
    /\ stopWrite = FALSE
    /\ captureCount = 0
    /\ made = <<>>
    /\ archived = <<>>
    /\ acked = <<>>
    /\ outcome = "none"
    /\ returned = "none"

-----------------------------------------------------------------------------
(* The loop asks for a request.                                            *)

CaptureLimit == plan.limit
LimitReached == CaptureLimit # NoLimit /\ captureCount >= CaptureLimit

EndCrawl(how) ==
    /\ outcome' = how
    /\ phase' = "finishing"

\* The limit is reached, before the driver is asked.
StopAtLimit ==
    /\ phase = "loop"
    /\ LimitReached
    /\ EndCrawl("complete")
    /\ UNCHANGED <<crawl, asked, attempt, requestVars, captureCount, made,
                   archived, acked, returned>>

\* The driver has nothing left to request.
Exhausted ==
    /\ phase = "loop"
    /\ ~LimitReached
    /\ ~HasNext(crawl)
    /\ crawl' = NextRequest(crawl)
    /\ EndCrawl("complete")
    /\ UNCHANGED <<asked, attempt, requestVars, captureCount, made, archived,
                   acked, returned>>

\* The driver hands out a request, and the sink may cancel before it is made.
Ask ==
    /\ phase = "loop"
    /\ ~LimitReached
    /\ HasNext(crawl)
    /\ crawl' = NextRequest(crawl)
    /\ asked' = Append(asked, crawl'.current)
    /\ \/ EndCrawl("cancelled") /\ UNCHANGED <<attempt, requestVars>>
       \/ /\ phase' = "fetching"
          /\ attempt' = 1
          /\ earlier' = <<>>
          /\ fetched' = NoFetch
          /\ cancelWrite' = FALSE
          /\ stopWrite' = FALSE
          /\ UNCHANGED outcome
    /\ UNCHANGED <<captureCount, made, archived, acked, returned>>

-----------------------------------------------------------------------------
(* capture_with_retry.                                                     *)

\* The attempt is retried if it may be, and is else what the request came to.
FetchComesTo(kind, hops) ==
    LET exchanges == Exchange(Len(asked), hops, attempt)
        retried == ~LastAttempt /\ kind \in {"status", "cut", "transient"}
        verdict == IF kind = "sound" THEN "captured"
                   ELSE IF kind = "cut" THEN "partial" ELSE "failed"
    IN
    /\ made' = made \o exchanges
    /\ IF retried
       THEN /\ earlier' = earlier \o exchanges
            /\ phase' = "backoff"
            /\ UNCHANGED fetched
       ELSE /\ fetched' = [exchanges |-> earlier \o exchanges, verdict |-> verdict]
            /\ phase' = "fetched"
            /\ UNCHANGED earlier

\* One attempt makes some exchanges and comes to one of: a sound response, a
\* retryable status, a response cut short, a transient failure, or a failure
\* that is not transient (after however many exchanges).
Fetch ==
    /\ phase = "fetching"
    /\ \E kind \in {"sound", "status", "cut", "transient", "fatal"},
          hops \in 0 .. MaxHops :
          /\ kind \in {"sound", "status", "cut"} => hops > 0
          /\ FetchComesTo(kind, hops)
    /\ UNCHANGED <<crawl, asked, attempt, cancelWrite, stopWrite, captureCount,
                   archived, acked, outcome, returned>>

\* The sink may cancel when it hears of the retry, or when the next attempt
\* is announced after the delay.
Backoff ==
    /\ phase = "backoff"
    /\ \/ phase' = "abandoning" /\ UNCHANGED attempt
       \/ phase' = "fetching" /\ attempt' = attempt + 1
    /\ UNCHANGED <<crawl, asked, requestVars, captureCount, made, archived,
                   acked, outcome, returned>>

\* Faulty: a cancelled request leaves nothing in the archive.
RecordAbandonedDropping ==
    /\ phase = "abandoning"
    /\ EndCrawl("cancelled")
    /\ UNCHANGED <<crawl, asked, attempt, requestVars, captureCount, made,
                   archived, acked, returned>>

\* The exchanges of a cancelled request's attempts are recorded, unless one of
\* them cannot be; some before it may have been.
RecordAbandoned ==
    /\ phase = "abandoning"
    /\ \/ archived' = archived \o earlier /\ EndCrawl("cancelled")
       \/ /\ \E n \in 0 .. Len(earlier) :
                archived' = archived \o SubSeq(earlier, 1, n)
          /\ EndCrawl("fatal")
    /\ UNCHANGED <<crawl, asked, attempt, requestVars, captureCount, made,
                   acked, returned>>

-----------------------------------------------------------------------------
(* The outcome is shown to the sink and the driver, recorded, acknowledged. *)

CanDiscover(links) ==
    crawl.dedupe \/ Len(asked) + Len(crawl.stack) + Len(links) <= MaxGiven

\* Faulty: a capture the driver rejects is still recorded as one.
InspectKeepingVerdict ==
    /\ phase = "fetched"
    /\ fetched.verdict # "failed"
    /\ \E links \in BoundedSeq(Urls, MaxLinks), error \in BOOLEAN :
          /\ CanDiscover(links)
          /\ crawl' = Inspected(crawl, links, error)
          /\ stopWrite' = error
          /\ captureCount' = captureCount + (IF error THEN 0 ELSE 1)
    /\ cancelWrite' \in BOOLEAN
    /\ phase' = "recording"
    /\ UNCHANGED <<asked, attempt, earlier, fetched, made, archived, acked,
                   outcome, returned>>

InspectComesTo(links, error) ==
    /\ crawl' = Inspected(crawl, links, error)
    /\ stopWrite' = error
    /\ IF error
       THEN fetched' = [fetched EXCEPT !.verdict = "failed"]
            /\ UNCHANGED captureCount
       ELSE captureCount' = captureCount + 1 /\ UNCHANGED fetched

\* A capture is inspected, and counted unless the driver reports an error: the
\* capture is then recorded as a failure and the crawl stops.
Inspect ==
    /\ phase = "fetched"
    /\ fetched.verdict # "failed"
    /\ \E links \in BoundedSeq(Urls, MaxLinks), error \in BOOLEAN :
          /\ CanDiscover(links)
          /\ InspectComesTo(links, error)
    /\ cancelWrite' \in BOOLEAN
    /\ phase' = "recording"
    /\ UNCHANGED <<asked, attempt, earlier, made, archived, acked, outcome, returned>>

\* A failure is reported to the driver, and the crawl goes on.
ReportFailure ==
    /\ phase = "fetched"
    /\ fetched.verdict = "failed"
    /\ crawl' = Failed(crawl)
    /\ cancelWrite' \in BOOLEAN
    /\ phase' = "recording"
    /\ UNCHANGED <<asked, attempt, earlier, fetched, stopWrite, captureCount,
                   made, archived, acked, outcome, returned>>

\* Every exchange is recorded and the driver told so, or one of them cannot be.
RecordOutcome ==
    /\ phase = "recording"
    /\ \/ /\ archived' = archived \o fetched.exchanges
          /\ acked' = Append(acked, fetched.verdict)
          /\ phase' = "written"
          /\ UNCHANGED outcome
       \/ /\ \E n \in 0 .. Len(fetched.exchanges) :
                archived' = archived \o SubSeq(fetched.exchanges, 1, n)
          /\ EndCrawl("fatal")
          /\ UNCHANGED acked
    /\ UNCHANGED <<crawl, asked, attempt, requestVars, captureCount, made, returned>>

\* A cancellation from the capture's notification comes before the written
\* event, one from the written event before a stop the driver asked for.
OutcomeWritten ==
    /\ phase = "written"
    /\ \/ EndCrawl("cancelled")
       \/ /\ ~cancelWrite
          /\ IF stopWrite THEN EndCrawl("complete")
                          ELSE phase' = "loop" /\ UNCHANGED outcome
    /\ UNCHANGED <<crawl, asked, attempt, requestVars, captureCount, made,
                   archived, acked, returned>>

\* Whatever ended the crawl, the archive is finished and published, or that
\* fails and its error is what run returns.
FinishSession ==
    /\ phase = "finishing"
    /\ phase' = "done"
    /\ returned' \in {"summary", "error"}
    /\ UNCHANGED <<crawl, asked, attempt, requestVars, captureCount, made,
                   archived, acked, outcome>>

Run ==
    /\ \/ StopAtLimit \/ Exhausted \/ Ask
       \/ Fetch \/ Backoff \/ RecordAbandoned
       \/ Inspect \/ ReportFailure \/ RecordOutcome \/ OutcomeWritten \/ FinishSession
    /\ UNCHANGED plan

\* run has returned.
SessionTerminated == phase = "done" /\ UNCHANGED sessionVars

SessionNext == Run \/ SessionTerminated

SessionSpec == SessionInit /\ [][SessionNext]_sessionVars

\* The loop runs on one thread and each capture ends (its exchanges and delays
\* are bounded in time).
FairSessionSpec == SessionSpec /\ WF_sessionVars(Run)

-----------------------------------------------------------------------------
Phases == {"loop", "fetching", "backoff", "abandoning", "fetched", "recording",
           "written", "finishing", "done"}
ExchangeIds == Nat \X Nat
Verdicts == {"captured", "partial", "failed"}

SessionTypeOK ==
    /\ plan \in Plans
    /\ phase \in Phases
    /\ crawl \in [stack : Seq(Requests), current : Requests \cup {NoRequest},
                  seen : SUBSET Urls, dedupe : BOOLEAN]
    /\ asked \in Seq(Requests)
    /\ attempt \in Nat
    /\ earlier \in Seq(ExchangeIds)
    /\ fetched \in [exchanges : Seq(ExchangeIds), verdict : Verdicts]
    /\ cancelWrite \in BOOLEAN /\ stopWrite \in BOOLEAN
    /\ captureCount \in Nat
    /\ made \in Seq(ExchangeIds) /\ archived \in Seq(ExchangeIds)
    /\ acked \in Seq(Verdicts)
    /\ outcome \in {"none", "complete", "cancelled", "fatal"}
    /\ returned \in {"none", "summary", "error"}

-----------------------------------------------------------------------------
(* Properties.                                                             *)

\* The request the session gave up on because a record failed, if any.
LostToFailure ==
    IF outcome = "fatal" /\ crawl.current = NoRequest THEN <<Request>> ELSE <<>>

\* The driver can resume: whenever the session is between requests or has
\* ended, every request it handed out has been acknowledged, in order, except
\* one that was cancelled, which unrequested still lists first, and one whose
\* own record failed.
ResumePoint == phase \in {"loop", "finishing", "done"}

NothingForgotten ==
    ResumePoint =>
        Len(asked) = Len(acked) + Len(LostToFailure)
                     + (IF crawl.current = NoRequest THEN 0 ELSE 1)

\* Every exchange made on the network is in the archive when its request has
\* been dealt with: those of attempts that were retried and of requests that
\* were cancelled included, in the order they were made.  Only a failed record
\* leaves some of them out, and then the last ones.
ExchangesArchived ==
    /\ IsPrefix(archived, made)
    /\ ResumePoint /\ outcome # "fatal" => archived = made

\* A request is attempted no more often than configured, the first attempt
\* counted, and only once if the server may have acted on it.
RetriesBounded ==
    \A i \in 1 .. Len(made) :
        \/ made[i][2] <= 1
        \/ asked[made[i][1]].idempotent /\ made[i][2] <= Attempts

\* Every exchange of every attempt is kept, and no attempt is made that must not
\* be.  (run.rs capture_with_retry, Collection::record and record_abandoned)
AttemptsAccounted == ExchangesArchived /\ RetriesBounded

Captures == {i \in 1 .. Len(acked) : acked[i] # "failed"}

\* A crawl stops at its limit, counting only the captures the driver accepted,
\* and not before it unless something else ended it.
LimitExact ==
    /\ CaptureLimit # NoLimit => Cardinality(Captures) <= CaptureLimit
    /\ phase = "done" /\ outcome = "complete" /\ ~stopWrite =>
          \/ Unrequested(crawl) = <<>>
          \/ CaptureLimit # NoLimit /\ Cardinality(Captures) = CaptureLimit

\* SessionSummary::is_complete, of a session that returned one.
IsComplete ==
    /\ outcome = "complete"
    /\ \A i \in 1 .. Len(acked) : acked[i] = "captured"

\* A summary that says the crawl is complete accounts for every request: each
\* one ever given or discovered was captured whole, or awaits the next session
\* behind the limit.
CompleteMeansComplete ==
    phase = "done" /\ IsComplete =>
        /\ Len(acked) = Len(asked)
        /\ crawl.seen = UrlsOf(asked) \cup UrlsOf(Unrequested(crawl))
        /\ Unrequested(crawl) # <<>> => LimitReached

\* What a session says of itself is so: where its limit stopped it, and whether
\* anything is left.  (run.rs, Session::run; mod.rs, SessionSummary::is_complete)
SummaryHonest == LimitExact /\ CompleteMeansComplete

-----------------------------------------------------------------------------
(* The inductive invariant.                                                *)

\* The phases in which a request handed out is being made.
Requesting == phase \in {"fetching", "backoff", "abandoning", "fetched"}

\* The request being made is the current one, and it alone is unacknowledged.
Accounted ==
    /\ phase \in {"finishing", "done"} <=> outcome # "none"
    /\ Requesting => crawl.current = Request
    /\ phase \in {"loop", "recording", "written"} \/ outcome = "complete" =>
          crawl.current = NoRequest
    /\ Requesting \/ phase = "recording" => Len(asked) = Len(acked) + 1
    /\ phase = "written" => Len(asked) = Len(acked)
    /\ NothingForgotten

\* The exchanges made that are still to be recorded.
Unrecorded ==
    IF phase \in {"fetching", "backoff", "abandoning"} THEN earlier
    ELSE IF phase \in {"fetched", "recording"} THEN fetched.exchanges
    ELSE <<>>

ArchiveBehind ==
    /\ outcome # "fatal" => made = archived \o Unrecorded
    /\ outcome = "fatal" => IsPrefix(archived, made)

\* An exchange belongs to a request that was asked for and to an attempt at it
\* that is allowed.
AttemptsAllowedSoFar ==
    /\ \A i \in 1 .. Len(made) : made[i][1] \in 1 .. Len(asked)
    /\ RetriesBounded
    /\ phase = "fetching" => attempt \in 1 .. AttemptsAllowed
    /\ phase = "backoff" => attempt \in 1 .. AttemptsAllowed - 1

\* A capture is counted before it is acknowledged, and a request made only below
\* the limit.
Counted ==
    /\ Cardinality(Captures) <= captureCount
    /\ outcome # "fatal" =>
          captureCount = Cardinality(Captures)
              + (IF phase = "recording" /\ fetched.verdict # "failed" THEN 1 ELSE 0)
    /\ CaptureLimit # NoLimit => captureCount <= CaptureLimit
    /\ CaptureLimit # NoLimit /\ Requesting => captureCount < CaptureLimit

\* The driver's rejection of a capture is among the verdicts when it stops the crawl.
Rejected == stopWrite /\ acked # <<>> /\ Last(acked) = "failed"

\* A URL is known because it was asked for or is on the stack, and a crawl is
\* complete for one of three reasons.
Completed ==
    /\ crawl.seen = UrlsOf(asked) \cup UrlsOf(crawl.stack)
    /\ phase = "loop" \/ Requesting => ~stopWrite
    /\ phase = "recording" /\ stopWrite => fetched.verdict = "failed"
    /\ phase = "written" /\ stopWrite => Rejected
    /\ outcome = "complete" => LimitReached \/ crawl.stack = <<>> \/ Rejected

SessionInv ==
    /\ SessionTypeOK
    /\ Accounted
    /\ ArchiveBehind
    /\ AttemptsAllowedSoFar
    /\ Counted
    /\ Completed

-----------------------------------------------------------------------------
\* The crawl implements the depth-first Agenda.
DepthFirst == INSTANCE Agenda
    WITH agenda <- Unrequested(crawl), known <- crawl.seen, dedupe <- crawl.dedupe

ImplementsAgenda == DepthFirst!Spec

\* How many of these requests are for this URL.
Times(url, requests) == Cardinality({i \in DOMAIN requests : requests[i].url = url})

\* No URL is requested, or waits to be, more than once, or more often than it was given.
NoneRepeated ==
    \A url \in Urls : \/ Times(url, asked \o crawl.stack) <= 1
                      \/ Times(url, asked \o crawl.stack) <= Times(url, plan.seeds)

\* With discoveries deduplicated, pages that link to each other are each requested
\* once, by whichever of them they were discovered and although none of them has been
\* requested when the others' links are looked at; and so a crawl of finitely many URLs
\* ends, without a limit too.  (crawl.rs, Driver::inspect)
CrawlEnds ==
    /\ [](plan.dedupe => NoneRepeated)
    /\ plan.dedupe => <>(phase = "done")

=============================================================================
