------------------------- MODULE SequentialCapture --------------------------
(***************************************************************************)
(* A one-shot archive run with a concurrency of one (archive_collection in *)
(* client/mod.rs): one URL at a time is announced, captured, reported to   *)
(* the sink and recorded.  Any of the three callbacks may cancel.          *)
(***************************************************************************)
EXTENDS Naturals

CONSTANT NumUrls    \* the number of URLs the caller's iterator yields,
                    \* a natural number (CapturePoolAssumption, of a OneShot run)

VARIABLES
    pc,         \* "next", "capturing", "recording", "written", "returned"
    started,    \* URLs announced and not refused
    recorded,   \* captures recorded
    cancelled,  \* a callback asked to stop
    result      \* "ok", or "error" once a record could not be written

vars == <<pc, started, recorded, cancelled, result>>

TypeOK ==
    /\ pc \in {"next", "capturing", "recording", "written", "returned"}
    /\ started \in 0 .. NumUrls
    /\ recorded \in 0 .. NumUrls
    /\ cancelled \in BOOLEAN
    /\ result \in {"ok", "error"}

Init ==
    /\ pc = "next"
    /\ started = 0
    /\ recorded = 0
    /\ cancelled = FALSE
    /\ result = "ok"

\* The sink is asked about the next URL: refusing it ends the loop.
Start ==
    /\ pc = "next"
    /\ started < NumUrls
    /\ \/ /\ started' = started + 1
          /\ pc' = "capturing"
          /\ UNCHANGED cancelled
       \/ /\ cancelled' = TRUE
          /\ pc' = "returned"
          /\ UNCHANGED started
    /\ UNCHANGED <<recorded, result>>

\* The input has run out.
Finish ==
    /\ pc = "next"
    /\ started = NumUrls
    /\ pc' = "returned"
    /\ UNCHANGED <<started, recorded, cancelled, result>>

\* The capture ends and the sink hears of it.
Capture ==
    /\ pc = "capturing"
    /\ cancelled' \in {cancelled, TRUE}
    /\ pc' = "recording"
    /\ UNCHANGED <<started, recorded, result>>

\* A capture is recorded even when its notification cancelled the run; a
\* failed record ends the run at once.
Record ==
    /\ pc = "recording"
    /\ \/ /\ recorded' = recorded + 1
          /\ pc' = "written"
          /\ UNCHANGED result
       \/ /\ result' = "error"
          /\ pc' = "returned"
          /\ UNCHANGED recorded
    /\ UNCHANGED <<started, cancelled>>

\* Faulty: only a cancellation by the written callback ends the loop.
WrittenForgettingCancel ==
    /\ pc = "written"
    /\ \E cancel \in BOOLEAN :
          /\ cancelled' = (cancelled \/ cancel)
          /\ pc' = IF cancel THEN "returned" ELSE "next"
    /\ UNCHANGED <<started, recorded, result>>

\* The sink hears that the capture was written; the loop ends here if any
\* callback has cancelled.
Written ==
    /\ pc = "written"
    /\ cancelled' \in {cancelled, TRUE}
    /\ pc' = IF cancelled' THEN "returned" ELSE "next"
    /\ UNCHANGED <<started, recorded, result>>

\* archive_collection has returned.
Terminated == pc = "returned" /\ UNCHANGED vars

Loop == Start \/ Finish \/ Capture \/ Record \/ Written

Next == Loop \/ Terminated

Spec == Init /\ [][Next]_vars

-----------------------------------------------------------------------------
(* Properties.                                                             *)

Status ==
    IF result = "error" THEN "error"
    ELSE IF pc # "returned" THEN "running"
    ELSE IF cancelled THEN "cancelled" ELSE "complete"

\* One capture at a time, archived before the next URL is announced, until
\* the input ends, a callback cancels or a record fails.
Abstract == INSTANCE OrderedArchive
    WITH Window <- 1, accepted <- started, archived <- recorded,
         stopping <- cancelled, status <- Status

ImplementsOrderedArchive == Abstract!Spec

\* What the loop's position says of its counters: every URL announced but the one
\* in hand is recorded, and the loop goes on only while nothing has ended it.
LoopInv ==
    /\ TypeOK
    /\ pc \in {"capturing", "recording"} => started = recorded + 1
    /\ pc \in {"next", "written"} => started = recorded
    /\ pc = "returned" /\ result = "ok" => started = recorded
    /\ pc \in {"next", "capturing"} => ~cancelled
    /\ pc # "returned" => result = "ok"

=============================================================================
