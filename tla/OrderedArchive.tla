--------------------------- MODULE OrderedArchive ---------------------------
(***************************************************************************)
(* What a one-shot archive run promises, whatever its concurrency: URLs    *)
(* are accepted in input order, their captures enter the archive in that   *)
(* order without gaps, at most Window of them are accepted and not yet     *)
(* archived, and the run ends because everything was archived, because the *)
(* progress sink asked it to stop, or because a record could not be        *)
(* written.  SequentialCapture (concurrency 1) and CapturePool             *)
(* (concurrency above 1) both implement this module.                       *)
(***************************************************************************)
EXTENDS Naturals

CONSTANTS
    NumUrls,    \* the number of URLs the caller's iterator yields
    Window      \* the most captures accepted but not yet archived

VARIABLES
    accepted,   \* URLs announced to the sink and not refused: 0 .. accepted-1
    archived,   \* captures in the archive: exactly those of 0 .. archived-1
    stopping,   \* the progress sink asked the run to stop
    status      \* "running", or how the run ended

vars == <<accepted, archived, stopping, status>>

Init ==
    /\ accepted = 0
    /\ archived = 0
    /\ stopping = FALSE
    /\ status = "running"

\* The next URL is announced and not refused.
Accept ==
    /\ status = "running"
    /\ ~stopping
    /\ accepted < NumUrls
    /\ accepted - archived < Window
    /\ accepted' = accepted + 1
    /\ UNCHANGED <<archived, stopping, status>>

\* The sink cancels, at a callback of its choice.
Stop ==
    /\ status = "running"
    /\ stopping' = TRUE
    /\ UNCHANGED <<accepted, archived, status>>

\* The oldest accepted capture is written; the sink may cancel as it is told.
Archive ==
    /\ status = "running"
    /\ archived < accepted
    /\ archived' = archived + 1
    /\ stopping' \in {stopping, TRUE}
    /\ UNCHANGED <<accepted, status>>

\* The oldest accepted capture cannot be written.
Fail ==
    /\ status = "running"
    /\ archived < accepted
    /\ status' = "error"
    /\ UNCHANGED <<accepted, archived, stopping>>

\* The run ends once every accepted capture is archived: because the sink has
\* cancelled it, at the latest with this step, or because the input has run out.
End ==
    /\ status = "running"
    /\ archived = accepted
    /\ stopping' \in {stopping, TRUE}
    /\ IF stopping'
       THEN status' = "cancelled"
       ELSE accepted = NumUrls /\ status' = "complete"
    /\ UNCHANGED <<accepted, archived>>

Next == Accept \/ Stop \/ Archive \/ Fail \/ End

Spec == Init /\ [][Next]_vars

=============================================================================
