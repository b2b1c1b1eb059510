------------------------------- MODULE Agenda -------------------------------
(***************************************************************************)
(* What a depth-first crawl promises: an agenda of requests of which the   *)
(* first is always dealt with next, its place then taken by the links      *)
(* found in dealing with it.  With dedupe, no link enters the agenda that  *)
(* was ever on it.                                                         *)
(***************************************************************************)
EXTENDS SequencesExt

CONSTANTS Urls, Plans, MaxLinks

VARIABLES
    agenda,     \* the requests still to make
    known,      \* the URLs that were ever on the agenda
    dedupe      \* whether a link is looked up there

vars == <<agenda, known, dedupe>>

Links(urls) == [i \in 1 .. Len(urls) |-> [url |-> urls[i], idempotent |-> TRUE]]

New(urls) ==
    dedupe => IsInjective(urls) /\ ToSet(urls) \cap known = {}

Init ==
    /\ \E plan \in Plans : agenda = plan.seeds /\ dedupe = plan.dedupe
    /\ known = {r.url : r \in ToSet(agenda)}

Resolve ==
    /\ agenda # <<>>
    /\ \E urls \in BoundedSeq(Urls, MaxLinks) :
          /\ New(urls)
          /\ agenda' = Links(urls) \o Tail(agenda)
          /\ known' = known \cup ToSet(urls)
    /\ UNCHANGED dedupe

Spec == Init /\ [][Resolve]_vars

=============================================================================
