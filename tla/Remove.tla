------------------------------- MODULE Remove -------------------------------
(***************************************************************************)
(* Removing the captures of revisits of their own target URI from a WARC   *)
(* file (warc-ops remove.rs).  The file is read twice: the first pass      *)
(* collects responses, revisits and the WARC-Concurrent-To links between   *)
(* identifiers, the links are walked from each matching revisit, and the   *)
(* second pass leaves out the records reached.                             *)
(*                                                                         *)
(* Identifiers are what normalize_id makes of them and target URIs are     *)
(* trimmed.  The stack of the walk is a set: the order in which it is      *)
(* popped is left open.                                                    *)
(***************************************************************************)
EXTENDS Naturals, Sequences

CONSTANTS Ids, Uris, None, Inputs

ASSUME NoneAssumption == None \notin Ids \cup Uris

Records ==
    [type : {"response", "revisit", "other"}, id : Ids \cup {None}, uri : Uris \cup {None},
     refers : Ids \cup {None}, links : SUBSET Ids]

ASSUME InputAssumption == \A in \in Inputs : in \in Seq(Records)

VARIABLES
    phase,      \* "collect", "walk", "write", "done" or "failed"
    input,      \* the records of the file
    at,         \* how many of them the pass has read
    responses,  \* the target URI of the response of each identifier
    revisits,   \* what each revisit record refers to
    links,      \* the pairs of identifiers that are linked
    pending,    \* identifiers still to walk from
    removed,    \* identifiers walked from
    out         \* the places of the records written

vars == <<phase, input, at, responses, revisits, links, pending, removed, out>>

Init ==
    /\ phase = "collect"
    /\ input \in Inputs
    /\ at = 0
    /\ responses = [id \in Ids |-> None]
    /\ revisits = {}
    /\ links = {}
    /\ pending = {}
    /\ removed = {}
    /\ out = <<>>

\* Faulty: a link is followed only from the record that states it.
LinkedForward(r) == IF r.id = None THEN {} ELSE {<<r.id, k>> : k \in r.links}

\* A record links its identifier and those it is concurrent to, in both directions.
Linked(r) ==
    IF r.id = None THEN {} ELSE {<<r.id, k>> : k \in r.links} \cup {<<k, r.id>> : k \in r.links}

IsOriginal(r) == r.type = "response" /\ r.id # None /\ r.uri # None

IsCandidate(r) == r.type = "revisit" /\ r.id # None /\ r.uri # None /\ r.refers # None

\* The first of several responses sharing an identifier is the one that counts.
Collect ==
    /\ phase = "collect"
    /\ at < Len(input)
    /\ LET r == input[at + 1]
       IN  /\ links' = links \cup Linked(r)
           /\ revisits' = IF IsCandidate(r) THEN revisits \cup {r} ELSE revisits
           /\ responses' = IF IsOriginal(r) /\ responses[r.id] = None
                           THEN [responses EXCEPT ![r.id] = r.uri]
                           ELSE responses
    /\ at' = at + 1
    /\ UNCHANGED <<phase, input, pending, removed, out>>

\* The walk starts from the revisit.
Start(r) == r.id

StartWalk ==
    /\ phase = "collect"
    /\ at = Len(input)
    /\ phase' = "walk"
    /\ pending' = {Start(r) : r \in {q \in revisits : responses[q.refers] = q.uri}}
    /\ UNCHANGED <<input, at, responses, revisits, links, removed, out>>

Neighbours(id) == {k \in Ids : <<id, k>> \in links}

\* Faulty: an identifier is walked from again whenever it is reached.
ExtendedAlways(id) == Neighbours(id)

\* What walking from an identifier adds: nothing the second time.
Extended(id) == IF id \in removed THEN {} ELSE Neighbours(id)

Walk ==
    /\ phase = "walk"
    /\ \E id \in pending :
          /\ removed' = removed \cup {id}
          /\ pending' = (pending \ {id}) \cup Extended(id)
    /\ UNCHANGED <<phase, input, at, responses, revisits, links, out>>

StartWrite ==
    /\ phase = "walk"
    /\ pending = {}
    /\ phase' = "write"
    /\ at' = 0
    /\ UNCHANGED <<input, responses, revisits, links, pending, removed, out>>

IsRemoved(r) == r.id \in removed \/ r.links \cap removed # {}

Write ==
    /\ phase = "write"
    /\ at < Len(input)
    /\ out' = IF IsRemoved(input[at + 1]) THEN out ELSE Append(out, at + 1)
    /\ at' = at + 1
    /\ UNCHANGED <<phase, input, responses, revisits, links, pending, removed>>

Finish ==
    /\ phase = "write"
    /\ at = Len(input)
    /\ phase' = "done"
    /\ UNCHANGED <<input, at, responses, revisits, links, pending, removed, out>>

\* The file cannot be opened or read, or the output cannot be written.
Fail ==
    /\ phase \in {"collect", "write"}
    /\ phase' = "failed"
    /\ UNCHANGED <<input, at, responses, revisits, links, pending, removed, out>>

Next == Collect \/ StartWalk \/ Walk \/ StartWrite \/ Write \/ Finish \/ Fail

Spec == Init /\ [][Next]_vars

\* One thread runs the operation to its end.
LiveSpec == Spec /\ WF_vars(Next)

-----------------------------------------------------------------------------
(* What is to be removed, said of the file alone.                          *)

Original(r) ==
    LET same == {n \in DOMAIN input : IsOriginal(input[n]) /\ input[n].id = r.refers}
    IN  \E n \in same : /\ \A k \in same : n <= k
                        /\ input[n].uri = r.uri

SameTarget == {n \in DOMAIN input : IsCandidate(input[n]) /\ Original(input[n])}

\* No link leads out of the set.
Closed(S) ==
    \A n \in DOMAIN input : \A k \in input[n].links :
        input[n].id # None => (input[n].id \in S <=> k \in S)

\* The least closed set that holds the revisits.
InCapture(id) ==
    \A S \in SUBSET Ids :
        {input[n].id : n \in SameTarget} \subseteq S /\ Closed(S) => id \in S

Belongs(r) == (r.id # None /\ InCapture(r.id)) \/ \E k \in r.links : InCapture(k)

TypeOK ==
    /\ phase \in {"collect", "walk", "write", "done", "failed"}
    /\ input \in Seq(Records)
    /\ at \in 0 .. Len(input)
    /\ responses \in [Ids -> Uris \cup {None}]
    /\ revisits \subseteq Records
    /\ links \subseteq Ids \X Ids
    /\ pending \subseteq Ids
    /\ removed \subseteq Ids
    /\ out \in Seq(Nat)

\* remove.rs:31-34: a revisit of its own original's target URI is removed with
\* the records WARC-Concurrent-To links to it, "in either direction and through
\* any number of records", wherever in the file the original and the links
\* stand.  Every other record is written once, in the order read.
RemovesCaptures ==
    phase = "done" =>
        /\ \A n \in DOMAIN input : Belongs(input[n]) <=> ~ \E i \in DOMAIN out : out[i] = n
        /\ \A i, j \in DOMAIN out : i < j => out[i] < out[j]

\* Every record says which capture it is of, and no link joins the captures of
\* two responses or revisits.
CapturesApart ==
    \E capture \in [Ids -> Ids] :
        \A m \in DOMAIN input :
            /\ input[m].id # None
            /\ \A k \in input[m].links : capture[k] = capture[input[m].id]
            /\ \A n \in DOMAIN input :
                  input[m].type # "other" /\ input[n].type # "other" /\ m # n =>
                     capture[input[m].id] # capture[input[n].id]

\* No response is removed, so no revisit that is kept loses its original, when
\* captures are apart.
ResponsesKept ==
    phase = "done" /\ CapturesApart =>
        \A n \in DOMAIN input :
            input[n].type = "response" => \E i \in DOMAIN out : out[i] = n

\* What remove.rs promises of the file it writes: the captures are gone, and with
\* them nothing that others need.
CapturesRemoved == RemovesCaptures /\ ResponsesKept

\* The walk over links in both directions, every one of them a cycle, ends.
Ends == <>(phase \in {"done", "failed"})

-----------------------------------------------------------------------------
(* The inductive invariant.                                                *)

\* What the first pass has collected of the records it has read.
Collected ==
    LET read == IF phase = "collect" THEN 1 .. at ELSE DOMAIN input
    IN  phase # "failed" =>
        /\ links = UNION {Linked(input[n]) : n \in read}
        /\ revisits = {input[n] : n \in {k \in read : IsCandidate(input[k])}}
        /\ \A id \in Ids :
              LET same == {n \in read : IsOriginal(input[n]) /\ input[n].id = id}
              IN  \/ same = {} /\ responses[id] = None
                  \/ \E n \in same : /\ \A k \in same : n <= k
                                     /\ responses[id] = input[n].uri

\* The walk stays within the captures, and leaves no link of a removed
\* identifier out.
Walked ==
    /\ phase = "collect" => pending = {} /\ removed = {}
    /\ phase = "walk" =>
          /\ {input[n].id : n \in SameTarget} \subseteq pending \cup removed
          /\ \A id \in pending \cup removed : InCapture(id)
          /\ \A id \in removed : Neighbours(id) \subseteq pending \cup removed
    /\ phase \in {"write", "done"} => \A id \in Ids : id \in removed <=> InCapture(id)

Written ==
    /\ phase \in {"collect", "walk"} => out = <<>>
    /\ phase = "done" => at = Len(input)
    /\ phase \in {"write", "done"} =>
          /\ \A i \in DOMAIN out : out[i] \in 1 .. at
          /\ \A i, j \in DOMAIN out : i < j => out[i] < out[j]
          /\ \A n \in 1 .. at : Belongs(input[n]) <=> ~ \E i \in DOMAIN out : out[i] = n

IInv ==
    /\ TypeOK
    /\ Collected
    /\ Walked
    /\ Written

=============================================================================
