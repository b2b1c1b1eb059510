------------------------------ MODULE MCReader ------------------------------
(* Instances of Reader for TLC. *)
EXTENDS Reader, SequencesExt

Chunks == {<<"cr", "lf">>, <<"lf">>, <<"line", "fields", "body">>}

\* Streams of up to three whole blank lines and records, of up to eight octets.
Whole ==
    LET Streams(n) == {FlattenSeq(s) : s \in [1 .. n -> Chunks]}
    IN  {s \in UNION {Streams(n) : n \in 0 .. 3} : Len(s) <= 8}

\* Where a stream stops that is not whole.
Stops ==
    {<<"cr">>, <<"line">>, <<"line", "fields">>, <<"line", "mess">>,
     <<"line", "fields", "slip">>}

Stopped == {s \o t : s \in {w \in Whole : Len(w) <= 5}, t \in Stops}

Streams == Whole \cup Stopped

\* The ways to cut n octets into one to three members, some of which may hold
\* nothing.
Cuts(n) ==
    {<<n>>} \cup {<<i, n>> : i \in 0 .. n}
    \cup UNION {{<<i, j, n>> : j \in i .. n} : i \in 0 .. n}

GzipFiles ==
    UNION {{[gzip |-> TRUE, octets |-> s, ends |-> e, broken |-> b] :
               e \in Cuts(Len(s)), b \in BOOLEAN} : s \in Streams}

PlainFiles ==
    {[gzip |-> FALSE, octets |-> s, ends |-> <<Len(s)>>, broken |-> b] :
        s \in Streams, b \in BOOLEAN}

EmptyFile == [gzip |-> TRUE, octets |-> <<>>, ends |-> <<>>, broken |-> FALSE]

AllFiles == {EmptyFile} \cup PlainFiles \cup GzipFiles

=============================================================================
