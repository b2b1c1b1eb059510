---------------------------- MODULE MCIngestion ----------------------------
(* Instances of Ingestion for TLC. *)
EXTENDS Ingestion, TLC

CONSTANTS page, shared, v1, v2, desktop, mobile, p, q, empty

\* page differs by variant, shared does not; some payloads are on both.
SiteContent ==
    [u \in Uris |->
        [t \in {v1, v2} |->
            [v \in {desktop, mobile} |->
                IF u = page
                THEN IF (t = v1) = (v = desktop) THEN p ELSE q
                ELSE IF t = v1 THEN q ELSE p]]]

Id(n) == <<"library", n>>

Request(n, u, get, links) ==
    [kind |-> "request", id |-> Id(n), uri |-> u, links |-> links, get |-> get,
     whole |-> TRUE, ok |-> FALSE, head |-> FALSE, tag |-> None, vary |-> FALSE,
     digest |-> None, refers |-> None, dated |-> FALSE, date |-> 1, served |-> empty]

Response(n, u, date, tag, payload) ==
    [kind |-> "response", id |-> Id(n), uri |-> u, links |-> {}, get |-> TRUE,
     whole |-> TRUE, ok |-> TRUE, head |-> TRUE, tag |-> tag, vary |-> u = page,
     digest |-> payload, refers |-> None, dated |-> FALSE, date |-> date,
     served |-> payload]

Revisit(n, u, date, tag, payload, refers) ==
    [Response(n, u, date, tag, payload) EXCEPT
        !.kind = "revisit", !.refers = refers, !.dated = refers # None,
        !.head = tag # None, !.vary = tag # None /\ u = page]

Confirmation(n, u, date, tag, payload, refers) ==
    [Response(n, u, date, tag, payload) EXCEPT
        !.kind = "notModified", !.refers = refers, !.dated = refers # None, !.ok = FALSE]

-----------------------------------------------------------------------------
(* Captures of two URIs: 11 and 12 are full responses of shared with q and p, *)
(* 13 and 14 of page with p and q, and 15 is the answer to a HEAD.            *)

Held(id) == CASE id \in {Id(11), Id(14)} -> q
              [] id \in {Id(12), Id(13)} -> p
              [] OTHER -> empty

\* Requests that claim an identity or the capture 11 against each other, and 11
\* naming them.
ClaimingRecords ==
    {Request(1, shared, FALSE, {Id(11)}), Request(1, page, TRUE, {Id(11)}),
     Request(4, shared, TRUE, {}), Request(4, shared, FALSE, {}),
     [Response(11, shared, 1, v1, q) EXCEPT !.links = {Id(1)}],
     [Response(11, shared, 1, v1, q) EXCEPT !.links = {Id(1), Id(4)}]}

NamedRecords ==
    ClaimingRecords \cup
    {Request(1, shared, TRUE, {Id(n) : n \in {11, 12} \cup 16 .. 29}),
     Request(2, page, TRUE, {Id(n) : n \in {13, 14} \cup 30 .. 39}),
     Request(3, page, FALSE, {Id(15)}),
     Response(11, shared, 1, v1, q),
     Response(12, shared, 2, v2, p),
     [Response(16, shared, 2, v2, p) EXCEPT !.digest = None, !.whole = FALSE],
     Revisit(17, shared, 2, None, q, None),
     Revisit(18, shared, 3, v2, p, Id(12)),
     [Revisit(19, shared, 3, v1, q, Id(11)) EXCEPT !.ok = FALSE],
     Confirmation(20, shared, 2, v1, q, Id(11)),
     [Confirmation(21, shared, 3, v2, p, Id(12)) EXCEPT !.digest = None, !.dated = FALSE],
     Confirmation(22, shared, 3, v1, q, None),
     Response(13, page, 1, v1, p),
     Response(14, page, 2, v1, q),
     [Response(15, page, 3, v1, empty) EXCEPT !.get = FALSE, !.vary = FALSE],
     Revisit(30, page, 3, None, p, Id(13)),
     Confirmation(31, page, 3, v1, p, Id(13))}

\* And a confirmation that names neither its payload nor its original.
NamelessRecords ==
    {Request(1, shared, TRUE, {Id(n) : n \in {11, 12} \cup 16 .. 29}),
     Response(11, shared, 1, v1, q),
     Response(12, shared, 2, v2, p),
     [Confirmation(23, shared, 3, v1, q, None) EXCEPT !.digest = None]}

=============================================================================
