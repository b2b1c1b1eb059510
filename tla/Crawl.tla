------------------------------- MODULE Crawl --------------------------------
(***************************************************************************)
(* The depth-first driver (session/crawl.rs) as operators on its state: a  *)
(* record of the waiting requests, the request handed out whose outcome    *)
(* has not been reported, the URLs given or discovered so far, and         *)
(* dedupe_discoveries: whether repeated discoveries are skipped.           *)
(***************************************************************************)
EXTENDS Integers, SequencesExt

CONSTANTS
    Urls,       \* the URLs of requests and links
    NoRequest   \* stands for no current request

\* A request: its URL, and whether its method is idempotent.
Requests == [url : Urls, idempotent : BOOLEAN]

\* Request::extra: a discovered link is requested with GET.
Extra(url) == [url |-> url, idempotent |-> TRUE]

UrlsOf(requests) == {r.url : r \in ToSet(requests)}

\* The waiting requests are kept as a stack, the next one last.
NewCrawl(requests, dedupe) ==
    [stack |-> Reverse(requests), current |-> NoRequest, seen |-> UrlsOf(requests),
     dedupe |-> dedupe]

HasNext(crawl) == crawl.stack # <<>>

\* Driver::next pops a request, or clears the current one when none is left.
NextRequest(crawl) ==
    IF HasNext(crawl)
    THEN [crawl EXCEPT !.stack = Front(@), !.current = Last(crawl.stack)]
    ELSE [crawl EXCEPT !.current = NoRequest]

\* links.retain: in order, the links not yet seen, each of which is then seen.
Retain(crawl, links) ==
    LET kept[i \in 0 .. Len(links)] ==
            IF i = 0 THEN <<>>
            ELSE IF crawl.dedupe /\ links[i] \in crawl.seen \cup ToSet(kept[i - 1])
                 THEN kept[i - 1] ELSE Append(kept[i - 1], links[i])
    IN kept[Len(links)]

\* Faulty: discovered links wait behind the other requests.
InspectedBreadthFirst(crawl, links, error) ==
    IF error THEN [crawl EXCEPT !.current = NoRequest]
    ELSE LET kept == Retain(crawl, links) IN
         [crawl EXCEPT
            !.stack = Reverse([i \in 1 .. Len(kept) |-> Extra(kept[i])]) \o @,
            !.current = NoRequest,
            !.seen = @ \cup ToSet(kept)]

\* Faulty: the links a page leads to are not remembered.
InspectedForgetting(crawl, links, error) ==
    IF error THEN [crawl EXCEPT !.current = NoRequest]
    ELSE LET kept == Retain(crawl, links) IN
         [crawl EXCEPT
            !.stack = @ \o Reverse([i \in 1 .. Len(kept) |-> Extra(kept[i])]),
            !.current = NoRequest]

\* Driver::inspect: a processor's links are pushed so that the first of them
\* is requested next, and are all ignored when it reports an error.
Inspected(crawl, links, error) ==
    IF error THEN [crawl EXCEPT !.current = NoRequest]
    ELSE LET kept == Retain(crawl, links) IN
         [crawl EXCEPT
            !.stack = @ \o Reverse([i \in 1 .. Len(kept) |-> Extra(kept[i])]),
            !.current = NoRequest,
            !.seen = @ \cup ToSet(kept)]

\* Faulty: the failed request stays current, and would be made again on resuming.
FailedKeepingCurrent(crawl) == crawl

\* Driver::failed.
Failed(crawl) == [crawl EXCEPT !.current = NoRequest]

\* The requests still to make, in the order they would be made.
Unrequested(crawl) ==
    (IF crawl.current = NoRequest THEN <<>> ELSE <<crawl.current>>)
        \o Reverse(crawl.stack)

=============================================================================
