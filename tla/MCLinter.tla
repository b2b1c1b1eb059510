------------------------------ MODULE MCLinter ------------------------------
(* Instances of Linter for TLC. *)
EXTENDS Linter, TLC

CONSTANTS w, a, b, c, page, other, urn, here, there

Hosts == (page :> here) @@ (other :> there) @@ (urn :> None)

\* A resource that breaks no rule, under the warcinfo record w.
Plain ==
    [type |-> "resource", id |-> c, date |-> 1, warcinfo |-> w,
     concurrent |-> <<>>, target |-> page, refersTo |-> None,
     refersPartly |-> FALSE, content |-> "other", empty |-> FALSE,
     ordered |-> TRUE, blockDigest |-> "right", payloadDigest |-> "right",
     scheme |-> "uuid", derived |-> "other", collection |-> None,
     named |-> TRUE, fetchTime |-> FALSE, profile |-> "other",
     truncated |-> FALSE]

Info == [Plain EXCEPT !.type = "warcinfo", !.id = w, !.warcinfo = None,
                      !.collection = here, !.content = "warc-fields"]
Request == [Plain EXCEPT !.type = "request", !.id = a, !.content = "request"]
Response == [Plain EXCEPT !.type = "response", !.id = b, !.concurrent = <<a>>,
                          !.content = "response"]
Revisit == [Response EXCEPT !.type = "revisit", !.refersTo = c,
                            !.profile = "identical-payload-digest",
                            !.truncated = TRUE]
Metadata == [Plain EXCEPT !.type = "metadata", !.id = c, !.concurrent = <<b>>,
                          !.content = "warc-fields", !.fetchTime = TRUE]

\* The records of a capture, and records that break, or lead another to break,
\* each rule that relates two.
InCapture ==
    [info |-> Info, request |-> Request, response |-> Response,
     revisit |-> Revisit, metadata |-> Metadata, plain |-> Plain]
Astray ==
    [elsewhere |-> [Info EXCEPT !.id = c, !.collection = there],
     unnamed |-> [Info EXCEPT !.collection = "malformed", !.named = FALSE],
     request2 |-> [Request EXCEPT !.id = b, !.target = other],
     linked |-> [Request EXCEPT !.concurrent = <<b>>, !.date = 2],
     strayed |-> [Response EXCEPT !.id = c, !.concurrent = <<b>>,
                                  !.target = other],
     forward |-> [Revisit EXCEPT !.refersTo = b, !.warcinfo = c],
     twice |-> [Metadata EXCEPT !.concurrent = <<b, a>>, !.target = other],
     unlinked |-> [Metadata EXCEPT !.concurrent = <<>>, !.fetchTime = FALSE]]

\* Every case of the rules that look at one record alone.
BlockCases ==
    {"block"}
    \X {"warcinfo", "metadata", "request", "response", "revisit", "resource",
        "continuation"}
    \X {None, "warc-fields", "request", "response", "other"}
    \X BOOLEAN \X {page, urn}
DigestCases ==
    {"digest"} \X {"request", "metadata", "plain"}
    \X {None, "right", "mismatch", "malformed"}
    \X {None, "right", "mismatch", "malformed", "unreadable"}
IdentityCases ==
    {"identity"} \X {"uuid", "archivindex", "other"} \X {"same", "other", None}
    \X BOOLEAN
RevisitCases ==
    {"revisit"} \X BOOLEAN \X {"identical-payload-digest", "other"}
    \X BOOLEAN \X BOOLEAN

Capture == {"capture"} \X DOMAIN InCapture
Sequences == Capture \cup ({"astray"} \X DOMAIN Astray)
Strayed == {"astray"} \X {"elsewhere", "linked", "strayed"}
Alone == BlockCases \cup DigestCases \cup IdentityCases \cup RevisitCases

\* A record goes by the case it is of.
Records ==
    [n \in Sequences \cup Alone |->
        CASE n[1] = "capture" -> InCapture[n[2]]
          [] n[1] = "astray" -> Astray[n[2]]
          [] n[1] = "block" -> [Plain EXCEPT !.type = n[2], !.content = n[3],
                                             !.empty = n[4], !.target = n[5]]
          [] n[1] = "digest" -> [InCapture[n[2]] EXCEPT
                                    !.blockDigest = n[3], !.payloadDigest = n[4]]
          [] n[1] = "identity" -> [Plain EXCEPT !.scheme = n[2], !.derived = n[3],
                                                !.ordered = n[4]]
          [] n[1] = "revisit" -> [Revisit EXCEPT
                                    !.empty = n[2], !.profile = n[3],
                                    !.truncated = n[4], !.refersPartly = n[5],
                                    !.refersTo = None]]

Name(kind) == <<"capture", kind>>

Exchange ==
    {Name("info"), Name("request"), Name("response"), Name("metadata")}

Framed(kind, r, begins, members, padding) ==
    [kind |-> kind, record |-> r, begins |-> begins, members |-> members,
     padding |-> padding]

Unframed(records) ==
    {Framed("record", r, TRUE, 1, 0) : r \in records}
    \cup {Framed("refused", Name("plain"), TRUE, 1, 0)}
Failure == Framed("failure", Name("plain"), TRUE, 1, 0)

\* Every way for a record to lie in the members of a gzip file.
Compressed ==
    {Framed(kind, Name("plain"), begins, members, padding) :
        kind \in {"record", "refused"}, begins \in BOOLEAN, members \in {1, 2},
        padding \in {0, 1}}

Kind(items, length, gzip, trailing, broken, reach, summary) ==
    [items : [1 .. length -> items], gzip : gzip, trailing : trailing,
     broken : broken, reach : reach, summary : summary]

Plainly(items, length) ==
    Kind(items, length, {FALSE}, {0}, {{}}, {0}, {FALSE})

\* Sequences of records; records alone; a stream that fails; records in the
\* members of a gzip file; and added rules that report about the record they
\* are shown, and about the file.
LintedFiles ==
    [n \in 1 .. 3 |-> Plainly(Unframed(Sequences), n)]
    \o <<Plainly(Unframed(Capture \cup Strayed), 4),
         Plainly(Unframed(Capture), 5)>>
    \o <<Plainly(Unframed(Alone), 1)>>
    \o [n \in 1 .. 3 |-> Plainly(Unframed(Exchange) \cup {Failure}, n)]
    \o [n \in 1 .. 3 |-> Kind(Compressed, n, {TRUE}, {0, 1}, {{}}, {0}, {FALSE})]
    \o [n \in 1 .. 4 |-> Kind(Unframed(Exchange), n - 1, {FALSE}, {0, 1},
                              SUBSET (1 .. 3), {0}, {TRUE})]

\* An added rule that reports about the record before the one it is shown.
BackwardFiles ==
    <<Kind(Unframed(Exchange), 4, {FALSE}, {0}, SUBSET (1 .. 4), {1}, {FALSE})>>

=============================================================================
