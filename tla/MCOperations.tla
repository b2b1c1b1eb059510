---------------------------- MODULE MCOperations ----------------------------
(***************************************************************************)
(* The operations of warc-ops for TLC: merging two files, removing captures *)
(* from one, or the operations that change what the headers of one say,    *)
(* one after another.                                                      *)
(***************************************************************************)
EXTENDS Merge, Remove, Operations

VARIABLE subject    \* which of the three a behaviour is of

mcVars == <<subject, mergeVars, vars, operationsVars>>
-----------------------------------------------------------------------------
CONSTANTS a, b, c, d, e, u, v, k1, k2

(* Merging.                                                                *)

Plain(warcinfoId, refs) ==
  [info |-> FALSE, id |-> Absent, key |-> k1, date |-> Absent,
   warcinfoId |-> warcinfoId, refs |-> refs, from |-> 0]

Warcinfo(id, key, date, refs) ==
  [Plain(Absent, refs) EXCEPT !.info = TRUE, !.id = id, !.key = key, !.date = date]

(* Warcinfo records of which three match and one is undated, of which one  *)
(* names another, and of which one has no identifier; records that name    *)
(* one, refer to one, name what is in neither file, or only come under one. *)
Mergeable ==
    {Warcinfo(a, k1, 2, {}), Warcinfo(b, k1, 1, {c}), Warcinfo(d, k1, Absent, {}),
     Warcinfo(c, k2, 1, {a}), Warcinfo(Absent, k2, 2, {}),
     Plain(Absent, {}), Plain(a, {b}), Plain(Absent, {d, e}), Plain(e, {})}

Numbered(s) == [n \in DOMAIN s |-> [s[n] EXCEPT !.from = n]]

Pairs(lengths1, lengths2) ==
    {[records |-> Numbered(s \o t), first |-> Len(s)] :
        s \in UNION {[1 .. n -> Mergeable] : n \in lengths1},
        t \in UNION {[1 .. n -> Mergeable] : n \in lengths2}}

(* For inputs that may change.                                             *)
Few == {[records |-> Numbered(s), first |-> n] :
            s \in BoundedSeq({Warcinfo(a, k1, 2, {}), Warcinfo(b, k1, 1, {}), Warcinfo(c, k2, 1, {}),
                              Plain(Absent, {})}, 3), n \in 0 .. 1}
FewPairs == {in \in Few : in.first <= Len(in.records)}

ShortPairs == Pairs(0 .. 2, 0 .. 2) \cup Pairs(0 .. 1, {3}) \cup FewPairs
-----------------------------------------------------------------------------
(* Removing.                                                               *)

Record(type, id, uri, refers, concurrent) ==
    [type |-> type, id |-> id, uri |-> uri, refers |-> refers, links |-> concurrent]

(* Responses of one identifier, of different targets; revisits of them, of *)
(* their own and of another target, of themselves, and of an original that *)
(* is not in the file; records linked to one or to two of these, in either *)
(* direction, and one without an identifier.                               *)
Library ==
    {Record("response", a, u, None, {}), Record("response", a, v, None, {}),
     Record("revisit", b, u, a, {}), Record("revisit", b, v, a, {c}),
     Record("revisit", c, u, d, {b}),
     Record("other", c, u, None, {b}), Record("other", d, u, None, {c}),
     Record("other", d, None, None, {a, c}), Record("other", None, u, None, {b, d}),
     Record("response", c, u, None, {d})}

MCInputs == BoundedSeq(Library, 4)
-----------------------------------------------------------------------------
(* The other operations.                                                   *)

Named(x) == <<"urn", x>>
Url == <<"h:a", FALSE>>
Day == <<"day", "second">>
Line(name, value) == <<name, value, TRUE>>
Respelled(name, value) == <<name, value, FALSE>>

MCHttpTargets == {"h:a"}
Message == <<"http", "message">>
Text == <<"text", "note">>
MCFramedOf == (Message :> "framed")
Fields1 == <<"fields", << <<"software", <<"old", "/", "1", "/", "2">>>>, <<"isPartOf", <<"c">>>>,
                          <<"software", <<"other">>>> >> >>
Fields2 == <<"fields", << <<"operator", <<"who", " <", "at", ">">>>>, <<"note", <<"kept">>>> >> >>

Heading(type, id) == << Line("WarcType", type), Line("Date", Day), Line("RecordID", Named(id)) >>
Rec(lines, block) ==
  [version |-> "1.1", lines |-> Append(lines, Line("ContentLength", block)), block |-> block]

(* A warcinfo record, as it was made and with its header in disorder.      *)
Info(block, extra) ==
  Rec(Heading("warcinfo", "info") \o << Line("Filename", "old.warc") >> \o extra
      \o << Line("ContentType", "fields") >>, block)
Shuffled(r) == [r EXCEPT !.lines = Append([i \in DOMAIN @ |-> Respelled(@[i][1], @[i][2])] , Line("X-Note", "kept"))]
Disordered(r) == [r EXCEPT !.lines = Reverse(@)]

Digest(label, encoding, content) == Line("PayloadDigest", <<label, encoding, content>>)
Response(id, extra) ==
  Rec(Heading("response", id) \o << Line("TargetURI", Url) >> \o extra \o << Line("ContentType", "http") >>,
      Message)
Referring(type, id, field, to, extra) ==
  Rec(Heading(type, id) \o << Line("TargetURI", Url), Line("WarcinfoID", Named("info")), Line(field, to) >>
      \o extra, Text)
Revisit(id, to, extra) ==
  Referring("revisit", id, "RefersTo", to,
            << Line("RefersToTargetURI", <<"h:a", TRUE>>), Line("RefersToDate", Day) >> \o extra)
Segment(id) == Referring("response", id, "SegmentOriginID", Named("r"), << Line("SegmentNumber", 1) >>)
Unnamed(r) == [r EXCEPT !.lines = SelectSeq(@, LAMBDA line : line[1] # "RecordID")]
Twice(r, line) == [r EXCEPT !.lines = Append(@, line)]
IsOf(r) == <<"derived", IdentityAsRead(r.version, r.lines, r.block)>>

Type(t) == << Line("IdentifiedPayloadType", t) >>
R(extra) == Response("r", extra)

MCArchives ==
  { << >>,
    \* A capture, its warcinfo and a revisit; the response after what refers to it.
    << Info(Fields1, << >>), R(Type("html")), Revisit("v", Named("r"), << >>) >>,
    << Revisit("v", Named("r"), << >>), Referring("request", "q", "ConcurrentTo", Named("r"), << >>),
       R(Type("html") \o << Digest("sha1", "base32", "entity") >>), Info(Fields2, << >>) >>,
    \* Names respelled, and fields in another order.
    << Shuffled(Info(Fields2, << Line("BlockDigest", <<"sha1", "base16", <<"raw", "x">>>>) >>)),
       Disordered(R(<< Digest("sha1", "base16", "framed") >>)), Disordered(Revisit("v", Named("r"), << >>)) >>,
    \* Several originals of one identifier; one whose type is ill formed.
    << R(Type("html")), R(Type("text")), Revisit("v", Named("r"), << >>) >>,
    << R(Type(IllFormed)), R(Type("text")), Revisit("v", Named("r"), Type("html")) >>,
    << R(<< >>), Revisit("v", Named("r"), << >>), Revisit("w", Named("elsewhere"), << >>) >>,
    \* Digests that are kept: of a segment, not computed, not decoded, of another target.
    << Segment("s"), Response("t", << Digest("md5", "base16", "entity") >>),
       Response("u", << Digest("sha1", IllFormed, "entity") >>), Twice(Segment("x"), Digest("sha1", "base32", "entity")) >>,
    << R(<< Digest("sha1", "base32", "entity"), Digest("sha1", "base32", "entity") >>) >>,
    \* Records without an identifier, or that keep theirs.
    << Unnamed(R(<< >>)), Revisit("v", IsOf(R(<< >>)), << >>), Segment("s") >>,
    << Unnamed(R(Type("html"))), Revisit("v", IsOf(R(<< >>)), << >>) >>,
    << Response("", Type("html")), Revisit("v", Named(""), << >>) >>,
    << Unnamed(Info(Fields1, << >>)),
       Referring("request", "q", "ConcurrentTo", IsOf(Info(Fields1, << >>)), << >>) >>,
    << Unnamed(R(<< >>)), Twice(Revisit("v", Named("v"), << >>), Line("RecordID", Named("other"))) >>,
    << Rec(<< Line("WarcType", "metadata"), Line("Date", <<"ancient", "second">>), Line("RecordID", Named("")) >>, Text),
       Referring("metadata", "m", "RefersTo", Named(""), << >>) >>,
    \* Two records of one identity, and one named as another is to be.
    << R(<< >>), Response("copy", << >>) >>,
    << R(<< >>), [Segment("s") EXCEPT !.lines[3][2] = IsOf(R(<< >>))] >>,
    << R(<< >>), [Revisit("v", Named("r"), << >>) EXCEPT !.lines[3][2] = IsOf(R(<< >>))] >>,
    \* Warcinfo records that are not rewritten.
    << Info(Fields2, << Line("BlockDigest", <<"md5", "base16", <<"raw", "x">>>>) >>) >>,
    << Info(Text, << >>) >>,
    << Info(Fields1, << Line("TargetURI", Url) >>) >> }

Value(filename, name, version, operator, email, collection) ==
  [filename |-> filename, name |-> name, version |-> version,
   operator |-> operator, email |-> email, collection |-> collection]

MCTasks ==
  { <<"propagate">>, <<"canonicalize">>, <<"digest">>, <<"id">>,
    <<"compress", "new.warc">>, <<"compress", Unset>>,
    <<"rewrite", Value("set.warc", <<"new">>, Unset, <<"me">>, Unset, Unset)>>,
    <<"rewrite", Value(Unset, <<"a", "/", "b">>, Unset, <<"we", " <", "us", ">">>, Unset, Unset)>>,
    <<"rewrite", Value(Unset, <<"a", "/", "b">>, <<"3", "/", "4">>, Unset, Unset, Unset)>>,
    <<"rewrite", Value(Unset, Unset, <<"3">>, Unset, Unset, <<"d">>)>>,
    <<"rewrite", Value(Unset, Unset, Unset, Unset, <<"home">>, <<"d">>)>> }
-----------------------------------------------------------------------------
NothingRemoved ==
  /\ phase = "done" /\ input = << >> /\ at = 0 /\ responses = << >> /\ revisits = {} /\ links = {}
  /\ pending = {} /\ removed = {} /\ out = << >>

NothingOperated ==
  /\ source = << >> /\ file = << >> /\ task = << >> /\ pass = "idle" /\ plan = << >>
  /\ output = << >> /\ last = << >> /\ tasks = MaxTasks /\ derived = FALSE

NothingMerged ==
  /\ stage = "failed" /\ planned = [records |-> << >>, first |-> 0] /\ inputs = planned
  /\ consumed = 0 /\ taken = 0 /\ inputScope = Unscoped /\ outputScope = 0 /\ written = << >>

MCInit ==
  \/ subject = "merge" /\ MergeInit /\ NothingRemoved /\ NothingOperated
  \/ subject = "remove" /\ NothingMerged /\ Init /\ NothingOperated
  \/ subject = "operations" /\ NothingMerged /\ NothingRemoved /\ OperationsInit

Merging == subject = "merge" /\ MergeNext /\ UNCHANGED <<subject, vars, operationsVars>>
Removing == subject = "remove" /\ Next /\ UNCHANGED <<subject, mergeVars, operationsVars>>
Operating == subject = "operations" /\ OperationsNext /\ UNCHANGED <<subject, mergeVars, vars>>

(* One thread runs the removal to its end.                                 *)
MCSpec == MCInit /\ [][Merging \/ Removing \/ Operating]_mcVars /\ WF_mcVars(Removing)
=============================================================================
