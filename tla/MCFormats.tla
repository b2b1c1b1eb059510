----------------------------- MODULE MCFormats -----------------------------
(***************************************************************************)
(* The library's reading and writing of archives for TLC: what each of its *)
(* parts does to the data it is given, one part in each behaviour.         *)
(***************************************************************************)
EXTENDS MCReader, Exchanges, FieldsBlocks, Headers, Dates, Digests, Writer

VARIABLE subject    \* the part of the library at work

formatsVars ==
  <<subject, readerVars, buildersVars, exchangesVars, fieldsVars, headersVars, datesVars, digestsVars, writerVars>>
-----------------------------------------------------------------------------
(* Records.  The records read are each type's required lines, one of them    *)
(* left out or none, with up to MaxExtra of the lines a record may have    *)
(* besides.                                                                *)

CONSTANTS MaxExtra

MCBlocks == {"empty", "fields", "message", "cut", "coded", "describes 1.0", "describes 1.1", "fetch time"}
MCMessages == {"query", "twin", "head", "twin head", "unchanged"}
MCBlockLength == [b \in MCBlocks \cup MCMessages |-> CASE b = "empty" -> 0 [] b = "fields" -> 3 [] OTHER -> 5]
MCReadsAsFields == {"empty", "fields", "describes 1.0", "describes 1.1", "fetch time"}
MCEntity == [b \in MCBlocks \cup MCMessages |->
  CASE b \in {"message", "twin"} -> <<"Ok", "entity">>
    [] b \in MCMessages -> <<"Ok", "nothing">>
    [] b = "cut" -> <<"Err", "IncompleteChunkedBody">>
    [] b = "coded" -> <<"Err", "UnsupportedTransferEncoding">>
    [] OTHER -> <<"Err", "UnterminatedHeaders">>]
MCHttpUris == {"h:a", "h:b"}
MCExtensionType == [t \in {"x-note", "x-alias", "x-same", "not a token"} |->
  CASE t = "x-alias" -> "response" [] t = "not a token" -> t [] OTHER -> "x-note"]
MCExtensionNames == {"X-Claimed"}

Id == <<"u:id", TRUE>>
RequiredLines(type) ==
  << <<"WarcType", type>>, <<"RecordID", Id>>, <<"Date", <<"day", "second">>>>,
     <<"ContentLength", 5>> >>
  \o (IF type \in WithPayload THEN << <<"TargetURI", <<"h:a", FALSE>>>> >> ELSE << >>)
  \o (IF type = "revisit" THEN << <<"Profile", <<"identical/1.1", FALSE>>>>,
                                  <<"PayloadDigest", <<"sha1", "entity">>>> >> ELSE << >>)
  \o (IF type = "continuation" THEN << <<"SegmentNumber", 2>>, <<"SegmentOriginID", Id>> >> ELSE << >>)

ExtraLines ==
  { <<"WarcinfoID", <<"u:info", TRUE>>>>, <<"Filename", "file">>, <<"Filename", NotUtf8>>,
    <<"ConcurrentTo", <<"u:one", TRUE>>>>, <<"ConcurrentTo", <<"u:two", FALSE>>>>,
    <<"IPAddress", "ip">>, <<"Protocol", "h2">>, <<"Protocol", "not a protocol">>,
    <<"Profile", <<"other", FALSE>>>>, <<"RefersTo", <<"u:one", TRUE>>>>,
    <<"RefersToTargetURI", <<"h:a", TRUE>>>>, <<"RefersToDate", <<"day", "fraction">>>>,
    <<"TargetURI", <<"u:a", FALSE>>>>, <<"SegmentOriginID", Id>>,
    <<"SegmentNumber", 1>>, <<"SegmentNumber", 3>>, <<"SegmentTotalLength", 9>>,
    <<"Truncated", "length">>, <<"Truncated", "time">>, <<"IdentifiedPayloadType", "other">>,
    <<"PayloadDigest", <<"sha1", "entity">>>>, <<"PayloadDigest", <<"md5", "unknown">>>>,
    <<"BlockDigest", <<"sha1", "message">>>>, <<"BlockDigest", <<"sha1", "undecodable">>>>,
    <<"ContentType", "http">>, <<"ContentType", "warc-fields">>,
    <<"X-Claimed", "text">>, <<"X-Kept", "text">>, <<"X-Kept", NotUtf8>> }

Without(lines, i) == IF i = 0 THEN lines ELSE SubSeq(lines, 1, i - 1) \o SubSeq(lines, i + 1, Len(lines))

MCUntyped ==
  LET types == ToSet(KnownTypes) \cup {"x-note", "x-alias", "x-same", "x-unknown"}
      extras == {{}} \cup {{e} : e \in ExtraLines}
                \cup IF MaxExtra = 2 THEN {{d, e} : d, e \in ExtraLines} ELSE {}
  IN  { [version |-> v, lines |-> RequiredLines(t) \o SetToSeq(e), body |-> b] :
          v \in Versions, t \in types, e \in extras, b \in {"message"} }
      \cup { [version |-> v, lines |-> Append(RequiredLines(t), <<"Truncated", "length">>), body |-> "cut"] :
          v \in Versions, t \in types }
      \cup { [version |-> v, lines |-> Without(RequiredLines(t), i), body |-> "message"] :
          v \in Versions, t \in types, i \in 1..4 }
      \cup { [version |-> v, lines |-> Without(RequiredLines(t), Len(RequiredLines(t))), body |-> "message"] :
          v \in Versions, t \in types }
      \cup { [version |-> v, lines |-> Append(Without(RequiredLines(t), 3), <<"Date", <<"day", "fraction">>>>),
               body |-> "message"] : v \in Versions, t \in types }
      \cup { [version |-> v, lines |-> Without(RequiredLines(t), 4) \o SetToSeq(e), body |-> b] :
          v \in Versions, t \in {"warcinfo", "metadata", "response", "x-note"}, e \in extras, b \in {"fields"} }
      \cup { [version |-> v,
               lines |-> Append(Without(RequiredLines(t), 3), <<"Date", <<d, "second">>>>)
                         \o << <<"RefersToTargetURI", <<"h:a", TRUE>>>>, <<"RefersToDate", <<e, "second">>>> >>,
               body |-> "message"] :
          v \in Versions, t \in {"revisit", "response"}, d, e \in {"day", "ancient"} }

MCOffered ==
  [f \in Field |->
    CASE f \in UriFields -> {<<"h:a", FALSE>>}
      [] f \in DateFields -> {<<"day", "second">>, <<"day", "fraction">>}
      [] f = "SegmentNumber" -> {1}
      [] f \in DigitFields -> {5}
      [] f \in MediaTypeFields -> {"other"}
      [] f \in DigestFields -> {<<"sha1", "entity">>}
      [] f = "Truncated" -> {"length", "time", "not a token"}
      [] f = "Filename" -> {"text", Padded, Requoted, Misquoted}
      [] OTHER -> {"text"}]
MCBodies == {"empty", "message"}
MCProfiles == {<<"identical/1.1", FALSE>>, <<"unmodified/1.1", FALSE>>, <<"other", FALSE>>, <<"not a uri", FALSE>>}
MCDigested == {<< >>, << <<"sha1", "entity">> >>}
-----------------------------------------------------------------------------
(* Exchanges of two resources, at two times, complete or cut short.        *)

MCCaptured ==
  LET Of(uri, at, response, truncated, title) ==
        [ targetUri |-> <<uri, FALSE>>, date |-> <<at, "fraction">>, response |-> response,
          status |-> IF response = "unchanged" THEN 304 ELSE 200, truncated |-> truncated,
          http |-> IF uri = "h:a" THEN 2 ELSE 1, tls |-> IF uri = "h:a" THEN <<"tls/1.3">> ELSE << >>,
          ipAddress |-> <<"ip">>, title |-> title, request |-> "query" ]
  IN  {Of(u, d, r, t, "title") : u \in MCHttpUris, d \in {"day", "later"},
                                 r \in {"message", "twin", "unchanged"}, t \in {<< >>}}
      \cup {Of(u, d, r, t, "title") : u \in {"h:a"}, d \in {"later"},
                                       r \in {"message", "cut", "unchanged"}, t \in {<<"time">>}}
      \cup {Of("h:a", "day", "message", << >>, LineBreak)}

MCHeadOf == [r \in {"message", "twin", "cut", "unchanged"} |->
  CASE r = "twin" -> "twin head" [] r = "unchanged" -> "unchanged" [] OTHER -> "head"]
MCIdentifiedType == [p \in {"entity", "nothing"} |-> IF p = "entity" THEN <<"other">> ELSE << >>]
-----------------------------------------------------------------------------
(* Blocks of fields.                                                       *)

(* Standard fields, the name the standard prints and the one in lower case. *)
Names ==
  [ ContentLength |-> <<"Content-Length", "content-length">>, ContentType |-> <<"Content-Type", "content-type">>,
    WarcType |-> <<"WARC-Type", "warc-type">>, Filename |-> <<"WARC-Filename", "warc-filename">>,
    TargetURI |-> <<"WARC-Target-URI", "warc-target-uri">>, Date |-> <<"WARC-Date", "warc-date">>,
    IPAddress |-> <<"WARC-IP-Address", "warc-ip-address">>,
    BlockDigest |-> <<"WARC-Block-Digest", "warc-block-digest">> ]

(* Every token, and the field of those that name one, spelled in one way   *)
(* or another.                                                             *)
MCNameOf ==
  [t \in {Names[f][1] : f \in DOMAIN Names} |-> CHOOSE f \in DOMAIN Names : Names[f][1] = t]
  @@ [t \in {Names[f][2] : f \in DOMAIN Names} |-> CHOOSE f \in DOMAIN Names : Names[f][2] = t]
  @@ [t \in {"CONTENT-LENGTH"} |-> "ContentLength"]
  @@ [t \in {"VIA"} |-> "via"] @@ [t \in {"Title"} |-> "title"]
  @@ [t \in {"X-Other"} |-> "x-other"] @@ [t \in {"X-Note"} |-> "x-note"]
  @@ [t \in {"via", "title", "ip", "x-other", "x-note", "text", "plain", "charset", "response", "sha1"} |-> t]

MCNumberOf == [t \in {<<"7">>, <<"007">>} |-> 7]
MCDecimal == [n \in {7} |-> <<"7">>]

MCLines ==
  { <<"via", ":", " ", "a">>, <<"VIA", " ", ":", "a", " ", "b">>, <<"title", ":">>, <<"x-other", ":", " ", Undecodable>>,
    <<" ", "more">>, <<" ">>, <<"ip", ":", CR, "a">>, <<" ", CR>>, <<"X-Other", ":", " ", ":">>,
    << >>, <<"via", "x", ":">> }

MCFieldsBlock ==
  LET Ended(s, e) == [i \in DOMAIN s |-> <<s[i], IF i = Len(s) THEN e ELSE IF i = 1 THEN "lf" ELSE "crlf">>]
  IN  {Ended(s, "crlf") : s \in BoundedSeq(MCLines, 3)}
      \cup {Ended(s, "cut") : s \in {t \in BoundedSeq(MCLines, 2) : t # << >> /\ t[Len(t)] # << >>}}

MCValues == {<< >>, <<"a">>, <<" ", "a">>, <<"a", " ", ":", " ">>, <<"a", LF, " ">>, <<"\f">>}

Text(t) == <<"text", t>>
MCKeys == {"via", "VIA", "title", "x-other", "not a token"}

MCTypes ==
  { <<<<"text">>, {Text(<<"a">>), Text(<<" ">>)}>>,
    <<<<"number">>, {<<"number", 7>>}>>,
    <<<<"letter">>, {<<"letter", <<"one">>>>}>>,
    <<<<"option", <<"text">>>>, {<<"none", 0>>, <<"some", Text(<< >>)>>}>>,
    <<<<"newtype", <<"text">>>>, {<<"newtype", Text(<<"a">>)>>}>>,
    <<<<"seq", <<"text">>>>, {<<"seq", << >>>>, <<"seq", <<Text(<<"a">>)>>>>, <<"seq", <<Text(<<"b">>), Text(<<"a">>)>>>>}>>,
    <<<<"option", <<"seq", <<"number">>>>>>, {<<"none", 0>>, <<"some", <<"seq", << >>>>>>,
                                              <<"some", <<"seq", <<<<"number", 7>>, <<"number", 7>>>>>>>>}>>,
    <<<<"seq", <<"option", <<"text">>>>>>, {<<"seq", <<<<"none", 0>>, <<"some", Text(<<"a">>)>>>>>>}>>,
    <<<<"seq", <<"seq", <<"text">>>>>>, {<<"seq", <<<<"seq", <<Text(<<"a">>)>>>>>>>>}>> }

MCSchemas ==
  {<<<< <<"via", s[1], d /\ s[1][1] = "seq">>, <<"x-other", t[1], d /\ t[1][1] = "seq">> >>, {<<v, w>> : v \in s[2], w \in t[2]}>> :
      s, t \in MCTypes, d \in BOOLEAN}

MCShapes ==
  {<<"none", 0>>, <<"some", <<"struct", << >>>>>>, <<"text", << >>>>, <<"seq", << >>>>,
   <<"newtype", <<"map", << <<Text(<<"via">>), Text(<<"a">>)>>, <<<<"newtype", Text(<<"VIA">>)>>, Text(<<"b">>)>> >>>>>>,
   <<"map", << <<<<"number", 7>>, Text(<<"a">>)>> >>>>,
   <<"map", << <<Text(<<"not a token">>), Text(<<"a">>)>> >>>>,
   <<"map", << <<Text(<<"via">>), <<"map", << >>>>>> >>>>}
-----------------------------------------------------------------------------
(* Headers: an optional length and up to two more lines of a version's.    *)

MCVersionOf == [l \in {"WARC/1.0", "WARC/1.1", "WARC/0.9"} |->
  CASE l = "WARC/1.0" -> "1.0" [] l = "WARC/1.1" -> "1.1" [] OTHER -> "other"]
MCStandardName == [f \in DOMAIN Names |-> Names[f][1]]
MCLowerName == [f \in DOMAIN Names |-> Names[f][2]]
MCLengthOf == [t \in {<<"5">>, <<"05">>} |-> 5]
MCDigitsOf == [n \in {5} |-> <<"5">>]
MCDateIn == [t \in {"2020"} |-> "2020"]
MCAddressOf == [t \in {"0:0::1", "::1"} |-> "::1"]

Named(name, value) == <<name, ":">> \o value

HeaderLine == Named("Content-Length", <<" ", "5">>)

HeaderLines ==
  { HeaderLine, Named("CONTENT-LENGTH", <<"05", " ">>), Named("content-length", <<"five">>),
    Named("Content-Type", <<" ", "text", "/", "plain", " ", ";", " ", "charset", "=",
                            Quote, "a", Escape, Quote, ";", Quote>>),
    Named("Content-Type", <<"text", "/", "plain", ";", "charset", "=", "plain", " ", ";">>),
    Named("content-type", <<"text">>), Named("Content-Type", <<"text", "/", "plain", ";", " ", ";">>),
    Named("WARC-Filename", <<" ", Quote, Escape, Escape, Quote>>), Named("WARC-Filename", <<"a", Quote>>),
    Named("WARC-Filename", <<Quote, "a">>), Named("WARC-Target-URI", <<" ", "<", "u:a", ">">>),
    Named("warc-target-uri", <<"<", "u:a">>), Named("WARC-Type", <<" ", "response">>),
    Named("WARC-Date", <<" ", "2020">>), Named("WARC-Date", <<"a">>), Named("WARC-IP-Address", <<"0:0::1">>),
    Named("WARC-Block-Digest", <<" ", "sha1", ":", "d">>), Named("WARC-Block-Digest", <<"a", ":", "d">>),
    Named("X-Note", <<" ", "a", CR, " ">>), Named("x-note", << >>), <<"X-Note", " ", ":">>,
    <<" ", "plain">>, <<" ">>, << >> }

(* Lines, whole or cut off, one of them with an LF alone, or with          *)
(* something after the blank line.                                         *)
Joined(lines) == FlattenSeq([i \in DOMAIN lines |-> lines[i] \o <<CR, LF>>])
Opened(line, length, n) == {<< <<line>> >> \o length \o s : s \in BoundedSeq(HeaderLines, n)}
Long == Opened("WARC/1.1", <<HeaderLine>>, 2) \cup Opened("WARC/1.0", << >>, 1)
         \cup Opened("WARC/0.9", << >>, 1) \cup Opened("WARC", << >>, 0)
Short == Opened("WARC/1.1", <<HeaderLine>>, 1)
LastLf(b) == Joined(SubSeq(b, 1, Len(b) - 1)) \o b[Len(b)] \o <<LF, CR, LF>>

MCHeaderBlocks ==
  {Joined(b) \o <<CR, LF>> : b \in Long} \cup {Joined(b) : b \in Short} \cup {<< >>}
  \cup {Joined(b) \o <<LF>> : b \in Short} \cup {Joined(b) \o b[1] : b \in Short}
  \cup {LastLf(b) : b \in Short}

AssembledFields ==
  { <<"Content-Length", <<" ", "5">>>>, <<"content-length", <<CR, LF, " ", "5">>>>, <<"Content-Length", <<"five">>>>,
    <<"WARC-Filename", <<" ", Quote, "a", CR, LF, " ", "b", Escape, Escape, Quote>>>>,
    <<"Content-Type", <<"text", "/", "plain", ";", CR, LF, " ", " ", "charset", "=", "plain">>>>,
    <<"X-Note", <<"a", LF, " ">>>>, <<"X-Note", <<"a", CR, LF>>>>, <<"X-Note", <<CR, LF, " ">>>>,
    <<"not a token", <<"a">>>>, <<"WARC-Target-URI", <<"<", "u:a", ">", CR, LF, " ">>>> }
MCAssembled ==
  {[version |-> v, headers |-> h, length |-> n] : v \in Versions, h \in BoundedSeq(AssembledFields, 3), n \in {5, 6}}
-----------------------------------------------------------------------------
(* Dates, at and past the ends of what they spell, and leap seconds.       *)

MCInstants ==
  { <<-1, 6, 15, 12, 30, 15, 500000000>>, <<0, 1, 1, 0, 0, 0, 0>>, <<0, 1, 1, 0, 0, 0, 1>>,
    <<1999, 12, 31, 23, 59, 59, 999999999>>, <<1999, 12, 31, 23, 59, 59, 1000000000>>,
    <<1999, 12, 31, 23, 59, 59, 1999999999>>, <<2000, 1, 1, 0, 0, 0, 0>>, <<2000, 2, 29, 12, 0, 0, 123400000>>,
    <<2000, 2, 29, 12, 0, 30, 100000000>>, <<9999, 12, 31, 23, 59, 59, 999999999>>,
    <<10000, 1, 1, 0, 0, 0, 0>> }

MCSpellings ==
  [ parts : {<<0>>, <<10000>>, <<2000, 13>>, <<2000, 2>>, <<1900, 2, 29>>, <<2000, 2, 29>>, <<2000, 2, 29, 12>>,
             <<2000, 2, 29, 12, 59>>, <<2000, 2, 29, 12, 60>>, <<2000, 2, 29, 23, 59, 60>>,
             <<2000, 4, 31, 0, 0, 0>>, <<2000, 2, 29, 0, 0, 0>>},
    fraction : {<<0, 0>>, <<1, 5>>, <<3, 40>>, <<9, 999999999>>}, zoned : BOOLEAN ]

(* Values with the digits of more than one encoding, or with padding.      *)
MCOtherTexts ==
  { [digits |-> d, padding |-> p, alphabets |-> a,
     octets |-> [base16 |-> "one", base32 |-> "two", base64 |-> "others"]] :
      d \in {7, 32, 40}, p \in {0, 1}, a \in {{}, {"base64"}, Encodings} }

MCStoredRecords == {[size |-> 2, valid |-> TRUE], [size |-> 3, valid |-> TRUE], [size |-> 2, valid |-> FALSE]}
-----------------------------------------------------------------------------
(* A part that is not at work stays as it is.                              *)

NoStream == file = EmptyFile /\ ReaderInit

NoRecord ==
  /\ stage = "building" /\ origin = "built" /\ edits = 0 /\ untyped = << >> /\ record = << >>
  /\ again = << >> /\ fault = << >> /\ digests = << >> /\ setters = 0

NoExchange == ExchangesInit

NoFields == body = Refused("metadata") /\ changes = 0 /\ held = << >>

NoHeaders == level = "refused" /\ block = << >> /\ raw = NoHeader /\ parsed = NoHeader

NoDates == instant = << >> /\ date = NoDate

NoDigests ==
  digest = [label |-> LabelOf(<<"x-sum", {}>>), text |-> CHOOSE t \in MCOtherTexts : TRUE] /\ other = digest

NoWriter ==
  sink = << >> /\ position = 0 /\ gzip = FALSE /\ store = << >> /\ stored = << >> /\ failures = 0

FormatsInit ==
  \/ subject = "stream" /\ NoExchange /\ NoRecord /\ NoFields /\ NoHeaders /\ NoDates /\ NoDigests /\ NoWriter /\ ReaderInit
  \/ subject = "record" /\ NoExchange /\ NoStream /\ NoFields /\ NoHeaders /\ NoDates /\ NoDigests /\ NoWriter /\ BuildersInit
  \/ subject = "fields" /\ NoExchange /\ NoStream /\ NoRecord /\ NoHeaders /\ NoDates /\ NoDigests /\ NoWriter /\ FieldsInit
  \/ subject = "header" /\ NoExchange /\ NoStream /\ NoRecord /\ NoFields /\ NoDates /\ NoDigests /\ NoWriter /\ HeadersInit
  \/ subject = "date" /\ NoExchange /\ NoStream /\ NoRecord /\ NoFields /\ NoHeaders /\ NoDigests /\ NoWriter /\ DatesInit
  \/ subject = "digest" /\ NoExchange /\ NoStream /\ NoRecord /\ NoFields /\ NoHeaders /\ NoDates /\ NoWriter /\ DigestsInit
  \/ subject = "writer" /\ NoExchange /\ NoStream /\ NoRecord /\ NoFields /\ NoHeaders /\ NoDates /\ NoDigests /\ WriterInit
  \/ /\ subject = "exchange" /\ NoStream /\ NoRecord /\ NoFields /\ NoHeaders /\ NoDates /\ NoDigests /\ NoWriter
     /\ ExchangesInit

FormatsNext ==
  /\ UNCHANGED subject
  /\ \/ /\ subject = "stream" /\ ReaderNext
        /\ UNCHANGED <<buildersVars, exchangesVars, fieldsVars, headersVars, datesVars, digestsVars, writerVars>>
     \/ /\ subject = "record" /\ BuildersNext
        /\ UNCHANGED <<readerVars, exchangesVars, fieldsVars, headersVars, datesVars, digestsVars, writerVars>>
     \/ /\ subject = "exchange" /\ ExchangesNext
        /\ UNCHANGED <<readerVars, buildersVars, fieldsVars, headersVars, datesVars, digestsVars, writerVars>>
     \/ /\ subject = "fields" /\ FieldsNext
        /\ UNCHANGED <<readerVars, buildersVars, exchangesVars, headersVars, datesVars, digestsVars, writerVars>>
     \/ /\ subject = "header" /\ HeadersNext
        /\ UNCHANGED <<readerVars, buildersVars, exchangesVars, fieldsVars, datesVars, digestsVars, writerVars>>
     \/ /\ subject = "date" /\ DatesNext
        /\ UNCHANGED <<readerVars, buildersVars, exchangesVars, fieldsVars, headersVars, digestsVars, writerVars>>
     \/ /\ subject = "digest" /\ DigestsNext
        /\ UNCHANGED <<readerVars, buildersVars, exchangesVars, fieldsVars, headersVars, datesVars, writerVars>>
     \/ /\ subject = "writer" /\ WriterNext
        /\ UNCHANGED <<readerVars, buildersVars, exchangesVars, fieldsVars, headersVars, datesVars, digestsVars>>

FormatsSpec == FormatsInit /\ [][FormatsNext]_formatsVars
-----------------------------------------------------------------------------
(* A record is named by what it holds, whoever names it, and the records   *)
(* of an archive refer to each other by those names.                       *)
(* (IdentityV1, assign_record_id, capture_records)                         *)
RecordsIdentified == IdentitiesAgree /\ ExchangesLinked

(* Headers and blocks of fields read back as what was written of them,     *)
(* whatever text their values hold.  (RecordHeader, HeaderValue, Body)     *)
BlocksReadBack == FieldsReadBack /\ HeadersReadBack

(* A record's date and its digests read back as what they were made of,    *)
(* whichever way they are spelled.  (WarcDate, LabelledDigest)             *)
ValuesReadBack == DatesReadBack /\ DigestsReadBack
=============================================================================
