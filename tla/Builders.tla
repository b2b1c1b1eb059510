------------------------------ MODULE Builders ------------------------------
(***************************************************************************)
(* Records made in the program: the builder of each record type, and the   *)
(* records of one capture, built with them.  What is built goes on as any  *)
(* other record of Records does.  (src/record/builder/mod.rs, v1_0.rs,     *)
(* capture.rs)                                                             *)
(***************************************************************************)
EXTENDS Records

CONSTANTS
  Offered,       \* [field -> the values its setter is called with]
  Bodies,        \* the blocks records are built with
  Profiles,      \* revisit profiles
  Digested,      \* the payload digests captures are given: sequences of at most one
  MaxSetters     \* bound on the setters called on one builder

VARIABLES
  digests,       \* the algorithm the builder adds digests of, if any
  setters        \* how many setters were called

buildersVars == <<recordsVars, digests, setters>>

Core == {"RecordID", "ContentLength", "BlockDigest", "ContentType", "Truncated"}
PayloadSetters == {"PayloadDigest", "IdentifiedPayloadType"}
CaptureSetters == Core \cup PayloadSetters
                  \cup {"WarcinfoID", "IPAddress", "Protocol", "ConcurrentTo", "SegmentNumber"}

(* The fields each type's builder has a setter for; the two WARC 1.1 named *)
(* only on its own revisit builder.                                        *)
SettersOf(type, version) ==
  CASE type = "warcinfo" -> {"RecordID", "Filename"}
    [] type \in {"response", "resource", "request"} -> CaptureSetters
    [] type = "metadata" ->
         {"RecordID", "TargetURI", "WarcinfoID", "IPAddress", "Protocol", "ConcurrentTo", "RefersTo"}
    [] type = "revisit" ->
         CaptureSetters \cup {"RefersTo"}
         \cup IF version = "1.1" THEN {"RefersToTargetURI", "RefersToDate"} ELSE {}
    [] type = "conversion" -> Core \cup PayloadSetters \cup {"WarcinfoID", "RefersTo", "SegmentNumber"}
    [] type = "continuation" -> Core \cup PayloadSetters \cup {"WarcinfoID", "SegmentTotalLength"}
    [] OTHER -> Core \cup {"SegmentNumber"}

DefaultType(type) ==
  IF type \in {"response", "request"} THEN <<"http">>
  ELSE IF type \in {"warcinfo", "metadata"} THEN <<"warc-fields">>
  ELSE << >>

(* The block of a type whose builder writes it: a warcinfo says which      *)
(* version of the format it is written in, a metadata nothing yet.         *)
WrittenBlock(type, version) ==
  IF type = "metadata" THEN "empty"
  ELSE IF version = "1.0" THEN "describes 1.0" ELSE "describes 1.1"

WritesBlock(type) == type \in {"warcinfo", "metadata"}

(* The header a builder starts with: what its type requires, and nothing   *)
(* else but the type its block customarily has.                            *)
NewHeader(type, version, id, date, required) ==
  [ type |-> type, version |-> version,
    fields |-> [f \in TakenFields(type) |->
                  IF f \in DOMAIN required THEN <<required[f]>>
                  ELSE CASE f = "RecordID" -> <<id>>
                         [] f = "Date" -> <<date>>
                         [] f = "ContentType" -> DefaultType(type)
                         [] OTHER -> << >>],
    other |-> << >>, unrecognized |-> << >>, kind |-> "Raw", body |-> NoBlock ]

RequiredOf(type, uri, profile, number) ==
  LET target == [f \in {"TargetURI"} |-> uri]
  IN  CASE type \in {"response", "resource", "request", "conversion"} -> target
        [] type = "revisit" -> target @@ [f \in {"Profile"} |-> profile]
        [] type = "continuation" ->
             target @@ [f \in {"SegmentNumber"} |-> number] @@ [f \in {"SegmentOriginID"} |-> uri]
        [] OTHER -> [f \in {} |-> uri]

Buildable == ToSet(KnownTypes) \cup {ExtensionType[t] : t \in DOMAIN ExtensionType}

New ==
  \E type \in Buildable, version \in Versions, date \in Offered["Date"],
     uri \in Offered["TargetURI"], profile \in Profiles, number \in 1..2 :
    /\ stage = "building" /\ record = << >>
    /\ IsKnown(type) \/ \E t \in DOMAIN ExtensionType : t = type /\ ExtensionType[t] = type
    /\ \/ /\ type = "continuation" /\ number < 2
          /\ Refuse(<< <<"MalformedField", "SegmentNumber">> >>)
       \/ /\ type # "continuation" \/ number > 1
          /\ record' = NewHeader(type, version, <<"generated", FALSE>>, date,
                                 RequiredOf(type, uri, profile, number))
          /\ UNCHANGED <<stage, origin, edits, untyped, again, fault>>
    /\ UNCHANGED <<digests, setters>>

Building == stage = "building" /\ record # << >>

(* A setter replaces the value its field has; the two that repeat append.  *)
Set ==
  /\ Building /\ setters < MaxSetters
  /\ \E f \in SettersOf(record.type, record.version) : \E v \in Offered[f] :
       record' = [record EXCEPT !.fields[f] = IF f \in Repeatable THEN Append(@, v) ELSE <<v>>]
  /\ setters' = setters + 1
  /\ UNCHANGED <<stage, origin, edits, untyped, again, fault, digests>>

SetDigests ==
  /\ Building /\ digests = << >> /\ setters < MaxSetters
  /\ digests' = <<"sha1">>
  /\ setters' = setters + 1
  /\ UNCHANGED <<stage, origin, edits, untyped, record, again, fault>>

(* The fields the extension adds to a standard type.                       *)
SetExtension ==
  /\ Building /\ IsKnown(record.type) /\ setters < MaxSetters
  /\ \E name \in ExtensionNames \cup {"Date"} :
       record' = [record EXCEPT !.other = << <<name, "added">> >>]
  /\ setters' = setters + 1
  /\ UNCHANGED <<stage, origin, edits, untyped, again, fault, digests>>

(* add_digests: what is declared is kept.                                  *)
WithDigests(r, added) == WithPayloadDigest(WithBlockDigest(r, added), added)

Built(r) ==
  /\ stage' = "record"
  /\ record' = WithDigests(r, digests)
  /\ UNCHANGED <<origin, edits, untyped, again, fault, digests, setters>>

(* The two builders that write their block finish a record.                *)
Build ==
  /\ Building /\ WritesBlock(record.type)
  /\ LET block == WrittenBlock(record.type, record.version)
     IN  Built([record EXCEPT !.fields["ContentLength"] = <<BlockLength[block]>>,
                              !.kind = "Fields", !.body = block])

(* The others are given theirs.                                            *)
Body ==
  /\ Building /\ ~WritesBlock(record.type)
  /\ \E body \in Bodies :
       LET faults == BodyFaults(record, body)
       IN  \/ faults # << >> /\ Refuse(faults) /\ UNCHANGED <<digests, setters>>
           \/ faults = << >> /\ Built(WithBody(record, body))
-----------------------------------------------------------------------------
(* The records of one capture, in the order they are written.              *)
Given(r, f, values) == [r EXCEPT !.fields[f] = values]

EventHeader(type, event, id, required) ==
  Given(NewHeader(type, "1.1", id, event.date, required), "WarcinfoID", event.warcinfoId)

RequestRecord(event) ==
  WithBody(Given(EventHeader("request", event, <<"request", FALSE>>,
                             [f \in {"TargetURI"} |-> event.targetUri]),
                 "Protocol", event.requestProtocols), event.request)

(* What a response and the revisit in its place have in common.            *)
Answering(r, event, truncated) ==
  [r EXCEPT !.fields["ConcurrentTo"] = << <<"request", FALSE>> >>,
            !.fields["PayloadDigest"] = event.payloadDigest,
            !.fields["IPAddress"] = event.ipAddress,
            !.fields["Truncated"] = truncated,
            !.fields["Protocol"] = event.responseProtocols]

ResponseRecord(event) ==
  LET header == EventHeader("response", event, <<"response", FALSE>>,
                            [f \in {"TargetURI"} |-> event.targetUri])
  IN  WithBody(Given(Answering(header, event, event.truncated),
                     "IdentifiedPayloadType", event.identified), event.response)

(* A revisit of the identical payload holds at most the beginning of the   *)
(* response, and says so; another profile's keeps the reason the event has. *)
RevisitTruncated(event, profile) ==
  IF IsIdentical(<<profile>>)
  THEN IF BlockLength[event.response] > 0 THEN <<"length">> ELSE << >>
  ELSE event.truncated

RevisitRecord(event, profile, original) ==
  LET header == EventHeader("revisit", event, <<"response", FALSE>>,
                            [f \in {"TargetURI"} |-> event.targetUri] @@ [f \in {"Profile"} |-> profile])
      revisit == [Answering(header, event, RevisitTruncated(event, profile))
                    EXCEPT !.fields["RefersTo"] = <<original.recordId>>,
                           !.fields["RefersToTargetURI"] = <<original.targetUri>>,
                           !.fields["RefersToDate"] = <<original.date>>,
                           !.fields["IdentifiedPayloadType"] = original.identified,
                           !.fields["ContentType"] =
                             IF BlockLength[event.response] > 0 THEN <<"http">> ELSE << >>]
  IN  WithBody(revisit, event.response)

MetadataRecord(event) ==
  LET header == EventHeader("metadata", event, <<"metadata", FALSE>>, [f \in {"TargetURI"} |-> event.targetUri])
      block == "fetch time"
  IN  [Given(header, "ConcurrentTo", << <<"response", FALSE>> >>)
         EXCEPT !.fields["ContentLength"] = <<BlockLength[block]>>, !.kind = "Fields", !.body = block]

Exchange(event, answer) ==
  <<RequestRecord(event), answer>> \o IF event.fetchTime THEN <<MetadataRecord(event)>> ELSE << >>

RevisitOriginal(r) ==
  [ recordId |-> r.fields["RecordID"][1], targetUri |-> r.fields["TargetURI"][1],
    date |-> r.fields["Date"][1], identified |-> r.fields["IdentifiedPayloadType"] ]

(* The events: whose payload digest, when they have one, is the one of     *)
(* what they captured or of some other payload.                            *)
Events ==
  [ targetUri : Offered["TargetURI"], date : Offered["Date"],
    warcinfoId : {<< >>, << <<"u:info", FALSE>> >>}, ipAddress : {<<"ip">>},
    requestProtocols : {<<"h2">>}, responseProtocols : {<< >>, <<"h2", "tls">>},
    payloadDigest : Digested, truncated : {<< >>, <<"time">>}, identified : {<<"other">>},
    fetchTime : BOOLEAN, request : {"message"}, response : Bodies ]

(* One record of one capture is followed; a revisit refers to the response *)
(* of an earlier capture, or to the revisit that stands for it.            *)
Capture ==
  /\ stage = "building" /\ record = << >>
  /\ \E event \in Events :
       \/ \E i \in 1..3 :
            LET exchange == Exchange(event, ResponseRecord(event))
            IN  i \in DOMAIN exchange /\ record' = exchange[i]
       \/ \E profile \in Profiles :
            record' = RevisitRecord(event, profile, RevisitOriginal(ResponseRecord(event)))
  /\ stage' = "record" /\ origin' = "captured"
  /\ UNCHANGED <<edits, untyped, again, fault, digests, setters>>
-----------------------------------------------------------------------------
BuildersInit ==
  /\ \/ RecordsInit
     \/ /\ stage = "building" /\ origin = "built" /\ edits = 0
        /\ untyped = << >> /\ record = << >> /\ again = << >> /\ fault = << >>
  /\ digests = << >> /\ setters = 0

BuildersNext ==
  \/ Convert /\ UNCHANGED <<digests, setters>>
  \/ setters < MaxEdits /\ Edit /\ UNCHANGED <<digests, setters>>
  \/ New \/ Set \/ SetDigests \/ SetExtension \/ Build \/ Body \/ Capture

BuildersSpec == BuildersInit /\ [][BuildersNext]_buildersVars

(* A record that was built, and not changed since, is refused by rendering *)
(* only for what a builder leaves to it: a date its version has no         *)
(* spelling for, a revisit without what its profile requires, a profile    *)
(* that is no URI, a reason or a type that is no token, a declared digest  *)
(* that is wrong, a field of the extension that is the standard's.         *)
(* Of a capture's records, all have their digests right but the one whose  *)
(* digest is of another payload, and no revisit of an identical payload    *)
(* holds a beginning it does not declare.                                  *)
(* (the setters of builder/mod.rs against the checks of render.rs)         *)
BuiltIsWritable ==
  (stage = "refused" /\ record # << >> /\ origin # "read" /\ edits = 0 /\ record.body # NoBlock
   /\ fault[1] # "Again") =>
    \/ fault[1] = "UnsupportedDigestAlgorithm"
    \/ fault[1] = "MissingProfileField"
    \/ /\ fault = <<"UnwritableField", "Profile">>
       /\ Held(record, "Profile") = << <<"not a uri", FALSE>> >>
    \/ fault[1] = "Block" /\ fault[2] \in {"Malformed", "Mismatch", "Payload"}
    \/ /\ origin = "built"
       /\ \/ fault \in { <<"ValueNotInVersion", "Date">>, <<"ValueNotInVersion", "RefersToDate">>,
                         <<"ReservedField", "Date">>, <<"Block", "UndeclaredRevisitTruncation">> }
          \/ /\ fault = <<"UnwritableField", "Truncated">>
             /\ Held(record, "Truncated") = <<"not a token">>
          \/ fault = <<"UnwritableField", "WarcType">> /\ record.type = "not a token"

(* What the readers and the builders of records accept, the writer of      *)
(* records accepts, but for what these two say.                            *)
Writable == ReadIsWritable /\ BuiltIsWritable
=============================================================================
