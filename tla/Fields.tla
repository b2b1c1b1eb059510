------------------------------- MODULE Fields -------------------------------
(***************************************************************************)
(* The tables of the record level: the standard fields with the grammar    *)
(* each one's value follows, the versions that define them, the record     *)
(* types, and the rule under which each record type takes each field.      *)
(* (src/parse/untyped/name.rs, value.rs, src/record/record_type.rs,        *)
(* src/record/header/mod.rs)                                               *)
(*                                                                         *)
(* A name stands for its every spelling: names compare without their case. *)
(***************************************************************************)
EXTENDS Naturals, SequencesExt

(* The standard fields in the order they are conventionally written: a     *)
(* field's rank is its place here.                                         *)
FieldOrder ==
  << "WarcType", "TargetURI", "Date", "RecordID", "WarcinfoID", "Filename",
     "ConcurrentTo", "IPAddress", "Protocol", "Profile", "RefersTo",
     "RefersToTargetURI", "RefersToDate", "SegmentOriginID", "SegmentNumber",
     "SegmentTotalLength", "Truncated", "IdentifiedPayloadType",
     "PayloadDigest", "BlockDigest", "ContentType", "ContentLength" >>

Field == ToSet(FieldOrder)

Rank(name) == IF name \in Field THEN CHOOSE i \in DOMAIN FieldOrder : FieldOrder[i] = name
                                ELSE Len(FieldOrder) + 1

(* The fields whose value is a URI, in all versions; and those it is       *)
(* bracketed in under WARC 1.1, the ones that name a record.               *)
UriFields == {"ConcurrentTo", "Profile", "RecordID", "RefersTo", "RefersToTargetURI",
              "SegmentOriginID", "TargetURI", "WarcinfoID"}
BracketedFields == {"ConcurrentTo", "RecordID", "RefersTo", "SegmentOriginID", "WarcinfoID"}
DateFields == {"Date", "RefersToDate"}
DigitFields == {"ContentLength", "SegmentNumber", "SegmentTotalLength"}
MediaTypeFields == {"ContentType", "IdentifiedPayloadType"}
DigestFields == {"BlockDigest", "PayloadDigest"}
TokenFields == {"Truncated", "WarcType"}
TextFields == {"Filename", "Protocol"}

FormOf(f) ==
  CASE f \in UriFields       -> "Uri"
    [] f \in DateFields      -> "Date"
    [] f \in DigitFields     -> "Digits"
    [] f \in MediaTypeFields -> "MediaType"
    [] f \in DigestFields    -> "Digest"
    [] f \in TokenFields     -> "Token"
    [] f \in TextFields      -> "Text"
    [] f = "IPAddress"       -> "IpAddress"

Versions == {"1.0", "1.1"}

DefinedIn(f, version) == version = "1.1" \/ f \notin {"RefersToDate", "RefersToTargetURI"}

Repeatable == {"ConcurrentTo", "Protocol"}

(* WARC 1.0 writes a date to the second; 1.1 also more and less exactly.   *)
DateFits(precision, version) == version = "1.1" \/ precision = "second"

KnownTypes == << "warcinfo", "request", "response", "metadata",
                 "revisit", "resource", "conversion", "continuation" >>

(* What is taken from a record of any type, besides its type.              *)
CoreTakes ==
  << <<"RecordID", "required">>, <<"Date", "required">>, <<"ContentLength", "optional">>,
     <<"BlockDigest", "optional">>, <<"ContentType", "optional">>, <<"Truncated", "optional">> >>

Optional(fs) == [i \in DOMAIN fs |-> <<fs[i], "optional">>]
Origin == << <<"SegmentNumber", "origin">> >>
Payload == Optional(<<"PayloadDigest", "IdentifiedPayloadType">>)
Target == << <<"TargetURI", "required">> >>
CaptureTakes == Payload \o Target
                \o Optional(<<"WarcinfoID", "IPAddress", "Protocol", "ConcurrentTo">>) \o Origin

(* The fields of each record type, in the order they are taken, and the    *)
(* rule of each: a series' later segments are numbered from two, every     *)
(* other record that is a segment has number one.  Of a type the standard  *)
(* does not define only the segment number is taken.                       *)
Takes(type) ==
  CASE type = "warcinfo" -> Optional(<<"Filename">>) \o Origin
    [] type \in {"response", "resource", "request"} -> CaptureTakes
    [] type = "metadata" ->
         Optional(<<"TargetURI", "WarcinfoID", "IPAddress", "Protocol", "ConcurrentTo", "RefersTo">>)
         \o Origin
    [] type = "revisit" ->
         Payload \o Target \o Optional(<<"WarcinfoID">>)
         \o << <<"Profile", "required">>, <<"PayloadDigest", "profiled">> >>
         \o Optional(<<"IPAddress", "Protocol", "ConcurrentTo", "RefersTo",
                       "RefersToTargetURI", "RefersToDate">>)
         \o Origin
    [] type = "conversion" -> Payload \o Target \o Optional(<<"WarcinfoID", "RefersTo">>) \o Origin
    [] type = "continuation" ->
         Payload \o Target \o Optional(<<"WarcinfoID">>)
         \o << <<"SegmentNumber", "later">>, <<"SegmentOriginID", "required">> >>
         \o Optional(<<"SegmentTotalLength">>)
    [] OTHER -> Origin

TakenFields(type) == {t[1] : t \in ToSet(CoreTakes \o Takes(type))}

WithPayload == {"response", "resource", "request", "revisit", "conversion", "continuation"}
-----------------------------------------------------------------------------
(* Places in their order, and the lines at them.                           *)
InOrder(places) ==
  [k \in 1..Cardinality(places) |->
     CHOOSE i \in places : Cardinality({j \in places : j < i}) = k - 1]
Picked(lines, places) == [k \in 1..Cardinality(places) |-> lines[InOrder(places)[k]]]

(* The values of a field: of the lines of a header, which are              *)
(* <<name, value>> and maybe more, and of a typed record.                  *)
Places(lines, f) == {i \in DOMAIN lines : lines[i][1] = f}
ValuesOf(lines, f) ==
  LET named == Picked(lines, Places(lines, f)) IN [k \in DOMAIN named |-> named[k][2]]

Held(r, f) == IF f \in DOMAIN r.fields THEN r.fields[f] ELSE << >>
IsSegment(r) == Held(r, "SegmentNumber") # << >>
=============================================================================
