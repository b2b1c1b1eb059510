------------------------------ MODULE Records -------------------------------
(***************************************************************************)
(* The semantic representation of one record: a header block is held to    *)
(* the rules of its record type and version, paired with its block,        *)
(* edited, rendered, and read back.  (src/record/mod.rs, lift.rs,          *)
(* render.rs, digest.rs, extension.rs)                                     *)
(*                                                                         *)
(* A line of a header is <<name, value>>, its value already of the form    *)
(* its field has.  A semantic record holds of each field its type takes a  *)
(* sequence of values, empty when the field is absent.  A block is one of  *)
(* Blocks, known by what the code asks of it: its length, whether it reads *)
(* as warc-fields, and the payload in it if it is an HTTP message.  A      *)
(* digest is <<algorithm, what it is the digest of>>.                      *)
(*                                                                         *)
(* A check is a sequence of at most one fault; the checks of an operation  *)
(* follow each other in the code's order and the first fault is reported.  *)
(***************************************************************************)
EXTENDS Identifiers, FiniteSets

CONSTANTS
  Blocks,          \* content blocks
  BlockLength,     \* [Blocks -> Nat]
  ReadsAsFields,   \* the blocks that are well-formed warc-fields
  Entity,          \* what reading a block's HTTP entity body gives
  HttpUris,        \* the URIs of scheme http or https
  Supported,       \* the digest algorithms of this build
  ExtensionType,   \* the record types of the extension, and the name each gives itself
  ExtensionNames,  \* the fields the extension adds to standard record types
  Untyped,         \* the untyped records that are read: [version, lines, body]
  MaxEdits,        \* bound on the edits of one record, and the setters called before them
  Padded,          \* a text with white space around it
  Requoted,        \* one that is a quoted string after white space
  Misquoted,       \* one that opens with a quote after white space, and does not close it
  NoBlock, LineBreak, NotUtf8   \* model values

VARIABLES
  stage,     \* how far the record is: untyped, header, record, written, again, refused
  origin,    \* where it comes from: read, built, captured
  edits,     \* how many times it was edited
  untyped,   \* the untyped record being read, or that was written
  record,    \* the semantic record
  again,     \* the semantic record read back from what was written
  fault      \* why it was refused

recordsVars == <<stage, origin, edits, untyped, record, again, fault>>

Fault(condition, what) == IF condition THEN <<what>> ELSE << >>

FirstLine(lines, Test(_)) ==
  SelectSeq([i \in DOMAIN lines |-> IF Test(i) THEN <<lines[i][1]>> ELSE << >>],
            LAMBDA l : l # << >>)

FirstFault(kind, names) == Fault(names # << >>, <<kind, Head(names)[1]>>)

(* The first standard field written a second time, bar the repeatable ones. *)
RepetitionFaults(lines) ==
  FirstFault("RepeatedField",
    FirstLine(lines, LAMBDA i : /\ lines[i][1] \in Field \ Repeatable
                                /\ \E j \in 1..(i - 1) : lines[j][1] = lines[i][1]))

VersionFaults(version, lines) ==
  FirstFault("FieldNotInVersion",
    FirstLine(lines, LAMBDA i : lines[i][1] \in Field /\ ~DefinedIn(lines[i][1], version)))

IdenticalProfiles == {"identical/1.0", "identical/1.1"}
IsIdentical(profiles) == profiles # << >> /\ profiles[1][1] \in IdenticalProfiles

(* Faulty: a profile's own requirement is forgotten.                       *)
TakeFaultsOfType(version, lines, take) ==
  LET f == take[1]
      rule == take[2]
      values == ValuesOf(lines, f)
  IN  Fault(rule \in {"required", "later"} /\ values = << >>, <<"MissingField", f>>)
      \o Fault(/\ values # << >>
               /\ \/ f \in DateFields /\ ~DateFits(values[1][2], version)
                  \/ f = "Protocol" /\ \E i \in DOMAIN values : values[i] \in {"not a protocol", NotUtf8}
                  \/ rule = "origin" /\ values[1] # 1
                  \/ rule = "later" /\ values[1] < 2,
               <<"MalformedField", f>>)

(* Taking one field of a header under its rule.                            *)
TakeFaults(version, lines, take) ==
  LET f == take[1]
      rule == take[2]
      values == ValuesOf(lines, f)
  IN  Fault(\/ rule \in {"required", "later"} /\ values = << >>
            \/ /\ rule = "profiled"
               /\ values = << >>
               /\ IsIdentical(ValuesOf(lines, "Profile")),
            <<"MissingField", f>>)
      \o Fault(/\ values # << >>
               /\ \/ f \in DateFields /\ ~DateFits(values[1][2], version)
                  \/ f = "Protocol" /\ \E i \in DOMAIN values : values[i] \in {"not a protocol", NotUtf8}
                  \/ rule = "origin" /\ values[1] # 1
                  \/ rule = "later" /\ values[1] < 2,
               <<"MalformedField", f>>)

AllTakeFaults(version, lines, takes) ==
  FlattenSeq([i \in DOMAIN takes |-> TakeFaults(version, lines, takes[i])])

RecordTypeOf(lines) == ValuesOf(lines, "WarcType")[1]
IsKnown(type) == type \in ToSet(KnownTypes)

(* What stays after a type's fields are taken: none of it may be standard  *)
(* on a standard type; the text of the rest must be UTF-8.                 *)
Left(type, lines) ==
  SelectSeq(lines, LAMBDA line : line[1] \notin TakenFields(type) \cup {"WarcType"})

FinishFaults(type, lines) ==
  LET left == Left(type, lines)
  IN  (IF IsKnown(type)
       THEN FirstFault("ForbiddenField", FirstLine(left, LAMBDA i : left[i][1] \in Field))
       ELSE << >>)
      \o FirstFault("NonUtf8Field", FirstLine(left, LAMBDA i : left[i][2] = NotUtf8))

OtherFaults(type) ==
  IF IsKnown(type) THEN << >>
  ELSE Fault(type \notin DOMAIN ExtensionType, <<"UnknownRecordType", type>>)
       \o Fault(type \in DOMAIN ExtensionType /\ IsKnown(ExtensionType[type]),
                <<"RedefinedRecordType", type>>)

LiftFaults(version, lines) ==
  RepetitionFaults(lines) \o VersionFaults(version, lines)
  \o IF ValuesOf(lines, "WarcType") = << >> THEN << <<"MissingField", "WarcType">> >>
     ELSE LET type == RecordTypeOf(lines)
          IN  AllTakeFaults(version, lines, CoreTakes)
              \o OtherFaults(type)
              \o AllTakeFaults(version, lines, Takes(type))
              \o FinishFaults(type, lines)

(* A URI is kept without its brackets: the version says where they go.     *)
Bare(f, values) == IF f \in UriFields THEN [i \in DOMAIN values |-> <<values[i][1], FALSE>>]
                                     ELSE values

(* White space around a value is not part of it, and of a text that is     *)
(* quoted within it neither are the quotes.                                *)
TrimmedText(value) ==
  IF value = Padded THEN "text" ELSE IF value = Requoted THEN "quoted" ELSE value
TrimmedLines(lines) == [i \in DOMAIN lines |-> <<lines[i][1], TrimmedText(lines[i][2])>>]

Claimed(type, line) == IsKnown(type) /\ line[1] \in ExtensionNames

Lifted(version, lines) ==
  LET type == RecordTypeOf(lines)
      trimmed == TrimmedLines(lines)
      left == Left(type, trimmed)
  IN  [ type         |-> IF IsKnown(type) THEN type ELSE ExtensionType[type],
        version      |-> version,
        fields       |-> [f \in TakenFields(type) |-> Bare(f, ValuesOf(trimmed, f))],
        other        |-> SelectSeq(left, LAMBDA line : Claimed(type, line)),
        unrecognized |-> SelectSeq(left, LAMBDA line : ~Claimed(type, line)),
        kind         |-> "Raw",
        body         |-> NoBlock ]
-----------------------------------------------------------------------------
(* Pairing a header with its block.                                        *)
IsTruncated(r) == Held(r, "Truncated") # << >>

LengthFaults(declared, body) ==
  Fault(declared # << >> /\ declared # <<BlockLength[body]>>, <<"Block", "ContentLengthMismatch">>)

(* A warcinfo or metadata block is read as fields where its type says they *)
(* are, unless it is a segment; one that does not read so is kept as it is *)
(* if the record says it is truncated.                                     *)
DeclaresFields(r) ==
  /\ r.type \in {"warcinfo", "metadata"}
  /\ ~IsSegment(r)
  /\ Held(r, "ContentType") = <<"warc-fields">>

BodyFaults(r, body) ==
  LengthFaults(Held(r, "ContentLength"), body)
  \o Fault(DeclaresFields(r) /\ body \notin ReadsAsFields /\ ~IsTruncated(r),
           <<"Block", "Fields">>)

WithBody(r, body) ==
  [ r EXCEPT !.fields["ContentLength"] = <<BlockLength[body]>>,
             !.kind = IF DeclaresFields(r) /\ body \in ReadsAsFields THEN "Fields" ELSE "Raw",
             !.body = body ]
-----------------------------------------------------------------------------
(* Digests.                                                                *)
HoldsHttpMessage(r) ==
  /\ Held(r, "TargetURI") # << >> /\ Held(r, "TargetURI")[1][1] \in HttpUris
  /\ Held(r, "ContentType") \in {<< >>, <<"http">>}

PayloadBytes(r) ==
  IF r.type \in {"resource", "conversion"} THEN <<"Ok", r.body>>
  ELSE IF r.type \in {"response", "request"} /\ HoldsHttpMessage(r) THEN Entity[r.body]
  ELSE <<"None">>

DigestFaults(field, declared, content) ==
  IF declared[1] \notin Supported THEN << >>
  ELSE Fault(declared[2] = "undecodable", <<"Block", "Malformed", field>>)
       \o Fault(declared[2] # content, <<"Block", "Mismatch", field>>)

(* A payload that cannot be read is a fault only of a record that says     *)
(* what its digest is, and not if it may well be incomplete or coded.      *)
ExcusesPayload(r, payload) ==
  \/ payload = <<"None">>
  \/ payload = <<"Err", "UnsupportedTransferEncoding">>
  \/ payload[2] \in {"IncompleteChunkedBody", "UnterminatedHeaders"} /\ IsTruncated(r)

PayloadDigestFaults(r) ==
  LET declared == Held(r, "PayloadDigest")
      payload == PayloadBytes(r)
  IN  IF r.type \notin WithPayload \/ IsSegment(r) \/ declared = << >> THEN << >>
      ELSE IF payload[1] = "Ok" THEN DigestFaults("PayloadDigest", declared[1], payload[2])
      ELSE Fault(~ExcusesPayload(r, payload), <<"Block", "Payload">>)

(* Faulty: a block that was cut short is not compared.                     *)
BlockDigestFaultsOfWhole(r) ==
  LET declared == Held(r, "BlockDigest")
  IN  IF declared = << >> \/ IsTruncated(r) THEN << >>
      ELSE DigestFaults("BlockDigest", declared[1], r.body)

BlockDigestFaults(r) ==
  LET declared == Held(r, "BlockDigest")
  IN  IF declared = << >> THEN << >> ELSE DigestFaults("BlockDigest", declared[1], r.body)

(* The digests added to a record that declares none, where it has them.    *)
WithPayloadDigest(r, added) ==
  LET payload == PayloadBytes(r)
  IN  IF /\ added # << >> /\ r.type \in WithPayload /\ ~IsSegment(r)
         /\ r.fields["PayloadDigest"] = << >> /\ payload[1] = "Ok"
      THEN [r EXCEPT !.fields["PayloadDigest"] = << <<added[1], payload[2]>> >>]
      ELSE r

WithBlockDigest(r, added) ==
  IF added # << >> /\ r.fields["BlockDigest"] = << >>
  THEN [r EXCEPT !.fields["BlockDigest"] = << <<added[1], r.body>> >>] ELSE r
-----------------------------------------------------------------------------
(* Rendering.                                                              *)

(* Text kept as read is written only if it would be read back as it is: a  *)
(* token for a name, a value without line breaks, no standard field beside *)
(* the typed ones, and a value of its field's form.                        *)
AsReadFaults(r, line) ==
  Fault(line[1] = "not a token" \/ line[2] = LineBreak, <<"UnwritableField", line[1]>>)
  \o (IF line[1] \in Field
      THEN Fault(IsKnown(r.type), <<"ReservedField", line[1]>>)
           \o Fault(~DefinedIn(line[1], r.version), <<"FieldNotInVersion", line[1]>>)
           \o Fault(line[2] = IllFormed \/ line = <<"Filename", Misquoted>>,
                    <<"UnwritableField", line[1]>>)
      ELSE << >>)

AllAsReadFaults(r, lines) == FlattenSeq([i \in DOMAIN lines |-> AsReadFaults(r, lines[i])])

(* A reason, a profile or a type that is no more than a string may not be  *)
(* what its field is to hold.                                              *)
PushFaults(r, f) ==
  IF Held(r, f) = << >> THEN << >>
  ELSE Fault(\/ f = "Truncated" /\ Held(r, f)[1] = "not a token"
             \/ f = "Profile" /\ Held(r, f)[1][1] = "not a uri",
             <<"UnwritableField", f>>)
       \o Fault(f \in DateFields /\ ~DateFits(Held(r, f)[1][2], r.version), <<"ValueNotInVersion", f>>)
       \o Fault(~DefinedIn(f, r.version), <<"FieldNotInVersion", f>>)

AllPushFaults(r, takes) == FlattenSeq([i \in DOMAIN takes |-> PushFaults(r, takes[i][1])])

RevisitFaults(r) ==
  IF r.type # "revisit" \/ ~IsIdentical(Held(r, "Profile")) THEN << >>
  ELSE Fault(Held(r, "PayloadDigest") = << >>, <<"MissingProfileField", "PayloadDigest">>)
       \o Fault(BlockLength[r.body] > 0 /\ Held(r, "Truncated") # <<"length">>,
                <<"Block", "UndeclaredRevisitTruncation">>)

(* URIs are bracketed as the version has them.                             *)
Spelled(f, version, values) ==
  IF f \in UriFields
  THEN [i \in DOMAIN values |-> <<values[i][1], version = "1.0" \/ f \in BracketedFields>>]
  ELSE values

(* Faulty: only the first value of a field that repeats is written.        *)
TypedLinesOnce(r, f) ==
  IF f = "WarcType" THEN << <<f, r.type>> >>
  ELSE IF f = "ContentLength" THEN << <<f, BlockLength[r.body]>> >>
  ELSE IF Held(r, f) = << >> THEN << >>
  ELSE << <<f, Spelled(f, r.version, Held(r, f))[1]>> >>

TypedLines(r, f) ==
  IF f = "WarcType" THEN << <<f, r.type>> >>
  ELSE IF f = "ContentLength" THEN << <<f, BlockLength[r.body]>> >>
  ELSE LET values == Spelled(f, r.version, Held(r, f))
       IN  [i \in DOMAIN values |-> <<f, values[i]>>]

(* The lines of a record in canonical order: each standard field's typed   *)
(* value, then what was kept of it as read; the extension's and the        *)
(* unrecognized ones last, in the order they have.                         *)
RenderedLines(r) ==
  LET kept == r.other \o r.unrecognized
  IN  FlattenSeq([k \in DOMAIN FieldOrder |->
         TypedLines(r, FieldOrder[k])
         \o SelectSeq(kept, LAMBDA line : line[1] = FieldOrder[k])])
      \o SelectSeq(kept, LAMBDA line : line[1] \notin Field)

StoreFaults(r) ==
  RevisitFaults(r)
  \o AllPushFaults(r, Takes(r.type))
  \o AllAsReadFaults(r, r.other)

(* into_raw_added: the payload digest is settled before the fields are     *)
(* written, the block's length and digest after.                           *)
RenderFaults(r) ==
  PayloadDigestFaults(r)
  \o StoreFaults(r)
  \o LengthFaults(Held(r, "ContentLength"), r.body)
  \o BlockDigestFaults(r)
  \o Fault(r.type = "not a token", <<"UnwritableField", "WarcType">>)
  \o AllPushFaults(r, CoreTakes)
  \o AllAsReadFaults(r, r.unrecognized)
  \o RepetitionFaults(RenderedLines(r))

(* A record whose digest algorithm is not in this build is refused first.  *)
AddedFaults(added) ==
  Fault(added # << >> /\ added[1] \notin Supported, <<"UnsupportedDigestAlgorithm", added>>)

Settled(r, added) == WithBlockDigest(WithPayloadDigest(r, added), added)

IntoRaw(r, added) ==
  LET settled == Settled(r, added)
  IN  [version |-> r.version, lines |-> RenderedLines(settled), body |-> r.body]

Rendering(r, added) == AddedFaults(added) \o RenderFaults(WithPayloadDigest(r, added))
-----------------------------------------------------------------------------
RecordsInit ==
  /\ stage = "untyped" /\ origin = "read" /\ edits = 0
  /\ untyped \in Untyped
  /\ record = << >> /\ again = << >> /\ fault = << >>

Refuse(faults) ==
  /\ stage' = "refused"
  /\ fault' = Head(faults)
  /\ UNCHANGED <<origin, edits, untyped, record, again>>

(* RecordHeader::try_from.                                                 *)
LiftHeader ==
  /\ stage = "untyped"
  /\ LET faults == LiftFaults(untyped.version, untyped.lines)
     IN  \/ faults # << >> /\ Refuse(faults)
         \/ /\ faults = << >>
            /\ stage' = "header"
            /\ record' = Lifted(untyped.version, untyped.lines)
            /\ UNCHANGED <<origin, edits, untyped, again, fault>>

(* RecordHeader::with_body.                                                *)
AttachBody ==
  /\ stage = "header"
  /\ LET faults == BodyFaults(record, untyped.body)
     IN  \/ faults # << >> /\ Refuse(faults)
         \/ /\ faults = << >>
            /\ stage' = "record"
            /\ record' = WithBody(record, untyped.body)
            /\ UNCHANGED <<origin, edits, untyped, again, fault>>

(* What a caller changes of a record it holds, all of its fields being     *)
(* open to it: the version, the block and its type, which digests it       *)
(* declares, what it keeps of the unrecognized fields.                     *)
Edited(r) ==
  /\ stage = "record" /\ edits < MaxEdits
  /\ record' = r /\ record' # record
  /\ edits' = edits + 1
  /\ UNCHANGED <<stage, origin, untyped, again, fault>>

EditVersion == \E v \in Versions : Edited([record EXCEPT !.version = v])

EditBody ==
  \E b \in Blocks, kind \in {"Raw", "Fields"}, declare \in BOOLEAN :
    /\ stage = "record"
    /\ kind = "Fields" => record.type \in {"warcinfo", "metadata"} /\ b \in ReadsAsFields
    /\ Edited([record EXCEPT !.body = b, !.kind = kind,
                             !.fields["ContentLength"] = IF declare THEN @ ELSE << >>])

EditType ==
  \E type \in {<< >>, <<"http">>, <<"warc-fields">>} :
    stage = "record" /\ Edited([record EXCEPT !.fields["ContentType"] = type])

EditDigests == stage = "record" /\ Edited([record EXCEPT !.fields["BlockDigest"] = << >>])

EditUnrecognized ==
  \E line \in {<<"X-Kept", "more">>, <<"X-Kept", Padded>>, <<"X-Claimed", "more">>,
               <<"X-Kept", LineBreak>>, <<"not a token", "text">>, <<"Filename", Misquoted>>,
               <<"Date", <<"day", "second">>>>, <<"RefersToDate", <<"day", "second">>>>,
               <<"TargetURI", IllFormed>>} :
    stage = "record" /\ Edited([record EXCEPT !.unrecognized = Append(@, line)])

(* into_raw and into_raw_with_digests_in.                                  *)
Render ==
  /\ stage = "record"
  /\ \E added \in {<< >>, <<"sha1">>, <<"md5">>} :
       LET faults == Rendering(record, added)
       IN  \/ faults # << >> /\ Refuse(faults)
           \/ /\ faults = << >>
              /\ stage' = "written"
              /\ untyped' = IntoRaw(record, added)
              /\ record' = Settled(record, added)
              /\ UNCHANGED <<origin, edits, again, fault>>

(* A value whose form is not its field's is refused as its line is read.   *)
ReadValueFaults(lines) ==
  FirstFault("MalformedValue", FirstLine(lines, LAMBDA i : lines[i] = <<"Filename", Misquoted>>))

(* Record::try_from of what was written, once its lines are read.          *)
ReadBack ==
  /\ stage = "written"
  /\ LET lifted == Lifted(untyped.version, untyped.lines)
         faults == ReadValueFaults(untyped.lines) \o LiftFaults(untyped.version, untyped.lines)
     IN  \/ faults # << >> /\ Refuse(<< <<"Again", Head(faults)>> >>)
         \/ faults = << >> /\ BodyFaults(lifted, untyped.body) # << >>
            /\ Refuse(<< <<"Again", BodyFaults(lifted, untyped.body)[1]>> >>)
         \/ /\ faults = << >> /\ BodyFaults(lifted, untyped.body) = << >>
            /\ stage' = "again"
            /\ again' = WithBody(lifted, untyped.body)
            /\ UNCHANGED <<origin, edits, untyped, record, fault>>

Edit == EditVersion \/ EditBody \/ EditType \/ EditDigests \/ EditUnrecognized

Convert == LiftHeader \/ AttachBody \/ Render \/ ReadBack
-----------------------------------------------------------------------------
InCanonicalOrder(lines) ==
  FlattenSeq([k \in DOMAIN FieldOrder |-> SelectSeq(lines, LAMBDA line : line[1] = FieldOrder[k])])
  \o SelectSeq(lines, LAMBDA line : line[1] \notin Field)

(* A record as its reader makes it: with the length its block has, no      *)
(* white space around a text nor quotes within that, what the extension    *)
(* claims of the fields that were kept, the standard ones an extension's   *)
(* record keeps in canonical order, and a block that is fields where its   *)
(* type says so and it is.                                                 *)
AsReaderHasIt(r) ==
  LET kept == TrimmedLines(InCanonicalOrder(r.other \o r.unrecognized))
  IN  [r EXCEPT !.fields = [f \in DOMAIN @ |->
                   IF f = "ContentLength" THEN <<BlockLength[r.body]>>
                   ELSE IF f \in TextFields THEN [i \in DOMAIN @[f] |-> TrimmedText(@[f][i])] ELSE @[f]],
                !.other = SelectSeq(kept, LAMBDA line : Claimed(r.type, line)),
                !.unrecognized = SelectSeq(kept, LAMBDA line : ~Claimed(r.type, line)),
                !.kind = IF DeclaresFields(r) /\ r.body \in ReadsAsFields THEN "Fields" ELSE "Raw"]

(* What is written is read back as the record it was written from, as a    *)
(* reader has it: no other value a caller put in a record makes it another *)
(* record, and two alone make it one that is refused, a name of a file     *)
(* that opens with a quote it does not close after white space, and a      *)
(* block that does not read as the fields its type says it is.             *)
(* (into_raw against try_from)                                             *)
RoundTrip ==
  /\ stage = "again" => again = AsReaderHasIt(record)
  /\ stage = "refused" /\ fault[1] = "Again" =>
       \/ fault[2] = <<"MalformedValue", "Filename">> /\ Held(record, "Filename") = <<Misquoted>>
       \/ /\ fault[2] = <<"Block", "Fields">>
          /\ edits > 0 /\ DeclaresFields(record) /\ record.kind = "Raw"
          /\ record.body \notin ReadsAsFields /\ ~IsTruncated(record)

(* A record that was read, and not changed since, is refused by rendering  *)
(* only for a digest that is wrong, a payload under a digest that cannot   *)
(* be read, or a revisit that does not say it holds the beginning of a     *)
(* response: all that the reader of a record is more lenient about.        *)
(* (the checks of lift.rs against those of render.rs)                      *)
ReadIsWritable ==
  (stage = "refused" /\ record # << >> /\ origin = "read" /\ edits = 0 /\ record.body # NoBlock) =>
    \/ fault[1] = "UnsupportedDigestAlgorithm"
    \/ fault[1] = "Block" /\ fault[2] \in {"Malformed", "Mismatch", "Payload",
                                           "UndeclaredRevisitTruncation"}

(* Every digest of a written record that this build can compute is the     *)
(* digest of what it covers, whoever declared it, as far as the payload is *)
(* known and the record is not a segment.                                  *)
(* (check_block_digest, check_payload_digest, into_raw_added)              *)
DigestsHold ==
  stage \in {"written", "again"} =>
    /\ \A d \in ToSet(record.fields["BlockDigest"]) : d[1] \in Supported => d[2] = record.body
    /\ \A d \in ToSet(Held(record, "PayloadDigest")) :
         (d[1] \in Supported /\ ~IsSegment(record) /\ PayloadBytes(record)[1] = "Ok")
           => d[2] = PayloadBytes(record)[2]

(* The identifier of a record the program has in hand is the one anyone    *)
(* derives from the file it is written to, or was read from: neither the   *)
(* version's brackets nor the digests added on the way make it another.    *)
(* (assign_record_id before the record is written, the linter and the id   *)
(* command after)                                                          *)
IdentitiesAgree ==
  LET asRead == IdentityAsRead(untyped.version, untyped.lines, untyped.body)
  IN  /\ (stage = "record" /\ origin = "read" /\ edits = 0) => IdentityOf(record) = asRead
      /\ stage = "written" => IdentityOf(record) = asRead
      /\ stage = "again" => IdentityOf(again) = asRead
=============================================================================
