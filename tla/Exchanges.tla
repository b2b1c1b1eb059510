------------------------------ MODULE Exchanges -----------------------------
(***************************************************************************)
(* The records the archiver makes of what it captured, and their writing   *)
(* (client/warc_mapping.rs, warc_fields.rs, record_id.rs): an archive      *)
(* opens with a warcinfo record, and of each exchange a request, a         *)
(* response or the revisit that stands for it, and a metadata record are   *)
(* written.  A record is named by what it holds, so it gets its name once  *)
(* it is complete and before another refers to it.                         *)
(*                                                                         *)
(* When an exchange revisits, and what is known of earlier ones, is        *)
(* Collection's; here any earlier capture of the same payload may be       *)
(* referred to, or none.                                                   *)
(***************************************************************************)
EXTENDS Builders

CONSTANTS
  Captured,         \* the exchanges that are captured
  HttpsUris,        \* the URIs of scheme https
  HeadOf,           \* [responses -> what is left of each without its body]
  IdentifiedType,   \* [payloads -> the type each is identified as: a sequence of at most one]
  EmptyPayload,     \* the payload of no octets
  MaxExchanges      \* bound on the exchanges of an archive

VARIABLES
  archive,      \* the records written, as they are read
  queue,        \* the records of an exchange that are yet to be written
  target,       \* what the exchange will be to later ones: a sequence of at most one
  targets,      \* the responses later exchanges may refer to
  exchanges,    \* how many exchanges were taken
  closed,       \* whether an error ended the collection
  refusal       \* why a record was refused by rendering

exchangesVars == <<archive, queue, target, targets, exchanges, closed, refusal>>

(* assign_record_id.                                                       *)
Assigned(r) == Given(r, "RecordID", << <<IdentityOf(r), FALSE>> >>)

(* The fields of a warcinfo's block are known by the version it describes. *)
WarcinfoRecord(date) ==
  LET block == "describes 1.1"
      header == NewHeader("warcinfo", "1.1", <<"generated", FALSE>>, date, RequiredOf("warcinfo", "", "", 0))
  IN  Assigned([Given(header, "Filename", <<"file">>)
                  EXCEPT !.fields["ContentLength"] = <<BlockLength[block]>>, !.kind = "Fields", !.body = block])

(* Exchange::new.                                                          *)
PayloadDigestOf(c) ==
  IF Entity[c.response][1] = "Ok" THEN << <<"sha1", Entity[c.response][2]>> >> ELSE << >>

(* Exchange::revisit_key, of one that confirms no earlier capture.         *)
OwnKey(c) ==
  IF c.truncated = << >> /\ Entity[c.response] # <<"Ok", EmptyPayload>> THEN PayloadDigestOf(c) ELSE << >>

Protocols(c) ==
  (IF c.http = 1 THEN << >> ELSE IF c.targetUri[1] \in HttpsUris THEN <<"h2">> ELSE <<"h2c">>) \o c.tls

(* A revisit's digest is the original's, and its block the head alone.     *)
EventOf(c, warcinfoId, revisit) ==
  [ targetUri |-> c.targetUri, date |-> c.date, warcinfoId |-> <<warcinfoId>>, ipAddress |-> c.ipAddress,
    requestProtocols |-> Protocols(c), responseProtocols |-> Protocols(c), truncated |-> c.truncated,
    payloadDigest |-> IF revisit = << >> THEN PayloadDigestOf(c) ELSE <<revisit[1].original.digest>>,
    identified |-> IF Entity[c.response][1] = "Ok" THEN IdentifiedType[Entity[c.response][2]] ELSE << >>,
    fetchTime |-> FALSE, request |-> c.request,
    response |-> IF revisit = << >> THEN c.response ELSE HeadOf[c.response] ]

AnswerOf(event, revisit) ==
  IF revisit = << >> THEN ResponseRecord(event)
  ELSE RevisitRecord(event, revisit[1].profile, revisit[1].original)

(* Faulty: the answer is named before it is complete, as it is without its *)
(* block.                                                                  *)
CaptureRecordsEarly(c, warcinfoId, revisit) ==
  LET event == EventOf(c, warcinfoId, revisit)
      request == Assigned(RequestRecord(event))
      named == Assigned([AnswerOf(event, revisit) EXCEPT !.body = "empty"])
      answer == [Given(named, "ConcurrentTo", request.fields["RecordID"]) EXCEPT !.body = event.response]
      metadata == Assigned(Given(MetadataRecord(event), "ConcurrentTo", answer.fields["RecordID"]))
  IN  <<request, answer, metadata>>

CaptureRecords(c, warcinfoId, revisit) ==
  LET event == EventOf(c, warcinfoId, revisit)
      request == Assigned(RequestRecord(event))
      answer == Assigned(Given(AnswerOf(event, revisit), "ConcurrentTo", request.fields["RecordID"]))
      metadata == Assigned(Given(MetadataRecord(event), "ConcurrentTo", answer.fields["RecordID"]))
  IN  <<request, answer, metadata>>

(* What write_exchange returns, as far as record_exchanges keeps it.       *)
TargetOf(c, answer, revisit) ==
  IF revisit # << >> \/ OwnKey(c) = << >> THEN << >>
  ELSE <<[ recordId |-> answer.fields["RecordID"][1], targetUri |-> c.targetUri, date |-> c.date,
           identified |-> answer.fields["IdentifiedPayloadType"], digest |-> OwnKey(c)[1] ]>>

(* A 304 that confirms an earlier capture revisits it, whatever it is of;  *)
(* another exchange may revisit one of its own payload.                    *)
Revisits(c) ==
  {<< >>}
  \cup {<<[profile |-> <<"unmodified/1.1", FALSE>>, original |-> t]>> : t \in {o \in targets : c.status = 304}}
  \cup {<<[profile |-> <<"identical/1.1", FALSE>>, original |-> t]>> :
          t \in {o \in targets : OwnKey(c) = <<o.digest>>}}
-----------------------------------------------------------------------------
ExchangesInit ==
  /\ archive = << >> /\ queue = << >> /\ target = << >> /\ targets = {}
  /\ exchanges = 0 /\ closed = FALSE /\ refusal = << >>

(* Collection::new: a value that no field can hold, or a record that is not *)
(* written, leaves no collection.                                          *)
OpenArchive ==
  /\ archive = << >> /\ ~closed
  /\ \/ \E c \in Captured :
          LET faults == Rendering(WarcinfoRecord(c.date), <<"sha1">>)
          IN  /\ refusal' = faults
              /\ closed' = (faults # << >>)
              /\ archive' = IF faults = << >> THEN <<IntoRaw(WarcinfoRecord(c.date), <<"sha1">>)>> ELSE archive
     \/ closed' = TRUE /\ UNCHANGED <<archive, refusal>>
  /\ UNCHANGED <<queue, target, targets, exchanges>>

RecordExchange ==
  /\ archive # << >> /\ queue = << >> /\ ~closed /\ exchanges < MaxExchanges
  /\ exchanges' = exchanges + 1
  /\ \E c \in Captured :
       \/ /\ c.title # LineBreak
          /\ \E revisit \in Revisits(c) :
               LET records == CaptureRecords(c, ValuesOf(archive[1].lines, "RecordID")[1], revisit)
               IN  queue' = records /\ target' = TargetOf(c, records[2], revisit)
          /\ UNCHANGED closed
       \/ /\ c.title = LineBreak
          /\ closed' = TRUE
          /\ UNCHANGED <<queue, target>>
  /\ UNCHANGED <<archive, targets, refusal>>

Abandon(faults) ==
  /\ closed' = TRUE /\ queue' = << >> /\ target' = << >>
  /\ refusal' = faults
  /\ UNCHANGED <<archive, targets, exchanges>>

(* RecordWriter::write, with the configured digests.                       *)
WriteQueued ==
  /\ queue # << >>
  /\ LET written_ == Head(queue)
         faults == Rendering(written_, <<"sha1">>)
     IN  IF faults # << >> THEN Abandon(faults)
         ELSE /\ archive' = Append(archive, IntoRaw(written_, <<"sha1">>))
              /\ queue' = Tail(queue)
              /\ IF queue' = << >> THEN targets' = targets \cup ToSet(target) /\ target' = << >>
                                   ELSE UNCHANGED <<targets, target>>
              /\ UNCHANGED <<exchanges, closed, refusal>>

(* The spool cannot be written to: what was written of an exchange stays.  *)
SpoolFails == queue # << >> /\ Abandon(<< >>)

ExchangesNext == OpenArchive \/ RecordExchange \/ WriteQueued \/ SpoolFails
-----------------------------------------------------------------------------
Value(written, f) == ValuesOf(written.lines, f)[1]
Said(written, f) == {v[1] : v \in ToSet(ValuesOf(written.lines, f))}

IsResponseOf(written, id, date, uri, digest) ==
  /\ Value(written, "WarcType") = "response" /\ Value(written, "RecordID")[1] = id
  /\ Value(written, "Date") = date /\ Value(written, "TargetURI")[1] = uri
  /\ Value(written, "PayloadDigest") = digest

AreOfOneExchange(one, later) ==
  /\ Value(one, "Date") = Value(later, "Date") /\ Value(one, "TargetURI") = Value(later, "TargetURI")
  /\ IF Value(later, "WarcType") = "metadata"
     THEN Value(one, "WarcType") \in {"response", "revisit"} ELSE Value(one, "WarcType") = "request"

(* In every archive, wherever its writing ends: each record has the name   *)
(* that is derived from it as it is read; each name in it is that of a     *)
(* record before it, the one that is meant; and a later collection is told *)
(* only of responses it will find there under what it is told.  No record  *)
(* is refused by rendering, so an exchange is never cut short but by the   *)
(* spool.  (capture_records, write_exchange, assign_record_id)             *)
ExchangesLinked ==
  /\ refusal = << >>
  /\ \A i \in DOMAIN archive :
       LET written == archive[i]
           earlier == {archive[j] : j \in 1..(i - 1)}
       IN  /\ Said(written, "RecordID") = {IdentityAsRead(written.version, written.lines, written.body)}
           /\ i > 1 => Said(written, "WarcinfoID") = Said(archive[1], "RecordID")
           /\ \A id \in Said(written, "ConcurrentTo") :
                \E one \in earlier : Value(one, "RecordID")[1] = id /\ AreOfOneExchange(one, written)
           /\ Value(written, "WarcType") = "revisit" =>
                \E one \in earlier :
                  IsResponseOf(one, Value(written, "RefersTo")[1], Value(written, "RefersToDate"),
                               Value(written, "RefersToTargetURI")[1], Value(written, "PayloadDigest"))
  /\ \A t \in targets :
       \E i \in DOMAIN archive :
         IsResponseOf(archive[i], t.recordId[1], t.date, t.targetUri[1], t.digest)
=============================================================================
