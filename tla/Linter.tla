------------------------------- MODULE Linter -------------------------------
(***************************************************************************)
(* The lint pass (crates/archivindex-warc-linter/src/lint): an iterator    *)
(* that reads the records of a file once, checks each against the rules as *)
(* it is read, and yields for every record either its identifier or the    *)
(* rules it breaks.  Some rules are settled only by the record after, so a *)
(* record that has broken none is held back until then; a record that      *)
(* cannot be read is yielded as an error and forgives what waited on it.   *)
(*                                                                         *)
(* A record is what the rules tell apart of it: its type, identifier,      *)
(* date, references and targets, and for the rules that look at it alone,  *)
(* which case of the rule it is.  Positions count from 1, where the code   *)
(* counts from 0; the identifiers the pass remembers of the record last    *)
(* read are represented by its position.                                   *)
(***************************************************************************)
EXTENDS Naturals, SequencesExt

CONSTANTS
    Files,      \* sets of files a pass may be given, with the rules added to it
    Content,    \* what the records of those files hold, by the name of a record
    None,       \* stands for an absent field
    Http,       \* the target URIs under the schemes http and https
    HostOf,     \* the host of each target URI, or None
    RequireIds  \* require_archivindex_ids: a UUID does not do

\* What a file gives for a record: whether it reads, the record, whether it
\* begins a gzip member, the members its octets lie in, and the blank lines
\* before it.
Items ==
    [kind : {"record", "refused", "failure"}, record : DOMAIN Content,
     begins : BOOLEAN, members : Nat \ {0}, padding : Nat]

Inputs ==
    [items : Seq(Items), gzip : BOOLEAN, trailing : Nat, broken : SUBSET Nat,
     reach : Nat, summary : BOOLEAN]

ASSUME FilesAssumption ==
    \A kind \in DOMAIN Files : \A f \in Files[kind] : f \in Inputs

\* An absent value is not one of those that may be remembered.
ASSUME NoneAssumption ==
    /\ None \notin [index : Nat, date : {Content[n].date : n \in DOMAIN Content}]
    /\ None \notin [slot : {"Response", "Metadata"}, index : Nat,
                    id : {Content[n].id : n \in DOMAIN Content},
                    target : {Content[n].target : n \in DOMAIN Content}]

VARIABLES
    input,          \* the file, and what the rules added to the pass report
    index,          \* the number of records consumed
    memberFirst,    \* the first record of the gzip member being read
    lastRecord,     \* the record read last, if it read; 0 otherwise
    recordIds,      \* the first position of every identifier used
    previousDate,   \* the position and date of the last record that read
    warcinfoId,     \* the identifier of the most recent warcinfo record
    collectionHost, \* the host of the collection it names
    pending,        \* what the next record of a capture must name and repeat
    clean,          \* the preceding record, held while it may be faulted
    queue,          \* results not yet yielded
    deferred,       \* the position of a read error to yield after them
    finished,       \* the end of the file has been settled
    yielded,        \* what the caller has been given
    exhausted       \* the caller has been given None

stateVars == <<memberFirst, lastRecord, recordIds, previousDate, warcinfoId,
               collectionHost, pending>>
vars == <<input, index, stateVars, clean, queue, deferred, finished, yielded,
          exhausted>>

Captures == {"response", "revisit"}

\* A result: of a record that breaks no rule, of a rule a record breaks, naming
\* another record where the rule does, or of a record that cannot be read.
\* A finding against the whole file has position 0.
Ok(i) == [position |-> i, rule |-> "Ok", other |-> 0]
Error(i) == [position |-> i, rule |-> "Error", other |-> 0]
Fault(i, rule) == [position |-> i, rule |-> rule, other |-> 0]
FaultNaming(i, rule, j) == [position |-> i, rule |-> rule, other |-> j]

When(condition, result) == IF condition THEN <<result>> ELSE <<>>

Item == input.items[index + 1]
Held == Content[Item.record]
MoreItems == index < Len(input.items)

-----------------------------------------------------------------------------
(* Rules that look at one record alone.                                    *)

HasHttpTarget(r) == r.target \in Http

\* The media type a record's type calls for.
ExpectedContentType(r) ==
    CASE r.type \in {"warcinfo", "metadata"} -> "warc-fields"
      [] r.type = "request" /\ HasHttpTarget(r) -> "request"
      [] r.type \in Captures /\ HasHttpTarget(r) -> "response"
      [] OTHER -> None

BlockFaults(i, r) ==
    IF r.content = None
    THEN When(~r.empty /\ r.type # "continuation", Fault(i, "MissingContentType"))
    ELSE When(ExpectedContentType(r) \notin {None, r.content},
              Fault(i, "WrongContentType"))

\* Whether the block determines a payload: for an exchange, only if it claims
\* to hold an HTTP message.
HasPayload(r) ==
    \/ r.type \in {"resource", "conversion"}
    \/ /\ r.type \in {"request", "response"}
       /\ HasHttpTarget(r)
       /\ r.content \in {None, "request", "response"}

DigestFaults(i, r) ==
    When(r.blockDigest = None, Fault(i, "MissingBlockDigest"))
    \o When(HasPayload(r) /\ r.payloadDigest = None,
            Fault(i, "MissingPayloadDigest"))
    \o When(r.blockDigest = "mismatch", Fault(i, "BlockDigestMismatch"))
    \o When(r.blockDigest = "malformed", Fault(i, "MalformedDigest"))
    \o When(r.payloadDigest = "mismatch", Fault(i, "PayloadDigestMismatch"))
    \o When(r.payloadDigest = "malformed", Fault(i, "MalformedDigest"))
    \o When(r.payloadDigest = "unreadable", Fault(i, "UnreadablePayload"))

\* r.scheme is the form of the identifier, r.derived what the identity scheme
\* derives from the record: the identifier itself, another, or nothing.
IdentityFaults(i, r) ==
    IF RequireIds \/ r.scheme = "archivindex"
    THEN When(r.derived = "other", Fault(i, "RecordIdMismatch"))
         \o When(r.derived = None, Fault(i, "UnderivableRecordId"))
    ELSE When(r.scheme # "uuid", Fault(i, "UnrecognizedRecordId"))

\* A warcinfo record names its collection, and lies in the file named for it.
CollectionFaults(i, r) ==
    IF r.collection = None
    THEN <<Fault(i, "MissingCollectionId")>>
    ELSE When(r.collection = "malformed", Fault(i, "MalformedCollectionId"))
         \o When(~r.named, Fault(i, "WrongFilename"))

CollectionHost(r) == IF r.collection = "malformed" THEN None ELSE r.collection

\* A revisit declares the truncation its block is, and carries every field
\* that refers to its original.
RevisitFaults(i, r) ==
    When(~r.empty /\ r.profile = "identical-payload-digest" /\ ~r.truncated,
         Fault(i, "UndeclaredRevisitTruncation"))
    \o When(r.refersTo = None \/ r.refersPartly, Fault(i, "MissingRefersToFields"))

-----------------------------------------------------------------------------
(* Rules that relate a record to those before it.                          *)

\* The reader finds the first record of a file at the start of a member.
Begins(f, i) == i = 1 \/ f.items[i].begins

\* Faulty: a record that begins inside a member never begins the next one's.
MemberFirstOfBegun(item) ==
    IF input.gzip /\ Begins(input, index + 1) THEN index + 1 ELSE memberFirst

\* framing: a record whose octets are split ends the member the record after
\* it begins in, so that member holds it first.
MemberFirst(item) ==
    IF input.gzip /\ (Begins(input, index + 1) \/ item.members > 1)
    THEN index + 1
    ELSE memberFirst

FramingFaults(i, item) ==
    When(input.gzip /\ ~Begins(input, i), FaultNaming(i, "SharedGzipMember", memberFirst))
    \o When(input.gzip /\ item.members > 1, Fault(i, "SplitGzipMember"))
    \o When(item.padding > 0, Fault(i, "BlankLinesBefore"))

HeaderFaults(i, r) ==
    When(~r.ordered, Fault(i, "NonCanonicalHeaderOrder"))
    \o When(r.id \in DOMAIN recordIds,
            FaultNaming(i, "DuplicateRecordId", recordIds[r.id]))
    \o When(previousDate # None /\ r.date < previousDate.date,
            FaultNaming(i, "DateOutOfOrder", previousDate.index))

\* The identifiers used once record i is checked: the first use is remembered.
RecordIds(i, r) ==
    [id \in DOMAIN recordIds \cup {r.id} |->
        IF id \in DOMAIN recordIds THEN recordIds[id] ELSE i]

\* The host a request is held to is that of the warcinfo record before it.
WarcinfoFaults(i, r) ==
    When(i = 1 /\ r.type # "warcinfo", Fault(i, "FirstRecordNotWarcinfo"))
    \o (IF r.type = "warcinfo"
        THEN CollectionFaults(i, r)
        ELSE When(r.warcinfo = None, Fault(i, "MissingWarcinfoId"))
             \o When(r.warcinfo \notin {None, warcinfoId},
                     Fault(i, "WrongWarcinfoId")))
    \o When(/\ r.type = "request"
            /\ collectionHost # None
            /\ HostOf[r.target] # collectionHost, Fault(i, "WrongRequestHost"))

\* The record is in this file and precedes the revisit; recordIds already
\* holds the revisit itself.
ReferenceFaults(i, r, ids) ==
    When(/\ r.refersTo # None
         /\ r.refersTo \in DOMAIN ids => ids[r.refersTo] >= i,
         Fault(i, "RefersToUnknownRecord"))

-----------------------------------------------------------------------------
(* Captures: a request, its response or revisit, and its metadata, in      *)
(* consecutive records.                                                    *)

Accepts(slot, r) ==
    IF slot = "Response" THEN r.type \in Captures ELSE r.type = "metadata"

Unmet(slot) ==
    IF slot = "Response" THEN "RequestWithoutResponse" ELSE "ResponseWithoutMetadata"

\* settle: the expectation of the record before, or the finding that the record
\* just read does not meet it.
Expected(r) ==
    IF pending # None /\ Accepts(pending.slot, r) THEN pending ELSE None

SettleFaults(r) ==
    When(pending # None /\ Expected(r) = None,
         Fault(pending.index, Unmet(pending.slot)))

NoLinkFaults(i, r) ==
    When(r.concurrent # <<>>, Fault(i, "UnexpectedConcurrentTo"))

LinkFaults(i, r, expected) ==
    When(r.concurrent # <<expected.id>>, Fault(i, "WrongConcurrentTo"))
    \o When(r.target # expected.target, Fault(i, "WrongTargetUri"))

CaptureFaults(i, r, expected) ==
    CASE r.type \in Captures ->
            IF expected = None
            THEN <<Fault(i, "ResponseWithoutRequest")>>
            ELSE LinkFaults(i, r, expected)
      [] r.type = "metadata" /\ expected # None ->
            LinkFaults(i, r, expected)
            \o When(~r.fetchTime, Fault(i, "MissingFetchTime"))
      [] OTHER -> NoLinkFaults(i, r)

\* What the record after this one must name and repeat.
Awaited(i, r, expected) ==
    IF r.type = "request"
    THEN [slot |-> "Response", index |-> i, id |-> r.id, target |-> r.target]
    ELSE IF r.type \in Captures /\ expected # None
    THEN [slot |-> "Metadata", index |-> i, id |-> r.id, target |-> expected.target]
    ELSE None

-----------------------------------------------------------------------------
(* The pass.                                                               *)

Init ==
    /\ \E kind \in DOMAIN Files : input \in Files[kind]
    /\ \A i \in 1 .. Len(input.items) - 1 : input.items[i].kind # "failure"
    /\ index = 0
    /\ memberFirst = 1
    /\ lastRecord = 0
    /\ recordIds = <<>>
    /\ previousDate = None
    /\ warcinfoId = None
    /\ collectionHost = None
    /\ pending = None
    /\ clean = 0
    /\ queue = <<>>
    /\ deferred = 0
    /\ finished = FALSE
    /\ yielded = <<>>
    /\ exhausted = FALSE

\* An added rule reports about the record it is shown, or, with a reach, about
\* an earlier one.
RuleFaults(f, i) ==
    When(i \in f.broken /\ i > f.reach, Fault(i - f.reach, "Custom"))

\* Everything the rules find as record i is checked, in the order they run.
Checked(i, item, expected) ==
    LET r == Content[item.record]
    IN  FramingFaults(i, item) \o HeaderFaults(i, r) \o BlockFaults(i, r)
        \o DigestFaults(i, r) \o IdentityFaults(i, r) \o WarcinfoFaults(i, r)
        \o CaptureFaults(i, r, expected)
        \o (IF r.type = "revisit"
            THEN RevisitFaults(i, r) \o ReferenceFaults(i, r, RecordIds(i, r))
            ELSE <<>>)
        \o RuleFaults(input, i)

\* Results go out only through the queue, and reading waits for them.
Idle == queue = <<>> /\ deferred = 0 /\ ~exhausted

\* Faulty: the record held is released before the next one is looked at.
SettledEarly(faults) ==
    IF clean # 0 THEN <<Ok(clean)>> \o faults ELSE faults

\* settle_clean: the record held is clean unless a finding was queued with it.
Settled(faults) ==
    IF faults = <<>> /\ clean # 0 THEN <<Ok(clean)>> ELSE faults

\* The next record reads, and is checked.
Check ==
    /\ Idle
    /\ MoreItems
    /\ Item.kind = "record"
    /\ LET i == index + 1
           r == Held
           expected == Expected(r)
           faults == Checked(i, Item, expected)
       IN  /\ index' = i
           /\ memberFirst' = MemberFirst(Item)
           /\ lastRecord' = i
           /\ recordIds' = RecordIds(i, r)
           /\ previousDate' = [index |-> i, date |-> r.date]
           /\ IF r.type = "warcinfo"
              THEN warcinfoId' = r.id /\ collectionHost' = CollectionHost(r)
              ELSE UNCHANGED <<warcinfoId, collectionHost>>
           /\ pending' = Awaited(i, r, expected)
           /\ queue' = Settled(SettleFaults(r)) \o faults
           /\ clean' = IF faults = <<>> THEN i ELSE 0
    /\ UNCHANGED <<input, deferred, finished, yielded, exhausted>>

\* The next record cannot be read: it is refused by the record layer, or the
\* stream failed in it and ends there.  It takes a position, and what waited on
\* it is forgotten without a finding.
Skip ==
    /\ Idle
    /\ MoreItems
    /\ Item.kind # "record"
    /\ index' = index + 1
    /\ memberFirst' = MemberFirst(Item)
    /\ lastRecord' = 0
    /\ pending' = None
    /\ clean' = 0
    /\ queue' = Settled(<<>>)
    /\ deferred' = index + 1
    /\ UNCHANGED <<input, recordIds, previousDate, warcinfoId, collectionHost,
                   finished, yielded, exhausted>>

\* Blank lines end the file: known only where the input ended cleanly.
TrailingFaults ==
    When(/\ lastRecord # 0
         /\ input.trailing > 0
         /\ Last(input.items).kind # "failure",
         Fault(lastRecord, "TrailingBlankLines"))

PendingFaults ==
    When(pending # None, Fault(pending.index, Unmet(pending.slot)))

\* Faulty: nothing remembers that the end of the file is settled.
FinishUnmarked ==
    /\ Idle
    /\ ~MoreItems
    /\ ~finished
    /\ pending' = None
    /\ lastRecord' = 0
    /\ clean' = 0
    /\ queue' = Settled(PendingFaults \o TrailingFaults)
                \o When(input.summary, Fault(0, "Custom"))
    /\ UNCHANGED <<input, index, memberFirst, recordIds, previousDate,
                   warcinfoId, collectionHost, deferred, finished, yielded,
                   exhausted>>

\* The records have run out: the end of the file settles what waits on it, once.
Finish ==
    /\ Idle
    /\ ~MoreItems
    /\ ~finished
    /\ pending' = None
    /\ lastRecord' = 0
    /\ clean' = 0
    /\ queue' = Settled(PendingFaults \o TrailingFaults)
                \o When(input.summary, Fault(0, "Custom"))
    /\ finished' = TRUE
    /\ UNCHANGED <<input, index, memberFirst, recordIds, previousDate,
                   warcinfoId, collectionHost, deferred, yielded, exhausted>>

\* The caller is given the next result.
Yield ==
    /\ queue # <<>>
    /\ yielded' = Append(yielded, Head(queue))
    /\ queue' = Tail(queue)
    /\ UNCHANGED <<input, index, stateVars, clean, deferred, finished, exhausted>>

\* The caller is given the read error, after the results queued before it.
YieldError ==
    /\ queue = <<>>
    /\ deferred # 0
    /\ yielded' = Append(yielded, Error(deferred))
    /\ deferred' = 0
    /\ UNCHANGED <<input, index, stateVars, clean, queue, finished, exhausted>>

\* The caller is given None.
Exhaust ==
    /\ Idle
    /\ ~MoreItems
    /\ finished
    /\ exhausted' = TRUE
    /\ UNCHANGED <<input, index, stateVars, clean, queue, deferred, finished,
                   yielded>>

\* A caller that polls on is given None again.
Terminated == exhausted /\ UNCHANGED vars

Next == Check \/ Skip \/ Finish \/ Yield \/ YieldError \/ Exhaust \/ Terminated

Spec == Init /\ [][Next]_vars

\* A caller takes every result, as a for loop or collect does.
FairSpec == Spec /\ WF_vars(Next)

-----------------------------------------------------------------------------
(* What a pass reports, as the rules are stated of a whole file            *)
(* (lib.rs of the crate): nothing here is remembered from record to record.*)

Positions(f) == 1 .. Len(f.items)
Reads(f, i) == f.items[i].kind = "record"
Record(f, i) == Content[f.items[i].record]
Before(f, i) == {j \in 1 .. (i - 1) : Reads(f, j)}

\* Consecutive records of a capture.
Answers(f, i) ==
    /\ i > 1 /\ Reads(f, i - 1) /\ Record(f, i - 1).type = "request"
    /\ Reads(f, i) /\ Record(f, i).type \in Captures
Describes(f, i) ==
    /\ i > 1 /\ Answers(f, i - 1)
    /\ Reads(f, i) /\ Record(f, i).type = "metadata"

\* The record at i is followed by one that reads, or by the end of the file.
Followed(f, i) == i < Len(f.items) => Reads(f, i + 1)

\* The members of the gzip file each record's octets lie in, first and last.
Members(f) ==
    LET span[i \in Positions(f)] ==
            LET item == f.items[i]
                last == IF i = 1 THEN 0 ELSE span[i - 1].last
                first == IF Begins(f, i) THEN last + 1 ELSE last
            IN  [first |-> first, last |-> first + item.members - 1]
    IN  span

\* The record that a gzip member holds first.
HeldFirst(f, member) == Min({j \in Positions(f) : Members(f)[j].last >= member})

MembershipReport(f, i) ==
    LET item == f.items[i]
    IN  When(f.gzip /\ HeldFirst(f, Members(f)[i].first) # i,
             FaultNaming(i, "SharedGzipMember", HeldFirst(f, Members(f)[i].first)))
        \o When(f.gzip /\ item.members > 1, Fault(i, "SplitGzipMember"))
        \o When(item.padding > 0, Fault(i, "BlankLinesBefore"))

HeaderReport(f, i) ==
    LET r == Record(f, i)
        same == {j \in Before(f, i) : Record(f, j).id = r.id}
    IN  When(~r.ordered, Fault(i, "NonCanonicalHeaderOrder"))
        \o When(same # {}, FaultNaming(i, "DuplicateRecordId", Min(same)))
        \o When(Before(f, i) # {} /\ r.date < Record(f, Max(Before(f, i))).date,
                FaultNaming(i, "DateOutOfOrder", Max(Before(f, i))))

\* The warcinfo records before i.
Infos(f, i) == {j \in Before(f, i) : Record(f, j).type = "warcinfo"}
CurrentWarcinfo(f, i) ==
    IF Infos(f, i) = {} THEN None ELSE Record(f, Max(Infos(f, i))).id
CurrentHost(f, i) ==
    IF Infos(f, i) = {} THEN None
    ELSE CollectionHost(Record(f, Max(Infos(f, i))))

WarcinfoReport(f, i) ==
    LET r == Record(f, i)
        current == CurrentWarcinfo(f, i)
        host == CurrentHost(f, i)
    IN  When(i = 1 /\ r.type # "warcinfo", Fault(i, "FirstRecordNotWarcinfo"))
        \o (IF r.type = "warcinfo" THEN CollectionFaults(i, r)
            ELSE When(r.warcinfo = None, Fault(i, "MissingWarcinfoId"))
                 \o When(r.warcinfo # None /\ r.warcinfo # current,
                         Fault(i, "WrongWarcinfoId")))
        \o When(/\ r.type = "request"
                /\ host # None
                /\ HostOf[r.target] # host, Fault(i, "WrongRequestHost"))

CaptureReport(f, i) ==
    LET r == Record(f, i)
        linked == Answers(f, i) \/ Describes(f, i)
        request == IF Answers(f, i) THEN i - 1 ELSE i - 2
    IN  When(r.type \in Captures /\ ~Answers(f, i), Fault(i, "ResponseWithoutRequest"))
        \o When(linked /\ r.concurrent # <<Record(f, i - 1).id>>,
                Fault(i, "WrongConcurrentTo"))
        \o When(linked /\ r.target # Record(f, request).target,
                Fault(i, "WrongTargetUri"))
        \o When(Describes(f, i) /\ ~r.fetchTime, Fault(i, "MissingFetchTime"))
        \o When(~linked /\ r.type \notin Captures /\ r.concurrent # <<>>,
                Fault(i, "UnexpectedConcurrentTo"))

RevisitReport(f, i) ==
    LET r == Record(f, i)
    IN  IF r.type # "revisit" THEN <<>>
        ELSE RevisitFaults(i, r)
             \o When(/\ r.refersTo # None
                     /\ \A j \in Before(f, i) : Record(f, j).id # r.refersTo,
                     Fault(i, "RefersToUnknownRecord"))

\* What only the record after it, or the end of the file, can tell of record i.
LateReport(f, i) ==
    When(Record(f, i).type = "request" /\ Followed(f, i)
         /\ ~(i < Len(f.items) /\ Answers(f, i + 1)),
         Fault(i, "RequestWithoutResponse"))
    \o When(Answers(f, i) /\ Followed(f, i)
            /\ ~(i < Len(f.items) /\ Describes(f, i + 1)),
            Fault(i, "ResponseWithoutMetadata"))
    \o When(i = Len(f.items) /\ f.trailing > 0,
            Fault(i, "TrailingBlankLines"))

\* What can be told of record i from it and the records before it.
EarlyReport(f, i) ==
    MembershipReport(f, i) \o HeaderReport(f, i) \o BlockFaults(i, Record(f, i))
    \o DigestFaults(i, Record(f, i)) \o IdentityFaults(i, Record(f, i))
    \o WarcinfoReport(f, i) \o CaptureReport(f, i) \o RevisitReport(f, i)
    \o RuleFaults(f, i)

RecordReport(f, i) ==
    LET faults == EarlyReport(f, i) \o LateReport(f, i)
    IN  IF ~Reads(f, i) THEN <<Error(i)>>
        ELSE IF faults = <<>> THEN <<Ok(i)>> ELSE faults

\* The reports on the first n records, for every n.
Reports(f) ==
    LET upTo[n \in 0 .. Len(f.items)] ==
            IF n = 0 THEN <<>> ELSE upTo[n - 1] \o RecordReport(f, n)
    IN  upTo

Report(f) ==
    Reports(f)[Len(f.items)] \o When(f.summary, Fault(0, "Custom"))

-----------------------------------------------------------------------------
(* Properties.                                                             *)

\* What a pass yields record by record is what the rules say of the whole file:
\* every record that reads is reported once, in order, by its identifier if it
\* breaks no rule and by every rule it breaks otherwise, naming the right other
\* record, whatever was refused before it or follows it.
ReportExact == exhausted => yielded = Report(input)

\* "A record any rule faults is not reported clean, whichever record was being
\* checked" (rule.rs).
FaultedNotClean ==
    \A m, n \in DOMAIN yielded :
        /\ yielded[m].position = yielded[n].position
        /\ yielded[m].rule = "Ok"
        => yielded[n].rule = "Ok"

\* A caller that takes every result comes to the end of them, though the added
\* rules report at the end of the file and an iterator may be polled past it.
Termination == <>exhausted

-----------------------------------------------------------------------------
(* The inductive invariant behind FaultedNotClean, where added rules       *)
(* report about the record they are shown (LinterProofs proves it).        *)

Rules ==
    {"BlankLinesBefore", "BlockDigestMismatch", "Custom", "DateOutOfOrder",
     "DuplicateRecordId", "FirstRecordNotWarcinfo", "MalformedCollectionId",
     "MalformedDigest", "MissingBlockDigest", "MissingCollectionId",
     "MissingContentType", "MissingFetchTime", "MissingPayloadDigest",
     "MissingRefersToFields", "MissingWarcinfoId", "NonCanonicalHeaderOrder",
     "PayloadDigestMismatch", "RecordIdMismatch", "RefersToUnknownRecord",
     "RequestWithoutResponse", "ResponseWithoutMetadata",
     "ResponseWithoutRequest", "SharedGzipMember", "SplitGzipMember",
     "TrailingBlankLines", "UndeclaredRevisitTruncation",
     "UnderivableRecordId", "UnexpectedConcurrentTo", "UnreadablePayload",
     "UnrecognizedRecordId", "WrongConcurrentTo", "WrongContentType",
     "WrongFilename", "WrongRequestHost", "WrongTargetUri", "WrongWarcinfoId"}

Results == [position : Nat, rule : Rules \cup {"Ok", "Error"}, other : Nat]

\* The results a pass has come to, whether the caller has them or not.
Reached == ToSet(yielded) \cup ToSet(queue)

TypeOK ==
    /\ index \in Nat
    /\ memberFirst \in Nat
    /\ lastRecord \in {0, index}
    /\ recordIds \in [DOMAIN recordIds -> Nat]
    /\ previousDate # None => previousDate.index \in Nat
    /\ clean \in {0, index}
    /\ queue \in Seq(Results)
    /\ deferred \in {0, index}
    /\ finished \in BOOLEAN
    /\ yielded \in Seq(Results)

\* Nothing has been reported of a record not yet read, nor of the one held.
HeldUnreported ==
    /\ \A x \in Reached : x.position <= index
    /\ clean # 0 => \A x \in Reached : x.position # clean

\* Only the record read last is waited on, and only until something follows it.
AwaitedIsLast ==
    /\ pending # None => pending.index = index /\ index # 0
    /\ deferred # 0 => pending = None /\ clean = 0 /\ lastRecord = 0

\* A record is reported clean once another has been read or the end settled.
CleanIsSettled ==
    \A x \in Reached :
        x.rule = "Ok" => x.position # 0 /\ (x.position < index \/ finished)

\* Nothing waits on the end of a file once it has been settled.
EndIsSettled ==
    finished => /\ ~MoreItems
                /\ pending = None
                /\ clean = 0
                /\ lastRecord = 0
                /\ deferred = 0

\* No result about a record contradicts that it is clean.
Unmixed ==
    \A x, y \in Reached :
        x.position = y.position /\ x.rule = "Ok" => y.rule = "Ok"

IInv ==
    /\ TypeOK
    /\ HeldUnreported
    /\ AwaitedIsLast
    /\ CleanIsSettled
    /\ EndIsSettled
    /\ Unmixed

-----------------------------------------------------------------------------
(* The inductive invariant behind ReportExact: what the pass remembers is  *)
(* what the rules look up in the file (LinterProofs proves it).            *)

Scanned == Before(input, index + 1)

ScanTypeOK ==
    /\ input \in Inputs
    /\ index \in 0 .. Len(input.items)
    /\ queue \in Seq(Results)
    /\ deferred \in Nat
    /\ finished \in BOOLEAN
    /\ yielded \in Seq(Results)

IdsRemembered ==
    /\ DOMAIN recordIds = {Record(input, j).id : j \in Scanned}
    /\ \A id \in DOMAIN recordIds :
          recordIds[id] = Min({j \in Scanned : Record(input, j).id = id})

DateRemembered ==
    previousDate =
        IF Scanned = {} THEN None
        ELSE [index |-> Max(Scanned), date |-> Record(input, Max(Scanned)).date]

CollectionRemembered ==
    /\ warcinfoId = CurrentWarcinfo(input, index + 1)
    /\ collectionHost = CurrentHost(input, index + 1)

MemberRemembered ==
    index > 0 /\ input.gzip =>
        memberFirst = HeldFirst(input, Members(input)[index].last)

\* What the record after record i of f must name and repeat.
AwaitedAfter(f, i) ==
    IF Record(f, i).type = "request"
    THEN [slot |-> "Response", index |-> i, id |-> Record(f, i).id,
          target |-> Record(f, i).target]
    ELSE IF Answers(f, i)
    THEN [slot |-> "Metadata", index |-> i, id |-> Record(f, i).id,
          target |-> Record(f, i - 1).target]
    ELSE None

\* The record read last, while the record after it may still fault it.
LastRemembered ==
    LET current == index > 0 /\ Reads(input, index) /\ ~finished
    IN  /\ lastRecord = IF current THEN index ELSE 0
        /\ pending = IF current THEN AwaitedAfter(input, index) ELSE None
        /\ clean = IF current /\ EarlyReport(input, index) = <<>> THEN index ELSE 0

\* What can be told of the records consumed.
ToldSoFar ==
    IF finished THEN Report(input)
    ELSE IF index = 0 THEN <<>>
    ELSE Reports(input)[index - 1]
         \o IF Reads(input, index) THEN EarlyReport(input, index) ELSE <<Error(index)>>

\* It has been yielded, or will be before another record is read.
Told ==
    /\ yielded \o queue \o When(deferred # 0, Error(deferred)) = ToldSoFar
    /\ finished => index = Len(input.items)
    /\ exhausted => finished /\ queue = <<>> /\ deferred = 0

ScanInv ==
    /\ ScanTypeOK
    /\ IdsRemembered
    /\ DateRemembered
    /\ CollectionRemembered
    /\ MemberRemembered
    /\ LastRemembered
    /\ Told

=============================================================================
