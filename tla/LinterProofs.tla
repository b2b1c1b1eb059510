---------------------------- MODULE LinterProofs ----------------------------
(* Theorems about Linter, for any files and any records.                   *)
EXTENDS Linter, SequenceTheorems, WellFoundedInduction, TLAPS

\* Findings about the record at i.
Findings(i) == [position : {i}, rule : Rules, other : Nat]

-----------------------------------------------------------------------------
(* Results and the findings of the rules.                                  *)

LEMMA FaultIsFinding ==
  ASSUME NEW i \in Nat, NEW rule \in Rules
  PROVE  Fault(i, rule) \in Findings(i)
BY DEF Fault, Findings

LEMMA FaultNamingIsFinding ==
  ASSUME NEW i \in Nat, NEW rule \in Rules, NEW j \in Nat
  PROVE  FaultNaming(i, rule, j) \in Findings(i)
BY DEF FaultNaming, Findings

LEMMA FindingsAreResults ==
  ASSUME NEW i \in Nat, NEW x \in Findings(i)
  PROVE  x \in Results /\ x.position = i /\ x.rule # "Ok"
<1>1. "Ok" \notin Rules
  BY DEF Rules
<1>2. QED
  BY <1>1 DEF Findings, Results

LEMMA WhenSeq ==
  ASSUME NEW S, NEW x \in S, NEW c
  PROVE  When(c, x) \in Seq(S)
<1>1. <<x>> \in Seq(S) /\ <<>> \in Seq(S)
  OBVIOUS
<1>2. QED
  BY <1>1, Zenon DEF When

LEMMA Concat2 ==
  ASSUME NEW S, NEW s \in Seq(S), NEW t \in Seq(S)
  PROVE  s \o t \in Seq(S)
BY ConcatProperties


LEMMA WhenFinding ==
  ASSUME NEW i \in Nat, NEW rule \in Rules, NEW c
  PROVE  When(c, Fault(i, rule)) \in Seq(Findings(i))
BY FaultIsFinding, WhenSeq

\* A finding that names another record names one where there is one to name.
LEMMA WhenNamingFinding ==
  ASSUME NEW i \in Nat, NEW rule \in Rules, NEW j, NEW c, c => j \in Nat
  PROVE  When(c, FaultNaming(i, rule, j)) \in Seq(Findings(i))
<1>1. CASE c
  <2>1. FaultNaming(i, rule, j) \in Findings(i)
    BY <1>1, FaultNamingIsFinding
  <2>2. QED
    BY <2>1, WhenSeq
<1>2. CASE ~c
  BY <1>2 DEF When
<1>3. QED
  BY <1>1, <1>2

LEMMA BlockFindings ==
  ASSUME NEW i \in Nat, NEW r
  PROVE  BlockFaults(i, r) \in Seq(Findings(i))
<1>1. {"MissingContentType", "WrongContentType"} \subseteq Rules
  BY DEF Rules
<1>2. /\ When(~r.empty /\ r.type # "continuation",
              Fault(i, "MissingContentType")) \in Seq(Findings(i))
      /\ When(ExpectedContentType(r) \notin {None, r.content},
              Fault(i, "WrongContentType")) \in Seq(Findings(i))
  BY <1>1, WhenFinding
<1>3. QED
  BY <1>2 DEF BlockFaults

LEMMA DigestFindings ==
  ASSUME NEW i \in Nat, NEW r
  PROVE  DigestFaults(i, r) \in Seq(Findings(i))
<1>1. {"MissingBlockDigest", "MissingPayloadDigest", "BlockDigestMismatch",
       "MalformedDigest", "PayloadDigestMismatch",
       "UnreadablePayload"} \subseteq Rules
  BY DEF Rules
<1>2. /\ When(r.blockDigest = None,
              Fault(i, "MissingBlockDigest")) \in Seq(Findings(i))
      /\ When(HasPayload(r) /\ r.payloadDigest = None,
              Fault(i, "MissingPayloadDigest")) \in Seq(Findings(i))
      /\ When(r.blockDigest = "mismatch",
              Fault(i, "BlockDigestMismatch")) \in Seq(Findings(i))
      /\ When(r.blockDigest = "malformed",
              Fault(i, "MalformedDigest")) \in Seq(Findings(i))
      /\ When(r.payloadDigest = "mismatch",
              Fault(i, "PayloadDigestMismatch")) \in Seq(Findings(i))
      /\ When(r.payloadDigest = "malformed",
              Fault(i, "MalformedDigest")) \in Seq(Findings(i))
      /\ When(r.payloadDigest = "unreadable",
              Fault(i, "UnreadablePayload")) \in Seq(Findings(i))
  BY <1>1, WhenFinding
<1>3. QED
  BY <1>2, Concat2 DEF DigestFaults

LEMMA IdentityFindings ==
  ASSUME NEW i \in Nat, NEW r
  PROVE  IdentityFaults(i, r) \in Seq(Findings(i))
<1>1. {"RecordIdMismatch", "UnderivableRecordId",
       "UnrecognizedRecordId"} \subseteq Rules
  BY DEF Rules
<1>2. /\ When(r.derived = "other",
              Fault(i, "RecordIdMismatch")) \in Seq(Findings(i))
      /\ When(r.derived = None,
              Fault(i, "UnderivableRecordId")) \in Seq(Findings(i))
      /\ When(r.scheme # "uuid",
              Fault(i, "UnrecognizedRecordId")) \in Seq(Findings(i))
  BY <1>1, WhenFinding
<1>3. QED
  BY <1>2, Concat2 DEF IdentityFaults

LEMMA RevisitFindings ==
  ASSUME NEW i \in Nat, NEW r
  PROVE  RevisitFaults(i, r) \in Seq(Findings(i))
<1>1. {"UndeclaredRevisitTruncation", "MissingRefersToFields"} \subseteq Rules
  BY DEF Rules
<1>2. /\ When(~r.empty /\ r.profile = "identical-payload-digest" /\ ~r.truncated,
              Fault(i, "UndeclaredRevisitTruncation")) \in Seq(Findings(i))
      /\ When(r.refersTo = None \/ r.refersPartly,
              Fault(i, "MissingRefersToFields")) \in Seq(Findings(i))
  BY <1>1, WhenFinding
<1>3. QED
  BY <1>2, Concat2 DEF RevisitFaults

LEMMA ReferenceFindings ==
  ASSUME NEW i \in Nat, NEW r, NEW ids
  PROVE  ReferenceFaults(i, r, ids) \in Seq(Findings(i))
<1>1. "RefersToUnknownRecord" \in Rules
  BY DEF Rules
<1>2. QED
  BY <1>1, WhenFinding DEF ReferenceFaults

LEMMA LinkFindings ==
  ASSUME NEW i \in Nat, NEW r, NEW expected
  PROVE  LinkFaults(i, r, expected) \in Seq(Findings(i))
<1>1. {"WrongConcurrentTo", "WrongTargetUri"} \subseteq Rules
  BY DEF Rules
<1>2. /\ When(r.concurrent # <<expected.id>>,
              Fault(i, "WrongConcurrentTo")) \in Seq(Findings(i))
      /\ When(r.target # expected.target,
              Fault(i, "WrongTargetUri")) \in Seq(Findings(i))
  BY <1>1, WhenFinding
<1>3. QED
  BY <1>2, Concat2 DEF LinkFaults

LEMMA CaptureFindings ==
  ASSUME NEW i \in Nat, NEW r, NEW expected
  PROVE  CaptureFaults(i, r, expected) \in Seq(Findings(i))
<1>1. {"ResponseWithoutRequest", "MissingFetchTime", "UnexpectedConcurrentTo"}
        \subseteq Rules
  BY DEF Rules
<1>2. /\ <<Fault(i, "ResponseWithoutRequest")>> \in Seq(Findings(i))
      /\ NoLinkFaults(i, r) \in Seq(Findings(i))
      /\ When(~r.fetchTime, Fault(i, "MissingFetchTime")) \in Seq(Findings(i))
  <2>1. Fault(i, "ResponseWithoutRequest") \in Findings(i)
    BY <1>1, FaultIsFinding
  <2>2. QED
    BY <1>1, <2>1, WhenFinding DEF NoLinkFaults
<1>3. LinkFaults(i, r, expected) \in Seq(Findings(i))
  BY LinkFindings
<1>4. LinkFaults(i, r, expected) \o When(~r.fetchTime, Fault(i, "MissingFetchTime"))
        \in Seq(Findings(i))
  BY <1>2, <1>3, Concat2
<1>5. QED
  BY <1>2, <1>3, <1>4 DEF CaptureFaults

LEMMA FramingFindings ==
  ASSUME NEW i \in Nat, NEW item, memberFirst \in Nat
  PROVE  FramingFaults(i, item) \in Seq(Findings(i))
<1>1. {"SharedGzipMember", "SplitGzipMember", "BlankLinesBefore"} \subseteq Rules
  BY DEF Rules
<1>2. /\ When(input.gzip /\ ~Begins(input, i),
              FaultNaming(i, "SharedGzipMember", memberFirst)) \in Seq(Findings(i))
      /\ When(input.gzip /\ item.members > 1,
              Fault(i, "SplitGzipMember")) \in Seq(Findings(i))
      /\ When(item.padding > 0, Fault(i, "BlankLinesBefore")) \in Seq(Findings(i))
  BY <1>1, WhenFinding, WhenNamingFinding
<1>3. QED
  BY <1>2, Concat2 DEF FramingFaults

LEMMA HeaderFindings ==
  ASSUME NEW i \in Nat, NEW r, TypeOK
  PROVE  HeaderFaults(i, r) \in Seq(Findings(i))
<1>1. {"NonCanonicalHeaderOrder", "DuplicateRecordId", "DateOutOfOrder"}
        \subseteq Rules
  BY DEF Rules
<1>2. When(~r.ordered, Fault(i, "NonCanonicalHeaderOrder")) \in Seq(Findings(i))
  BY <1>1, WhenFinding
<1>3. When(r.id \in DOMAIN recordIds,
           FaultNaming(i, "DuplicateRecordId", recordIds[r.id])) \in Seq(Findings(i))
  <2>1. r.id \in DOMAIN recordIds => recordIds[r.id] \in Nat
    BY DEF TypeOK
  <2>2. QED
    BY <1>1, <2>1, WhenNamingFinding
<1>4. When(previousDate # None /\ r.date < previousDate.date,
           FaultNaming(i, "DateOutOfOrder", previousDate.index)) \in Seq(Findings(i))
  <2>1. previousDate # None /\ r.date < previousDate.date
          => previousDate.index \in Nat
    BY DEF TypeOK
  <2>2. QED
    BY <1>1, <2>1, WhenNamingFinding
<1>5. QED
  BY <1>2, <1>3, <1>4, Concat2 DEF HeaderFaults

LEMMA CollectionFindings ==
  ASSUME NEW i \in Nat, NEW r
  PROVE  CollectionFaults(i, r) \in Seq(Findings(i))
<1>1. {"MalformedCollectionId", "WrongFilename"} \subseteq Rules
  BY DEF Rules
<1>2. /\ When(r.collection = "malformed",
              Fault(i, "MalformedCollectionId")) \in Seq(Findings(i))
      /\ When(~r.named,
              Fault(i, "WrongFilename")) \in Seq(Findings(i))
  BY <1>1, WhenFinding
<1>3. <<Fault(i, "MissingCollectionId")>> \in Seq(Findings(i))
  <2>1. "MissingCollectionId" \in Rules
    BY DEF Rules
  <2>2. Fault(i, "MissingCollectionId") \in Findings(i)
    BY <2>1, FaultIsFinding
  <2>3. QED
    BY <2>2
<1>4. QED
  BY <1>2, <1>3, Concat2 DEF CollectionFaults

LEMMA WarcinfoFindings ==
  ASSUME NEW i \in Nat, NEW r
  PROVE  WarcinfoFaults(i, r) \in Seq(Findings(i))
<1> DEFINE Own == IF r.type = "warcinfo"
                  THEN CollectionFaults(i, r)
                  ELSE When(r.warcinfo = None, Fault(i, "MissingWarcinfoId"))
                       \o When(r.warcinfo \notin {None, warcinfoId},
                               Fault(i, "WrongWarcinfoId"))
<1>1. {"FirstRecordNotWarcinfo", "MissingWarcinfoId", "WrongWarcinfoId",
       "WrongRequestHost"} \subseteq Rules
  BY DEF Rules
<1>2. /\ When(i = 1 /\ r.type # "warcinfo",
              Fault(i, "FirstRecordNotWarcinfo")) \in Seq(Findings(i))
      /\ When(r.warcinfo = None, Fault(i, "MissingWarcinfoId")) \in Seq(Findings(i))
      /\ When(r.warcinfo \notin {None, warcinfoId},
              Fault(i, "WrongWarcinfoId")) \in Seq(Findings(i))
      /\ When(/\ r.type = "request"
              /\ collectionHost # None
              /\ HostOf[r.target] # collectionHost,
              Fault(i, "WrongRequestHost")) \in Seq(Findings(i))
  BY <1>1, WhenFinding
<1>3. Own \in Seq(Findings(i))
  BY <1>2, CollectionFindings, Concat2
<1> HIDE DEF Own
<1>4. /\ When(i = 1 /\ r.type # "warcinfo", Fault(i, "FirstRecordNotWarcinfo")) \o Own
           \in Seq(Findings(i))
  BY <1>2, <1>3, Concat2
<1>5. QED
  BY <1>2, <1>4, Concat2 DEF WarcinfoFaults, Own

\* The findings of every rule about a record are about that record, as long as an
\* added rule reports about no other.
LEMMA CheckedFindings ==
  ASSUME TypeOK, input.reach = 0, NEW i \in Nat, NEW item, NEW expected
  PROVE  Checked(i, item, expected) \in Seq(Findings(i))
<1> DEFINE r == Content[item.record]
           Refers == IF r.type = "revisit"
                     THEN RevisitFaults(i, r)
                          \o ReferenceFaults(i, r, RecordIds(i, r))
                     ELSE <<>>
<1>1. RuleFaults(input, i) \in Seq(Findings(i))
  <2>1. "Custom" \in Rules
    BY DEF Rules
  <2>2. i - input.reach = i
    OBVIOUS
  <2>3. QED
    BY <2>1, <2>2, WhenFinding DEF RuleFaults
<1>2. Refers \in Seq(Findings(i))
  BY RevisitFindings, ReferenceFindings, Concat2
<1>3. /\ FramingFaults(i, item) \in Seq(Findings(i))
      /\ HeaderFaults(i, r) \in Seq(Findings(i))
      /\ BlockFaults(i, r) \in Seq(Findings(i))
      /\ DigestFaults(i, r) \in Seq(Findings(i))
      /\ IdentityFaults(i, r) \in Seq(Findings(i))
      /\ WarcinfoFaults(i, r) \in Seq(Findings(i))
      /\ CaptureFaults(i, r, expected) \in Seq(Findings(i))
  <2>1. memberFirst \in Nat
    BY DEF TypeOK
  <2>2. QED
    BY <2>1, FramingFindings, HeaderFindings, BlockFindings, DigestFindings,
       IdentityFindings, WarcinfoFindings, CaptureFindings
<1> HIDE DEF r, Refers
<1>4. FramingFaults(i, item) \o HeaderFaults(i, r) \o BlockFaults(i, r)
      \o DigestFaults(i, r) \o IdentityFaults(i, r) \o WarcinfoFaults(i, r)
      \o CaptureFaults(i, r, expected) \o Refers \o RuleFaults(input, i)
        \in Seq(Findings(i))
  BY <1>1, <1>2, <1>3, Concat2
<1>5. QED
  BY <1>4, Zenon DEF Checked, r, Refers

-----------------------------------------------------------------------------
(* What waits on the record before.                                        *)

LEMMA SettleFindings ==
  ASSUME TypeOK, AwaitedIsLast, NEW r
  PROVE  SettleFaults(r) \in Seq(Findings(index))
<1>1. {"RequestWithoutResponse", "ResponseWithoutMetadata"} \subseteq Rules
  BY DEF Rules
<1>2. index \in Nat
  BY DEF TypeOK
<1>3. CASE pending = None
  BY <1>3 DEF SettleFaults, When
<1>4. CASE pending # None
  <2>1. pending.index = index
    BY <1>4 DEF AwaitedIsLast
  <2>2. Unmet(pending.slot) \in Rules
    BY <1>1 DEF Unmet
  <2>3. QED
    BY <1>2, <2>1, <2>2, WhenFinding DEF SettleFaults
<1>5. QED
  BY <1>3, <1>4

LEMMA EndFindings ==
  ASSUME TypeOK, AwaitedIsLast
  PROVE  /\ PendingFaults \o TrailingFaults \in Seq(Findings(index))
         /\ index = 0 => PendingFaults \o TrailingFaults = <<>>
<1>1. {"RequestWithoutResponse", "ResponseWithoutMetadata", "TrailingBlankLines"}
        \subseteq Rules
  BY DEF Rules
<1>2. index \in Nat
  BY DEF TypeOK
<1>3. /\ PendingFaults \in Seq(Findings(index))
      /\ index = 0 => PendingFaults = <<>>
  <2>1. CASE pending = None
    BY <2>1 DEF PendingFaults, When
  <2>2. CASE pending # None
    <3>1. pending.index = index /\ index # 0
      BY <2>2 DEF AwaitedIsLast
    <3>2. Unmet(pending.slot) \in Rules
      BY <1>1 DEF Unmet
    <3>3. QED
      BY <1>2, <3>1, <3>2, WhenFinding DEF PendingFaults
  <2>3. QED
    BY <2>1, <2>2
<1>4. /\ TrailingFaults \in Seq(Findings(index))
      /\ index = 0 => TrailingFaults = <<>>
  <2>1. CASE lastRecord = 0
    BY <2>1 DEF TrailingFaults, When
  <2>2. CASE lastRecord # 0
    <3>1. lastRecord = index /\ index # 0
      BY <2>2 DEF TypeOK
    <3>2. QED
      BY <1>1, <1>2, <3>1, WhenFinding DEF TrailingFaults
  <2>3. QED
    BY <2>1, <2>2
<1>5. <<>> \o <<>> = <<>>
  BY ConcatEmptySeq, EmptySeq
<1>6. QED
  BY <1>3, <1>4, <1>5, Concat2

-----------------------------------------------------------------------------
(* Sequences of results.                                                   *)

LEMMA ElementsTyped ==
  ASSUME NEW S, NEW s \in Seq(S)
  PROVE  ToSet(s) \subseteq S
BY DEF ToSet

LEMMA ElementsConcat ==
  ASSUME NEW S, NEW s \in Seq(S), NEW t \in Seq(S), NEW x \in ToSet(s \o t)
  PROVE  x \in ToSet(s) \/ x \in ToSet(t)
<1>1. /\ Len(s \o t) = Len(s) + Len(t)
      /\ \A k \in 1 .. Len(s) + Len(t) :
            (s \o t)[k] = IF k <= Len(s) THEN s[k] ELSE t[k - Len(s)]
  BY ConcatProperties
<1>2. PICK k \in 1 .. Len(s) + Len(t) : x = (s \o t)[k]
  <2>1. DOMAIN (s \o t) = 1 .. Len(s) + Len(t)
    BY <1>1, ConcatProperties
  <2>2. QED
    BY <2>1 DEF ToSet
<1>3. CASE k <= Len(s)
  BY <1>1, <1>2, <1>3 DEF ToSet
<1>4. CASE ~(k <= Len(s))
  <2>1. k - Len(s) \in 1 .. Len(t)
    BY <1>4
  <2>2. QED
    BY <1>1, <1>2, <1>4, <2>1 DEF ToSet
<1>5. QED
  BY <1>3, <1>4

LEMMA ElementsAppend ==
  ASSUME NEW S, NEW s \in Seq(S), NEW e \in S
  PROVE  /\ Append(s, e) \in Seq(S)
         /\ \A x \in ToSet(Append(s, e)) : x \in ToSet(s) \/ x = e
BY DEF ToSet

LEMMA ElementsSplit ==
  ASSUME NEW S, NEW s \in Seq(S), s # <<>>
  PROVE  /\ Head(s) \in S
         /\ Head(s) \in ToSet(s)
         /\ Tail(s) \in Seq(S)
         /\ ToSet(Tail(s)) \subseteq ToSet(s)
<1>1. /\ Len(s) \in Nat /\ Len(s) > 0
      /\ Len(Tail(s)) = Len(s) - 1
      /\ \A k \in 1 .. Len(Tail(s)) : Tail(s)[k] = s[k + 1]
      /\ Head(s) = s[1]
  OBVIOUS
<1>2. QED
  BY <1>1 DEF ToSet

LEMMA FindingSeqs ==
  ASSUME NEW i \in Nat, NEW faults \in Seq(Findings(i))
  PROVE  faults \in Seq(Results)
<1>1. Findings(i) \subseteq Results
  BY FindingsAreResults
<1>2. QED
  BY <1>1

\* What is queued of the record before: that it is clean, or findings about it.
LEMMA SettledResults ==
  ASSUME TypeOK, NEW faults \in Seq(Findings(index))
  PROVE  /\ Settled(faults) \in Seq(Results)
         /\ \/ clean # 0 /\ \A x \in ToSet(Settled(faults)) : x = Ok(clean)
            \/ \A x \in ToSet(Settled(faults)) : x \in Findings(index)
<1>1. index \in Nat /\ clean \in {0, index}
  BY DEF TypeOK
<1>2. Ok(clean) \in Results
  BY <1>1 DEF Ok, Results
<1>3. faults \in Seq(Results)
  BY <1>1, FindingSeqs
<1>4. CASE faults = <<>> /\ clean # 0
  <2>1. Settled(faults) = <<Ok(clean)>>
    BY <1>4 DEF Settled
  <2>2. <<Ok(clean)>> \in Seq(Results) /\ ToSet(<<Ok(clean)>>) = {Ok(clean)}
    BY <1>2 DEF ToSet
  <2>3. QED
    BY <1>4, <2>1, <2>2, Zenon
<1>5. CASE ~(faults = <<>> /\ clean # 0)
  <2>1. Settled(faults) = faults
    BY <1>5 DEF Settled
  <2>2. QED
    BY <1>3, <1>5, <2>1, ElementsTyped
<1>6. QED
  BY <1>4, <1>5

-----------------------------------------------------------------------------
(* The invariant.                                                          *)

\* An added rule reports only about the record it is shown.
ReachNothing == \A kind \in DOMAIN Files : \A f \in Files[kind] : f.reach = 0

Inv == IInv /\ input.reach = 0

LEMMA InitInv ==
  ASSUME ReachNothing, Init
  PROVE  Inv
<1>1. input.reach = 0
  BY DEF Init, ReachNothing
<1>2. TypeOK
  <2>1. recordIds \in [DOMAIN recordIds -> Nat]
    BY DEF Init
  <2>2. /\ index \in Nat /\ memberFirst \in Nat /\ lastRecord \in {0, index}
        /\ previousDate = None
        /\ clean \in {0, index} /\ deferred \in {0, index} /\ finished \in BOOLEAN
    BY DEF Init
  <2>3. queue \in Seq(Results) /\ yielded \in Seq(Results)
    BY DEF Init
  <2>4. QED
    BY <2>1, <2>2, <2>3 DEF TypeOK
<1>3. Reached = {}
  BY DEF Init, Reached, ToSet
<1>4. QED
  BY <1>1, <1>2, <1>3 DEF Init, Inv, IInv, HeldUnreported, AwaitedIsLast,
     CleanIsSettled, EndIsSettled, Unmixed

\* A record is checked.
LEMMA CheckInv ==
  ASSUME Inv, Check
  PROVE  Inv'
<1> DEFINE i == index + 1
           r == Held
           faults == Checked(i, Item, Expected(r))
           settled == SettleFaults(r)
<1>1. /\ index \in Nat /\ i \in Nat /\ clean \in {0, index}
      /\ yielded \in Seq(Results)
      /\ queue = <<>> /\ deferred = 0 /\ ~finished
  BY DEF Inv, IInv, TypeOK, Check, Idle, EndIsSettled
<1>2. /\ faults \in Seq(Findings(i))
      /\ settled \in Seq(Findings(index))
  BY <1>1, CheckedFindings, SettleFindings DEF Inv, IInv
<1>3. /\ index' = i
      /\ memberFirst' = MemberFirst(Item)
      /\ lastRecord' = i
      /\ recordIds' = RecordIds(i, r)
      /\ previousDate' = [index |-> i, date |-> r.date]
      /\ pending' = Awaited(i, r, Expected(r))
      /\ queue' = Settled(settled) \o faults
      /\ clean' = IF faults = <<>> THEN i ELSE 0
      /\ UNCHANGED <<input, deferred, finished, yielded, exhausted>>
  BY DEF Check
<1> HIDE DEF faults, settled, r
<1>4. /\ faults \in Seq(Results)
      /\ Settled(settled) \in Seq(Results)
  BY <1>1, <1>2, FindingSeqs, SettledResults DEF Inv, IInv
<1>5. \A x \in Reached' :
        x \in Reached \/ x \in ToSet(Settled(settled)) \/ x \in ToSet(faults)
  BY <1>3, <1>4, ElementsConcat DEF Reached
<1>6. TypeOK'
  <2>1. memberFirst' \in Nat
    BY <1>1, <1>3 DEF MemberFirst, Inv, IInv, TypeOK
  <2>2. recordIds' \in [DOMAIN recordIds' -> Nat]
    BY <1>1, <1>3 DEF RecordIds, Inv, IInv, TypeOK
  <2>3. queue' \in Seq(Results)
    BY <1>3, <1>4, Concat2
  <2>4. QED
    BY <1>1, <1>3, <2>1, <2>2, <2>3 DEF Inv, IInv, TypeOK
<1>7. \A x \in Reached :
        /\ x.position <= index
        /\ clean # 0 => x.position # clean
        /\ x.rule = "Ok" => x.position # 0 /\ x.position < index
        /\ x.position \in Nat
  <2>1. Reached \subseteq Results
    BY ElementsTyped DEF Inv, IInv, TypeOK, Reached
  <2>2. QED
    BY <1>1, <2>1 DEF Inv, IInv, HeldUnreported, CleanIsSettled, Results
<1>8. \/ /\ clean = index /\ clean # 0
         /\ \A x \in ToSet(Settled(settled)) : x.position = index /\ x.rule = "Ok"
      \/ \A x \in ToSet(Settled(settled)) : x.position = index /\ x.rule # "Ok"
  <2>1. \A x \in Findings(index) : x.position = index /\ x.rule # "Ok"
    BY <1>1, FindingsAreResults
  <2>2. Ok(clean).position = clean /\ Ok(clean).rule = "Ok"
    BY DEF Ok
  <2>3. \/ clean # 0 /\ \A x \in ToSet(Settled(settled)) : x = Ok(clean)
        \/ \A x \in ToSet(Settled(settled)) : x \in Findings(index)
    BY <1>2, SettledResults DEF Inv, IInv
  <2>4. QED
    BY <1>1, <2>1, <2>2, <2>3
<1>9. \A x \in ToSet(faults) : x.position = i /\ x.rule # "Ok" /\ clean' = 0
  <2>1. \A x \in ToSet(faults) : x \in Findings(i) /\ faults # <<>>
    BY <1>1, <1>2, ElementsTyped DEF ToSet
  <2>2. QED
    BY <1>1, <1>3, <2>1, FindingsAreResults
<1> HIDE DEF i
<1>10. i = index + 1
  BY DEF i
<1>11. HeldUnreported'
  <2>1. \A x \in Reached' : x.position <= i /\ (clean' # 0 => x.position # i)
    BY <1>1, <1>5, <1>7, <1>8, <1>9, <1>10
  <2>2. QED
    BY <1>3, <2>1 DEF HeldUnreported
<1>12. AwaitedIsLast'
  BY <1>1, <1>3, <1>10 DEF AwaitedIsLast, Awaited
<1>13. CleanIsSettled'
  BY <1>1, <1>3, <1>5, <1>7, <1>8, <1>9, <1>10 DEF CleanIsSettled
<1>14. EndIsSettled'
  BY <1>1, <1>3 DEF EndIsSettled
<1>15. Unmixed'
  <2>1. \A x, y \in Reached : x.position = y.position /\ x.rule = "Ok" => y.rule = "Ok"
    BY DEF Inv, IInv, Unmixed
  <2>2. \A x \in Reached' : x.rule = "Ok" =>
          \/ x \in Reached
          \/ clean # 0 /\ x.position = index /\ x \in ToSet(Settled(settled))
    BY <1>5, <1>8, <1>9
  <2>3. SUFFICES ASSUME NEW x \in Reached', NEW y \in Reached',
                        x.position = y.position, x.rule = "Ok"
                 PROVE  y.rule = "Ok"
    BY DEF Unmixed
  <2>4. CASE x \in Reached
    BY <1>1, <1>5, <1>7, <1>8, <1>9, <1>10, <2>1, <2>3, <2>4
  <2>5. CASE clean # 0 /\ x.position = index /\ x \in ToSet(Settled(settled))
    <3>1. y.position = index /\ clean = index
      BY <1>1, <2>3, <2>5
    <3>2. y \in ToSet(Settled(settled))
      BY <1>1, <1>5, <1>7, <1>9, <1>10, <2>5, <3>1
    <3>3. QED
      BY <1>8, <2>3, <2>5, <3>2
  <2>6. QED
    BY <2>2, <2>3, <2>4, <2>5
<1>16. QED
  BY <1>3, <1>6, <1>11, <1>12, <1>13, <1>14, <1>15 DEF Inv, IInv

\* A record cannot be read.
LEMMA SkipInv ==
  ASSUME Inv, Skip
  PROVE  Inv'
<1>1. /\ index \in Nat /\ clean \in {0, index}
      /\ yielded \in Seq(Results)
      /\ queue = <<>> /\ ~finished
  BY DEF Inv, IInv, TypeOK, Skip, Idle, EndIsSettled
<1>2. /\ index' = index + 1
      /\ memberFirst' = MemberFirst(Item)
      /\ lastRecord' = 0
      /\ pending' = None
      /\ clean' = 0
      /\ queue' = Settled(<<>>)
      /\ deferred' = index + 1
      /\ UNCHANGED <<input, recordIds, previousDate, finished, yielded>>
  BY DEF Skip
<1>3. /\ queue' \in Seq(Results)
      /\ \A x \in ToSet(queue') : /\ clean # 0 /\ clean = index
                                  /\ x = Ok(clean)
  <2>1. CASE clean = 0
    BY <1>2, <2>1 DEF Settled, ToSet
  <2>2. CASE clean # 0
    <3>1. queue' = <<Ok(clean)>>
      BY <1>2, <2>2 DEF Settled
    <3>2. Ok(clean) \in Results
      BY <1>1 DEF Ok, Results
    <3>3. <<Ok(clean)>> \in Seq(Results) /\ ToSet(<<Ok(clean)>>) = {Ok(clean)}
      BY <3>2 DEF ToSet
    <3>4. QED
      BY <1>1, <2>2, <3>1, <3>3
  <2>3. QED
    BY <2>1, <2>2
<1>4. \A x \in Reached' :
        \/ x \in Reached
        \/ clean # 0 /\ clean = index /\ x.position = index /\ x.rule = "Ok"
  BY <1>2, <1>3 DEF Reached, Ok
<1>5. TypeOK'
  <2>1. memberFirst' \in Nat
    BY <1>1, <1>2 DEF MemberFirst, Inv, IInv, TypeOK
  <2>2. QED
    BY <1>1, <1>2, <1>3, <2>1 DEF Inv, IInv, TypeOK
<1>6. \A x \in Reached :
        /\ x.position <= index
        /\ clean # 0 => x.position # clean
        /\ x.rule = "Ok" => x.position # 0 /\ x.position < index
        /\ x.position \in Nat
  <2>1. Reached \subseteq Results
    BY ElementsTyped DEF Inv, IInv, TypeOK, Reached
  <2>2. QED
    BY <1>1, <2>1 DEF Inv, IInv, HeldUnreported, CleanIsSettled, Results
<1>7. HeldUnreported'
  BY <1>1, <1>2, <1>4, <1>6 DEF HeldUnreported
<1>8. AwaitedIsLast' /\ EndIsSettled'
  BY <1>1, <1>2 DEF AwaitedIsLast, EndIsSettled
<1>9. CleanIsSettled'
  BY <1>1, <1>2, <1>4, <1>6 DEF CleanIsSettled
<1>10. Unmixed'
  <2>1. \A x, y \in Reached : x.position = y.position /\ x.rule = "Ok" => y.rule = "Ok"
    BY DEF Inv, IInv, Unmixed
  <2>2. QED
    BY <1>4, <1>6, <2>1 DEF Unmixed
<1>11. QED
  BY <1>2, <1>5, <1>7, <1>8, <1>9, <1>10 DEF Inv, IInv

\* The end of the file settles what waits on it.
LEMMA FinishInv ==
  ASSUME Inv, Finish
  PROVE  Inv'
<1> DEFINE ending == PendingFaults \o TrailingFaults
           summary == When(input.summary, Fault(0, "Custom"))
<1>1. /\ index \in Nat /\ clean \in {0, index}
      /\ yielded \in Seq(Results)
      /\ queue = <<>> /\ deferred = 0 /\ ~finished /\ ~MoreItems
  BY DEF Inv, IInv, TypeOK, Finish, Idle
<1>2. /\ ending \in Seq(Findings(index))
      /\ index = 0 => ending = <<>>
  BY EndFindings DEF Inv, IInv
<1>3. /\ summary \in Seq(Results)
      /\ \A x \in ToSet(summary) : x.position = 0 /\ x.rule # "Ok"
  <2>1. "Custom" \in Rules
    BY DEF Rules
  <2>2. summary \in Seq(Findings(0))
    BY <2>1, WhenFinding
  <2>3. QED
    BY <2>2, FindingSeqs, ElementsTyped, FindingsAreResults
<1>4. /\ pending' = None
      /\ lastRecord' = 0
      /\ clean' = 0
      /\ queue' = Settled(ending) \o summary
      /\ finished' = TRUE
      /\ UNCHANGED <<input, index, memberFirst, recordIds, previousDate,
                     deferred, yielded>>
  BY DEF Finish
<1>5. Settled(ending) \in Seq(Results)
  BY <1>2, SettledResults DEF Inv, IInv
<1>6. \/ /\ clean = index /\ clean # 0
         /\ \A x \in ToSet(Settled(ending)) : x.position = index /\ x.rule = "Ok"
      \/ \A x \in ToSet(Settled(ending)) :
            index # 0 /\ x.position = index /\ x.rule # "Ok"
  <2>1. \A x \in Findings(index) : x.position = index /\ x.rule # "Ok"
    BY <1>1, FindingsAreResults
  <2>2. Ok(clean).position = clean /\ Ok(clean).rule = "Ok"
    BY DEF Ok
  <2>3. \/ clean # 0 /\ \A x \in ToSet(Settled(ending)) : x = Ok(clean)
        \/ \A x \in ToSet(Settled(ending)) : x \in Findings(index)
    BY <1>2, SettledResults DEF Inv, IInv
  <2>4. index = 0 => ToSet(Settled(ending)) = {}
    <3>1. SUFFICES ASSUME index = 0
                   PROVE  Settled(ending) = <<>>
      BY DEF ToSet
    <3>2. QED
      BY <1>1, <1>2, <3>1 DEF Settled
  <2>5. QED
    BY <1>1, <2>1, <2>2, <2>3, <2>4
<1> HIDE DEF ending, summary
<1>7. \A x \in Reached' :
        x \in Reached \/ x \in ToSet(Settled(ending)) \/ x \in ToSet(summary)
  BY <1>3, <1>4, <1>5, ElementsConcat DEF Reached
<1>8. TypeOK'
  <2>1. queue' \in Seq(Results)
    BY <1>3, <1>4, <1>5, Concat2
  <2>2. QED
    BY <1>1, <1>4, <2>1 DEF Inv, IInv, TypeOK
<1>9. \A x \in Reached :
        /\ x.position <= index
        /\ clean # 0 => x.position # clean
        /\ x.rule = "Ok" => x.position # 0 /\ x.position < index
        /\ x.position \in Nat
  <2>1. Reached \subseteq Results
    BY ElementsTyped DEF Inv, IInv, TypeOK, Reached
  <2>2. QED
    BY <1>1, <2>1 DEF Inv, IInv, HeldUnreported, CleanIsSettled, Results
<1>10. HeldUnreported'
  BY <1>1, <1>3, <1>4, <1>6, <1>7, <1>9 DEF HeldUnreported
<1>11. AwaitedIsLast' /\ EndIsSettled'
  BY <1>1, <1>4 DEF AwaitedIsLast, EndIsSettled, MoreItems
<1>12. CleanIsSettled'
  BY <1>1, <1>3, <1>4, <1>6, <1>7, <1>9 DEF CleanIsSettled
<1>13. Unmixed'
  <2>1. \A x, y \in Reached : x.position = y.position /\ x.rule = "Ok" => y.rule = "Ok"
    BY DEF Inv, IInv, Unmixed
  <2>2. SUFFICES ASSUME NEW x \in Reached', NEW y \in Reached',
                        x.position = y.position, x.rule = "Ok"
                 PROVE  y.rule = "Ok"
    BY DEF Unmixed
  <2>3. CASE x \in Reached
    BY <1>3, <1>6, <1>7, <1>9, <2>1, <2>2, <2>3
  <2>4. CASE x \in ToSet(Settled(ending))
    <3>1. /\ clean = index /\ clean # 0 /\ y.position = index
          /\ \A z \in ToSet(Settled(ending)) : z.rule = "Ok"
      BY <1>6, <2>2, <2>4
    <3>2. y \in ToSet(Settled(ending))
      BY <1>3, <1>7, <1>9, <3>1
    <3>3. QED
      BY <3>1, <3>2
  <2>5. QED
    BY <1>3, <1>7, <2>2, <2>3, <2>4
<1>14. QED
  BY <1>4, <1>8, <1>10, <1>11, <1>12, <1>13 DEF Inv, IInv

\* The caller is given a result.
LEMMA YieldInv ==
  ASSUME Inv, Yield
  PROVE  Inv'
<1>1. /\ queue \in Seq(Results) /\ queue # <<>> /\ yielded \in Seq(Results)
      /\ yielded' = Append(yielded, Head(queue))
      /\ queue' = Tail(queue)
      /\ UNCHANGED <<input, index, stateVars, clean, deferred, finished>>
  BY DEF Inv, IInv, TypeOK, Yield
<1>2. Reached' \subseteq Reached
  <2>1. /\ Head(queue) \in Results
        /\ Head(queue) \in ToSet(queue)
        /\ ToSet(Tail(queue)) \subseteq ToSet(queue)
    BY <1>1, ElementsSplit
  <2>2. \A x \in ToSet(Append(yielded, Head(queue))) :
          x \in ToSet(yielded) \/ x = Head(queue)
    BY <1>1, <2>1, ElementsAppend
  <2>3. QED
    BY <1>1, <2>1, <2>2 DEF Reached
<1>3. TypeOK'
  <2>1. yielded' \in Seq(Results) /\ queue' \in Seq(Results)
    BY <1>1, ElementsSplit, ElementsAppend
  <2>2. QED
    BY <1>1, <2>1 DEF Inv, IInv, TypeOK, stateVars
<1>4. HeldUnreported' /\ CleanIsSettled' /\ Unmixed'
  BY <1>1, <1>2 DEF Inv, IInv, HeldUnreported, CleanIsSettled, Unmixed
<1>5. AwaitedIsLast' /\ EndIsSettled'
  BY <1>1 DEF Inv, IInv, AwaitedIsLast, EndIsSettled, MoreItems, stateVars
<1>6. QED
  BY <1>1, <1>3, <1>4, <1>5 DEF Inv, IInv

\* The caller is given the error that ended the record read last.
LEMMA YieldErrorInv ==
  ASSUME Inv, YieldError
  PROVE  Inv'
<1>1. /\ queue = <<>> /\ yielded \in Seq(Results)
      /\ index \in Nat /\ deferred # 0 /\ deferred = index
      /\ yielded' = Append(yielded, Error(deferred))
      /\ deferred' = 0
      /\ UNCHANGED <<input, index, stateVars, clean, queue, finished>>
      /\ clean = 0 /\ pending = None /\ ~finished
  BY DEF Inv, IInv, TypeOK, YieldError, AwaitedIsLast, EndIsSettled
<1>2. Error(deferred) \in Results
  BY <1>1 DEF Error, Results
<1>3. \A x \in Reached' : x \in Reached \/ (x.position = index /\ x.rule # "Ok")
  <2>1. \A x \in ToSet(yielded') : x \in ToSet(yielded) \/ x = Error(deferred)
    BY <1>1, <1>2, ElementsAppend
  <2>2. Error(deferred).position = index /\ Error(deferred).rule # "Ok"
    BY <1>1 DEF Error
  <2>3. QED
    BY <1>1, <2>1, <2>2 DEF Reached
<1>4. TypeOK'
  <2>1. yielded' \in Seq(Results)
    BY <1>1, <1>2, ElementsAppend
  <2>2. QED
    BY <1>1, <2>1 DEF Inv, IInv, TypeOK, stateVars
<1>5. \A x \in Reached :
        /\ x.position <= index
        /\ x.rule = "Ok" => x.position # 0 /\ x.position < index
        /\ x.position \in Nat
  <2>1. Reached \subseteq Results
    BY ElementsTyped DEF Inv, IInv, TypeOK, Reached
  <2>2. QED
    BY <1>1, <2>1 DEF Inv, IInv, HeldUnreported, CleanIsSettled, Results
<1>6. HeldUnreported' /\ CleanIsSettled'
  BY <1>1, <1>3, <1>5 DEF HeldUnreported, CleanIsSettled
<1>7. AwaitedIsLast' /\ EndIsSettled'
  BY <1>1 DEF AwaitedIsLast, EndIsSettled, stateVars
<1>8. Unmixed'
  <2>1. \A x, y \in Reached : x.position = y.position /\ x.rule = "Ok" => y.rule = "Ok"
    BY DEF Inv, IInv, Unmixed
  <2>2. QED
    BY <1>1, <1>3, <1>5, <2>1 DEF Unmixed
<1>9. QED
  BY <1>1, <1>4, <1>6, <1>7, <1>8 DEF Inv, IInv

LEMMA NextInv ==
  ASSUME Inv, [Next]_vars
  PROVE  Inv'
<1>1. CASE UNCHANGED <<input, index, stateVars, clean, queue, deferred, finished,
                       yielded>>
  BY <1>1 DEF Inv, IInv, TypeOK, HeldUnreported, AwaitedIsLast, CleanIsSettled,
     EndIsSettled, Unmixed, Reached, MoreItems, stateVars
<1>2. CASE Exhaust
  BY <1>1, <1>2 DEF Exhaust
<1>3. CASE Terminated
  BY <1>1, <1>3 DEF Terminated, vars
<1>4. CASE UNCHANGED vars
  BY <1>1, <1>4 DEF vars
<1>5. QED
  BY <1>2, <1>3, <1>4, CheckInv, SkipInv, FinishInv, YieldInv, YieldErrorInv
  DEF Next

-----------------------------------------------------------------------------
(* The theorems.                                                           *)

\* The invariant holds of every pass over any files, as long as every added rule
\* reports only about the record it is shown: what the pass remembers is that
\* of the record read last, and nothing is said of the record it holds back.
THEOREM InvariantHolds ==
  ASSUME ReachNothing
  PROVE  Spec => []IInv
<1>1. Init => Inv
  BY InitInv
<1>2. Inv /\ [Next]_vars => Inv'
  BY NextInv
<1>3. Inv => IInv
  BY DEF Inv
<1>4. QED
  BY <1>1, <1>2, <1>3, PTL DEF Spec

\* No record is both reported by its identifier and faulted (settle_clean,
\* lint/mod.rs): what the next record or the end of the file settles of it is
\* settled before it is released.
THEOREM FaultedNeverClean ==
  ASSUME ReachNothing
  PROVE  Spec => []FaultedNotClean
<1>1. IInv => FaultedNotClean
  BY DEF IInv, Unmixed, Reached, FaultedNotClean, ToSet
<1>2. QED
  BY <1>1, InvariantHolds, PTL

-----------------------------------------------------------------------------
(* Least and greatest positions.                                           *)

LEMMA LeastNat ==
  ASSUME NEW S, S \subseteq Nat, S # {}
  PROVE  \E m \in S : \A k \in S : m <= k
<1> DEFINE R == OpToRel(<, Nat)
<1>1. IsWellFoundedOn(R, Nat)
  BY NatLessThanWellFounded
<1>2. PICK m \in S : \A k \in S : <<k, m>> \notin R
  <2> HIDE DEF R
  <2> QED
    BY <1>1, WFMin
<1>3. \A k \in S : ~(k < m)
  BY <1>2 DEF OpToRel
<1>4. QED
  BY <1>3

LEMMA MinOfPositions ==
  ASSUME NEW S, S \subseteq Nat, S # {}
  PROVE  /\ Min(S) \in S
         /\ \A k \in S : Min(S) <= k
BY LeastNat DEF Min

LEMMA MinIs ==
  ASSUME NEW S, S \subseteq Nat, NEW m \in S, \A k \in S : m <= k
  PROVE  Min(S) = m
<1>1. Min(S) \in S /\ \A k \in S : Min(S) <= k
  BY MinOfPositions
<1>2. Min(S) \in Nat /\ m \in Nat /\ Min(S) <= m /\ m <= Min(S)
  BY <1>1
<1>3. QED
  BY <1>2

LEMMA MaxOfPositions ==
  ASSUME NEW n \in Nat, NEW S, S \subseteq 1 .. n, S # {}
  PROVE  /\ Max(S) \in S
         /\ \A k \in S : k <= Max(S)
<1> DEFINE T == {n - k : k \in S}
<1>1. T \subseteq Nat /\ T # {}
  <2>1. \A k \in S : n - k \in Nat
    OBVIOUS
  <2>2. QED
    BY <2>1
<1>2. PICK t \in T : \A u \in T : t <= u
  <2> HIDE DEF T
  <2> QED
    BY <1>1, LeastNat
<1>3. PICK m \in S : t = n - m
  BY <1>2
<1>4. \A k \in S : m >= k
  <2>1. \A k \in S : n - m <= n - k
    BY <1>2, <1>3
  <2>2. QED
    BY <2>1
<1>5. Max(S) \in S /\ \A k \in S : Max(S) >= k
  BY <1>4, Zenon DEF Max
<1>6. QED
  BY <1>5

LEMMA MaxIs ==
  ASSUME NEW n \in Nat, NEW S, S \subseteq 1 .. n, NEW m \in S, \A k \in S : k <= m
  PROVE  Max(S) = m
<1>1. Max(S) \in S /\ \A k \in S : k <= Max(S)
  BY MaxOfPositions
<1>2. \A k \in S : k \in Nat
  OBVIOUS
<1>3. Max(S) \in Nat /\ m \in Nat /\ Max(S) <= m /\ m <= Max(S)
  BY <1>1, <1>2
<1>4. QED
  BY <1>3

-----------------------------------------------------------------------------
(* The members a gzip file's records lie in.                               *)

\* The last member of the records before i, and the first of record i.
LastBefore(f, i) == IF i = 1 THEN 0 ELSE Members(f)[i - 1].last
FirstIn(f, i) == IF Begins(f, i) THEN LastBefore(f, i) + 1 ELSE LastBefore(f, i)

LEMMA InputsTyped ==
  ASSUME NEW f \in Inputs
  PROVE  /\ f.items \in Seq(Items)
         /\ Len(f.items) \in Nat
         /\ \A i \in Positions(f) : f.items[i] \in Items
         /\ f.reach \in Nat
BY DEF Inputs, Positions

LEMMA MembersUnfold ==
  ASSUME NEW f \in Inputs, NEW i \in Positions(f)
  PROVE  Members(f)[i] = [first |-> FirstIn(f, i),
                          last |-> FirstIn(f, i) + f.items[i].members - 1]
<1> DEFINE N == Len(f.items)
           First(k, l) == IF Begins(f, k) THEN l + 1 ELSE l
           Cell(k, l) == [first |-> First(k, l),
                          last |-> First(k, l) + f.items[k].members - 1]
           Before_(s, k) == IF k = 1 THEN 0 ELSE s[k - 1].last
           Defines(s, n) == s = [k \in 1 .. n |-> Cell(k, Before_(s, k))]
           Lacking == {n \in Nat : ~ \E s : Defines(s, n)}
<1>1. Lacking = {}
  <2> HIDE DEF Cell
  <2> SUFFICES ASSUME Lacking # {} PROVE FALSE
    OBVIOUS
  <2>1. PICK m \in Lacking : \A k \in Lacking : m <= k
    <3> HIDE DEF Lacking
    <3>1. Lacking \subseteq Nat
      BY DEF Lacking
    <3>2. QED
      BY <3>1, LeastNat
  <2>2. CASE m = 0
    <3>1. Defines([k \in 1 .. 0 |-> 0], 0)
      OBVIOUS
    <3>2. QED
      BY <2>1, <2>2, <3>1
  <2>3. CASE m # 0
    <3>1. m \in Nat \ {0} /\ m - 1 \in Nat /\ m - 1 \notin Lacking
      <4>1. m \in Nat
        BY <2>1
      <4>2. m - 1 \in Nat /\ ~(m <= m - 1)
        BY <2>3, <4>1
      <4> HIDE DEF Lacking
      <4>3. QED
        BY <2>1, <2>3, <4>1, <4>2
    <3>2. PICK s : Defines(s, m - 1)
      BY <3>1
    <3> DEFINE t == [k \in 1 .. m |-> IF k = m THEN Cell(m, Before_(s, m)) ELSE s[k]]
    <3>3. \A k \in 1 .. m - 1 : s[k] = Cell(k, Before_(s, k))
      BY <3>1, <3>2
    <3>4. \A k \in 1 .. m - 1 : t[k] = s[k]
      BY <3>1
    <3>5. t[m] = Cell(m, Before_(s, m))
      BY <3>1
    <3>6. ASSUME NEW k \in 1 .. m
          PROVE  t[k] = Cell(k, Before_(t, k))
      <4> HIDE DEF t
      <4>1. Before_(t, k) = Before_(s, k)
        BY <3>1, <3>4
      <4>2. t[k] = Cell(k, Before_(s, k))
        BY <3>1, <3>3, <3>4, <3>5
      <4>3. QED
        BY <4>1, <4>2
    <3>7. t = [k \in 1 .. m |-> Cell(k, Before_(t, k))]
      <4>1. t = [k \in 1 .. m |-> t[k]]
        OBVIOUS
      <4> HIDE DEF t
      <4>2. QED
        BY <3>6, <4>1
    <3>8. Defines(t, m)
      <4> HIDE DEF t
      <4> QED
        BY <3>7
    <3>9. QED
      BY <2>1, <3>8
  <2>4. QED
    BY <2>2, <2>3
<1>2. N \in Nat
  BY InputsTyped
<1>3. \E s : Defines(s, N)
  <2> HIDE DEF Defines, N
  <2>1. N \notin Lacking
    BY <1>1
  <2>2. QED
    BY <1>2, <2>1
<1>4. Members(f) = CHOOSE s : Defines(s, N)
  BY DEF Members, Positions
<1>5. Defines(Members(f), N)
  <2> HIDE DEF Defines
  <2> QED
    BY <1>3, <1>4
<1>6. Members(f)[i] = Cell(i, Before_(Members(f), i))
  <2> HIDE DEF Cell, Before_
  <2> QED
    BY <1>5 DEF Positions
<1>7. QED
  BY <1>6 DEF FirstIn, LastBefore

LEMMA MembersFields ==
  ASSUME NEW f \in Inputs, NEW i \in Positions(f)
  PROVE  /\ Members(f)[i].first = FirstIn(f, i)
         /\ Members(f)[i].last = FirstIn(f, i) + f.items[i].members - 1
<1> DEFINE first == FirstIn(f, i)
           last == FirstIn(f, i) + f.items[i].members - 1
<1>1. Members(f)[i] = [first |-> first, last |-> last]
  BY MembersUnfold
<1> HIDE DEF first, last
<1>2. Members(f)[i].first = first /\ Members(f)[i].last = last
  BY <1>1
<1>3. QED
  BY <1>2 DEF first, last

LEMMA MembersGrow ==
  ASSUME NEW f \in Inputs, NEW i \in Positions(f)
  PROVE  /\ Members(f)[i].last \in Nat
         /\ LastBefore(f, i) \in Nat
         /\ Members(f)[i].first = FirstIn(f, i)
         /\ Members(f)[i].last = FirstIn(f, i) + f.items[i].members - 1
         /\ \A j \in 1 .. i - 1 : Members(f)[j].last <= LastBefore(f, i)
<1> DEFINE Good(k) == /\ Members(f)[k].last \in Nat
                      /\ LastBefore(f, k) \in Nat
                      /\ \A j \in 1 .. k - 1 : Members(f)[j].last <= LastBefore(f, k)
           Bad == {k \in Positions(f) : ~Good(k)}
<1>1. Bad = {}
  <2> SUFFICES ASSUME Bad # {} PROVE FALSE
    OBVIOUS
  <2>1. Bad \subseteq Nat
    BY InputsTyped DEF Positions
  <2>2. PICK m \in Bad : \A k \in Bad : m <= k
    <3> HIDE DEF Bad
    <3> QED
      BY <2>1, LeastNat
  <2>3. m \in Positions(f) /\ m \in Nat \ {0}
    BY InputsTyped DEF Positions
  <2>4. LastBefore(f, m) \in Nat
        /\ \A j \in 1 .. m - 1 : Members(f)[j].last <= LastBefore(f, m)
    <3>1. CASE m = 1
      BY <3>1 DEF LastBefore
    <3>2. CASE m # 1
      <4>1. m - 1 \in Positions(f) /\ m - 1 \in Nat /\ ~(m <= m - 1)
        BY <2>3, <3>2, InputsTyped DEF Positions
      <4>2. Good(m - 1)
        <5>1. m - 1 \notin Bad
          <6> HIDE DEF Bad
          <6> QED
            BY <2>2, <4>1
        <5>2. QED
          BY <4>1, <5>1
      <4>3. LastBefore(f, m) = Members(f)[m - 1].last
        BY <3>2 DEF LastBefore
      <4>4. Members(f)[m - 1].last >= LastBefore(f, m - 1)
        <5>1. f.items[m - 1].members \in Nat \ {0}
          BY <4>1, InputsTyped DEF Items
        <5>2. Members(f)[m - 1].last = FirstIn(f, m - 1) + f.items[m - 1].members - 1
          BY <4>1, MembersFields
        <5>3. QED
          BY <4>2, <5>1, <5>2 DEF FirstIn
      <4>5. ASSUME NEW j \in 1 .. m - 1
            PROVE  Members(f)[j].last <= LastBefore(f, m)
        <5>1. CASE j = m - 1
          BY <4>2, <4>3, <5>1
        <5>2. CASE j # m - 1
          <6>1. j \in 1 .. (m - 1) - 1 /\ j \in Positions(f) /\ j \in Nat /\ ~(m <= j)
            BY <2>3, <5>2, InputsTyped DEF Positions
          <6>2. Good(j)
            <7>1. j \notin Bad
              <8> HIDE DEF Bad
              <8> QED
                BY <2>2, <6>1
            <7>2. QED
              BY <6>1, <7>1
          <6>3. QED
            BY <4>2, <4>3, <4>4, <6>1, <6>2
        <5>3. QED
          BY <5>1, <5>2
      <4>6. QED
        BY <4>2, <4>3, <4>5
    <3>3. QED
      BY <3>1, <3>2
  <2>5. Members(f)[m].last \in Nat
    <3>1. f.items[m].members \in Nat \ {0}
      BY <2>3, InputsTyped DEF Items
    <3>2. Members(f)[m].last = FirstIn(f, m) + f.items[m].members - 1
      BY <2>3, MembersFields
    <3>3. QED
      BY <2>4, <3>1, <3>2 DEF FirstIn
  <2>6. QED
    BY <2>4, <2>5
<1>2. QED
  BY <1>1, MembersFields

\* What a gzip member holds first, from record to record: a record that begins in
\* a member is the first it holds, one that does not shares the one before.
LEMMA MemberHolds ==
  ASSUME NEW f \in Inputs, NEW i \in Positions(f)
  PROVE  /\ Begins(f, i) => HeldFirst(f, Members(f)[i].first) = i
         /\ ~Begins(f, i) =>
               /\ i > 1
               /\ Members(f)[i].first = Members(f)[i - 1].last
               /\ HeldFirst(f, Members(f)[i].first) \in 1 .. i - 1
         /\ HeldFirst(f, Members(f)[i].last) \in 1 .. i
         /\ Begins(f, i) \/ f.items[i].members > 1 =>
               HeldFirst(f, Members(f)[i].last) = i
         /\ ~(Begins(f, i) \/ f.items[i].members > 1) =>
               Members(f)[i].last = Members(f)[i - 1].last
<1> DEFINE Through(m) == {j \in Positions(f) : Members(f)[j].last >= m}
           before == LastBefore(f, i)
           first == Members(f)[i].first
           last == Members(f)[i].last
<1>1. i \in Nat /\ i >= 1 /\ f.items[i].members \in Nat \ {0}
  BY InputsTyped DEF Positions, Items
<1>2. /\ before \in Nat /\ last \in Nat /\ first = FirstIn(f, i)
      /\ last = FirstIn(f, i) + f.items[i].members - 1
      /\ \A j \in 1 .. i - 1 : Members(f)[j].last <= before
  BY MembersGrow
<1>3. \A j \in Positions(f) : j \in Nat /\ j >= 1 /\ Members(f)[j].last \in Nat
  BY MembersGrow, InputsTyped DEF Positions
<1>4. \A m : Through(m) \subseteq Nat
  BY <1>3
<1>5. ASSUME NEW m \in Nat, m > before, m <= last
      PROVE  HeldFirst(f, m) = i
  <2>1. i \in Through(m)
    BY <1>2, <1>5
  <2>2. ASSUME NEW k \in Through(m) PROVE i <= k
    <3>1. k \notin 1 .. i - 1
      BY <1>2, <1>3, <1>5
    <3>2. QED
      BY <1>1, <1>3, <3>1
  <2> HIDE DEF Through
  <2>3. Min(Through(m)) = i
    BY <1>4, <2>1, <2>2, MinIs
  <2>4. QED
    BY <2>3 DEF HeldFirst, Through
<1>6. ASSUME NEW j \in Positions(f), NEW m \in Nat, m <= Members(f)[j].last
      PROVE  HeldFirst(f, m) \in 1 .. j
  <2>1. j \in Through(m)
    BY <1>3, <1>6
  <2>2. Min(Through(m)) \in Through(m) /\ Min(Through(m)) <= j
    <3> HIDE DEF Through
    <3> QED
      BY <1>4, <2>1, MinOfPositions
  <2>3. Min(Through(m)) \in 1 .. j
    BY <1>3, <2>2
  <2>4. QED
    BY <2>3 DEF HeldFirst
<1>7. Begins(f, i) => first = before + 1 /\ first <= last
  BY <1>1, <1>2 DEF FirstIn
<1>8. ~Begins(f, i) =>
         /\ i > 1 /\ i - 1 \in Positions(f) /\ before = Members(f)[i - 1].last
         /\ first = before /\ first <= last
  BY <1>1, <1>2, InputsTyped DEF FirstIn, Begins, LastBefore, Positions
<1>9. Begins(f, i) \/ f.items[i].members > 1 => last > before
  BY <1>1, <1>2 DEF FirstIn
<1>10. ~(Begins(f, i) \/ f.items[i].members > 1) => last = before
  BY <1>1, <1>2 DEF FirstIn
<1>11. Begins(f, i) => HeldFirst(f, first) = i
  <2> SUFFICES ASSUME Begins(f, i) PROVE HeldFirst(f, first) = i
    OBVIOUS
  <2>1. first \in Nat /\ first > before /\ first <= last
    BY <1>2, <1>7
  <2>2. QED
    BY <1>5, <2>1
<1>12. ~Begins(f, i) => HeldFirst(f, first) \in 1 .. i - 1
  <2> SUFFICES ASSUME ~Begins(f, i) PROVE HeldFirst(f, first) \in 1 .. i - 1
    OBVIOUS
  <2>1. first \in Nat /\ i - 1 \in Positions(f) /\ first <= Members(f)[i - 1].last
    BY <1>2, <1>8
  <2>2. QED
    BY <1>6, <2>1
<1>13. HeldFirst(f, last) \in 1 .. i
  BY <1>2, <1>6
<1>14. Begins(f, i) \/ f.items[i].members > 1 => HeldFirst(f, last) = i
  BY <1>2, <1>5, <1>9
<1> HIDE DEF first, last, before
<1>15. QED
  BY <1>8, <1>10, <1>11, <1>12, <1>13, <1>14 DEF first, last

-----------------------------------------------------------------------------
(* The records before one.                                                 *)

LEMMA BeforeIs ==
  ASSUME NEW f \in Inputs, NEW i \in Nat
  PROVE  /\ Before(f, i) \subseteq 1 .. i - 1
         /\ Infos(f, i) \subseteq 1 .. i - 1
         /\ i > 0 /\ Reads(f, i) => Before(f, i + 1) = Before(f, i) \cup {i}
         /\ i > 0 /\ ~Reads(f, i) => Before(f, i + 1) = Before(f, i)
         /\ i > 0 /\ Reads(f, i) /\ Record(f, i).type = "warcinfo" =>
               Infos(f, i + 1) = Infos(f, i) \cup {i}
         /\ i > 0 /\ ~(Reads(f, i) /\ Record(f, i).type = "warcinfo") =>
               Infos(f, i + 1) = Infos(f, i)
<1>1. i > 0 => 1 .. (i + 1) - 1 = (1 .. i - 1) \cup {i}
  OBVIOUS
<1>2. QED
  BY <1>1 DEF Before, Infos

LEMMA GreatestIsNew ==
  ASSUME NEW i \in Nat \ {0}, NEW S, S \subseteq 1 .. i - 1
  PROVE  Max(S \cup {i}) = i
<1>1. S \cup {i} \subseteq 1 .. i /\ \A k \in S \cup {i} : k <= i
  OBVIOUS
<1>2. QED
  BY <1>1, MaxIs

-----------------------------------------------------------------------------
(* The reports are sequences of results.                                   *)

LEMMA MembershipTyped ==
  ASSUME NEW f \in Inputs, NEW i \in Positions(f)
  PROVE  MembershipReport(f, i) \in Seq(Findings(i))
<1>1. {"SharedGzipMember", "SplitGzipMember", "BlankLinesBefore"} \subseteq Rules
  BY DEF Rules
<1>2. i \in Nat
  BY InputsTyped DEF Positions
<1>3. HeldFirst(f, Members(f)[i].first) \in Nat
  BY <1>2, MemberHolds
<1> DEFINE held == HeldFirst(f, Members(f)[i].first)
           item == f.items[i]
<1>4. When(f.gzip /\ held # i, FaultNaming(i, "SharedGzipMember", held)) \in Seq(Findings(i))
  <2> HIDE DEF held
  <2>1. held \in Nat
    BY <1>3 DEF held
  <2>2. QED
    BY <1>1, <1>2, <2>1, WhenNamingFinding
<1>5. /\ When(f.gzip /\ item.members > 1, Fault(i, "SplitGzipMember")) \in Seq(Findings(i))
      /\ When(item.padding > 0, Fault(i, "BlankLinesBefore")) \in Seq(Findings(i))
  BY <1>1, <1>2, WhenFinding
<1> HIDE DEF held, item
<1>6. QED
  BY <1>4, <1>5, Concat2 DEF MembershipReport, held, item

LEMMA HeaderTyped ==
  ASSUME NEW f \in Inputs, NEW i \in Positions(f)
  PROVE  HeaderReport(f, i) \in Seq(Findings(i))
<1>1. {"NonCanonicalHeaderOrder", "DuplicateRecordId", "DateOutOfOrder"} \subseteq Rules
  BY DEF Rules
<1>2. i \in Nat /\ i - 1 \in Nat
  BY InputsTyped DEF Positions
<1> DEFINE r == Record(f, i)
           same == {j \in Before(f, i) : Record(f, j).id = r.id}
           last == Max(Before(f, i))
<1>3. same # {} => Min(same) \in Nat
  <2>1. same \subseteq Nat
    BY <1>2, BeforeIs
  <2> HIDE DEF same
  <2>2. QED
    BY <2>1, MinOfPositions
<1>4. Before(f, i) # {} => last \in Nat
  BY <1>2, BeforeIs, MaxOfPositions
<1> HIDE DEF r, same, last
<1>5. /\ When(~r.ordered, Fault(i, "NonCanonicalHeaderOrder")) \in Seq(Findings(i))
      /\ When(same # {}, FaultNaming(i, "DuplicateRecordId", Min(same))) \in Seq(Findings(i))
  BY <1>1, <1>2, <1>3, WhenFinding, WhenNamingFinding
<1>6. When(Before(f, i) # {} /\ r.date < Record(f, last).date,
           FaultNaming(i, "DateOutOfOrder", last)) \in Seq(Findings(i))
  BY <1>1, <1>2, <1>4, WhenNamingFinding
<1>7. QED
  BY <1>5, <1>6, Concat2 DEF HeaderReport, r, same, last

LEMMA WarcinfoTyped ==
  ASSUME NEW f, NEW i \in Nat
  PROVE  WarcinfoReport(f, i) \in Seq(Findings(i))
<1>1. {"FirstRecordNotWarcinfo", "MissingWarcinfoId", "WrongWarcinfoId",
       "WrongRequestHost"} \subseteq Rules
  BY DEF Rules
<1> DEFINE r == Record(f, i)
           Own == IF r.type = "warcinfo" THEN CollectionFaults(i, r)
                  ELSE When(r.warcinfo = None, Fault(i, "MissingWarcinfoId"))
                       \o When(r.warcinfo # None /\ r.warcinfo # CurrentWarcinfo(f, i),
                               Fault(i, "WrongWarcinfoId"))
           First == When(i = 1 /\ r.type # "warcinfo", Fault(i, "FirstRecordNotWarcinfo"))
           Host == When(/\ r.type = "request"
                        /\ CurrentHost(f, i) # None
                        /\ HostOf[r.target] # CurrentHost(f, i),
                        Fault(i, "WrongRequestHost"))
<1>2. First \in Seq(Findings(i)) /\ Host \in Seq(Findings(i))
  BY <1>1, WhenFinding
<1>3. Own \in Seq(Findings(i))
  <2>1. /\ When(r.warcinfo = None, Fault(i, "MissingWarcinfoId")) \in Seq(Findings(i))
        /\ When(r.warcinfo # None /\ r.warcinfo # CurrentWarcinfo(f, i),
                Fault(i, "WrongWarcinfoId")) \in Seq(Findings(i))
    BY <1>1, WhenFinding
  <2>2. QED
    BY <2>1, CollectionFindings, Concat2
<1>4. WarcinfoReport(f, i) = First \o Own \o Host
  BY DEF WarcinfoReport
<1> HIDE DEF First, Own, Host
<1>5. QED
  BY <1>2, <1>3, <1>4, Concat2

LEMMA CaptureTyped ==
  ASSUME NEW f, NEW i \in Nat
  PROVE  CaptureReport(f, i) \in Seq(Findings(i))
<1>1. {"ResponseWithoutRequest", "WrongConcurrentTo", "WrongTargetUri",
       "MissingFetchTime", "UnexpectedConcurrentTo"} \subseteq Rules
  BY DEF Rules
<1>2. \A c : /\ When(c, Fault(i, "ResponseWithoutRequest")) \in Seq(Findings(i))
             /\ When(c, Fault(i, "WrongConcurrentTo")) \in Seq(Findings(i))
             /\ When(c, Fault(i, "WrongTargetUri")) \in Seq(Findings(i))
             /\ When(c, Fault(i, "MissingFetchTime")) \in Seq(Findings(i))
             /\ When(c, Fault(i, "UnexpectedConcurrentTo")) \in Seq(Findings(i))
  BY <1>1, WhenFinding
<1>3. QED
  BY <1>2, Concat2 DEF CaptureReport

LEMMA RevisitTyped ==
  ASSUME NEW f, NEW i \in Nat
  PROVE  RevisitReport(f, i) \in Seq(Findings(i))
<1>1. "RefersToUnknownRecord" \in Rules /\ <<>> \in Seq(Findings(i))
  BY DEF Rules
<1>2. \A c : When(c, Fault(i, "RefersToUnknownRecord")) \in Seq(Findings(i))
  BY <1>1, WhenFinding
<1>3. RevisitFaults(i, Record(f, i)) \in Seq(Findings(i))
  BY RevisitFindings
<1>4. QED
  BY <1>1, <1>2, <1>3, Concat2 DEF RevisitReport

LEMMA LateTyped ==
  ASSUME NEW f, NEW i \in Nat
  PROVE  LateReport(f, i) \in Seq(Results)
<1>1. {"RequestWithoutResponse", "ResponseWithoutMetadata",
       "TrailingBlankLines"} \subseteq Rules
  BY DEF Rules
<1>2. \A c : /\ When(c, Fault(i, "RequestWithoutResponse")) \in Seq(Findings(i))
             /\ When(c, Fault(i, "ResponseWithoutMetadata")) \in Seq(Findings(i))
             /\ When(c, Fault(i, "TrailingBlankLines")) \in Seq(Findings(i))
  BY <1>1, WhenFinding
<1>3. LateReport(f, i) \in Seq(Findings(i))
  BY <1>2, Concat2 DEF LateReport
<1>4. QED
  BY <1>3, FindingSeqs

LEMMA EarlyTyped ==
  ASSUME NEW f \in Inputs, NEW i \in Positions(f)
  PROVE  EarlyReport(f, i) \in Seq(Results)
<1>1. i \in Nat
  BY InputsTyped DEF Positions
<1> DEFINE r == Record(f, i)
<1>2. /\ MembershipReport(f, i) \in Seq(Results)
      /\ HeaderReport(f, i) \in Seq(Results)
      /\ BlockFaults(i, r) \in Seq(Results)
      /\ DigestFaults(i, r) \in Seq(Results)
      /\ IdentityFaults(i, r) \in Seq(Results)
      /\ WarcinfoReport(f, i) \in Seq(Results)
      /\ CaptureReport(f, i) \in Seq(Results)
      /\ RevisitReport(f, i) \in Seq(Results)
  BY <1>1, MembershipTyped, HeaderTyped, BlockFindings, DigestFindings,
     IdentityFindings, WarcinfoTyped, CaptureTyped, RevisitTyped, FindingSeqs
<1>3. RuleFaults(f, i) \in Seq(Results)
  <2>1. CASE i \in f.broken /\ i > f.reach
    <3>1. i - f.reach \in Nat
      BY <1>1, <2>1, InputsTyped
    <3>2. Fault(i - f.reach, "Custom") \in Results
      <4>1. "Custom" \in Rules
        BY DEF Rules
      <4>2. QED
        BY <3>1, <4>1 DEF Fault, Results
    <3>3. QED
      BY <3>2, WhenSeq DEF RuleFaults
  <2>2. CASE ~(i \in f.broken /\ i > f.reach)
    BY <2>2 DEF RuleFaults, When
  <2>3. QED
    BY <2>1, <2>2
<1> HIDE DEF r
<1>4. MembershipReport(f, i) \o HeaderReport(f, i) \o BlockFaults(i, r)
      \o DigestFaults(i, r) \o IdentityFaults(i, r) \o WarcinfoReport(f, i)
      \o CaptureReport(f, i) \o RevisitReport(f, i) \o RuleFaults(f, i) \in Seq(Results)
  BY <1>2, <1>3, Concat2
<1>5. QED
  BY <1>4 DEF EarlyReport, r

LEMMA RecordTyped ==
  ASSUME NEW f \in Inputs, NEW i \in Positions(f)
  PROVE  RecordReport(f, i) \in Seq(Results)
<1>1. i \in Nat
  BY InputsTyped DEF Positions
<1>2. Ok(i) \in Results /\ Error(i) \in Results
  BY <1>1 DEF Ok, Error, Results
<1>3. <<Ok(i)>> \in Seq(Results) /\ <<Error(i)>> \in Seq(Results)
  BY <1>2
<1>4. EarlyReport(f, i) \o LateReport(f, i) \in Seq(Results)
  BY <1>1, EarlyTyped, LateTyped, Concat2
<1>5. QED
  BY <1>3, <1>4 DEF RecordReport

-----------------------------------------------------------------------------
(* The reports on the first records of a file.                             *)

LEMMA ReportsUnfold ==
  ASSUME NEW f \in Inputs
  PROVE  /\ Reports(f)[0] = <<>>
         /\ \A n \in Positions(f) :
               Reports(f)[n] = Reports(f)[n - 1] \o RecordReport(f, n)
<1> DEFINE N == Len(f.items)
           Cell(s, k) == IF k = 0 THEN <<>> ELSE s[k - 1] \o RecordReport(f, k)
           Defines(s, n) == s = [k \in 0 .. n |-> Cell(s, k)]
           Lacking == {n \in Nat : ~ \E s : Defines(s, n)}
<1>1. Lacking = {}
  <2> SUFFICES ASSUME Lacking # {} PROVE FALSE
    OBVIOUS
  <2>1. PICK m \in Lacking : \A k \in Lacking : m <= k
    <3> HIDE DEF Lacking
    <3>1. Lacking \subseteq Nat
      BY DEF Lacking
    <3>2. QED
      BY <3>1, LeastNat
  <2>2. CASE m = 0
    <3>1. Defines([k \in 0 .. 0 |-> <<>>], 0)
      OBVIOUS
    <3>2. QED
      BY <2>1, <2>2, <3>1
  <2>3. CASE m # 0
    <3>1. m \in Nat \ {0} /\ m - 1 \in Nat /\ m - 1 \notin Lacking
      <4>1. m \in Nat
        BY <2>1
      <4>2. m - 1 \in Nat /\ ~(m <= m - 1)
        BY <2>3, <4>1
      <4> HIDE DEF Lacking
      <4>3. QED
        BY <2>1, <2>3, <4>1, <4>2
    <3>2. PICK s : Defines(s, m - 1)
      BY <3>1
    <3> DEFINE t == [k \in 0 .. m |-> IF k = m THEN Cell(s, m) ELSE s[k]]
    <3> HIDE DEF Cell
    <3>3. \A k \in 0 .. m - 1 : s[k] = Cell(s, k)
      BY <3>1, <3>2
    <3>4. \A k \in 0 .. m - 1 : t[k] = s[k]
      BY <3>1
    <3>5. t[m] = Cell(s, m)
      BY <3>1
    <3>6. ASSUME NEW k \in 0 .. m
          PROVE  t[k] = Cell(t, k)
      <4> HIDE DEF t
      <4>1. Cell(t, k) = Cell(s, k)
        BY <3>1, <3>4 DEF Cell
      <4>2. t[k] = Cell(s, k)
        BY <3>1, <3>3, <3>4, <3>5
      <4>3. QED
        BY <4>1, <4>2
    <3>7. t = [k \in 0 .. m |-> Cell(t, k)]
      <4>1. t = [k \in 0 .. m |-> t[k]]
        OBVIOUS
      <4> HIDE DEF t
      <4>2. QED
        BY <3>6, <4>1
    <3>8. Defines(t, m)
      <4> HIDE DEF t
      <4> QED
        BY <3>7
    <3>9. QED
      BY <2>1, <3>8
  <2>4. QED
    BY <2>2, <2>3
<1>2. N \in Nat
  BY InputsTyped
<1>3. \E s : Defines(s, N)
  <2> HIDE DEF Defines, N
  <2>1. N \notin Lacking
    BY <1>1
  <2>2. QED
    BY <1>2, <2>1
<1>4. Reports(f) = CHOOSE s : Defines(s, N)
  BY DEF Reports
<1>5. Defines(Reports(f), N)
  <2> HIDE DEF Defines
  <2> QED
    BY <1>3, <1>4
<1>6. \A k \in 0 .. N : Reports(f)[k] = Cell(Reports(f), k)
  <2> HIDE DEF Cell
  <2> QED
    BY <1>5
<1>7. 0 \in 0 .. N /\ \A n \in Positions(f) : n \in 0 .. N /\ n # 0
  BY <1>2 DEF Positions
<1> HIDE DEF N
<1>8. QED
  BY <1>6, <1>7

LEMMA ReportsTyped ==
  ASSUME NEW f \in Inputs, NEW n \in 0 .. Len(f.items)
  PROVE  Reports(f)[n] \in Seq(Results)
<1> DEFINE Bad == {k \in 0 .. Len(f.items) : Reports(f)[k] \notin Seq(Results)}
<1>1. Bad = {}
  <2> SUFFICES ASSUME Bad # {} PROVE FALSE
    OBVIOUS
  <2>1. Bad \subseteq Nat
    BY InputsTyped
  <2>2. PICK m \in Bad : \A k \in Bad : m <= k
    <3> HIDE DEF Bad
    <3> QED
      BY <2>1, LeastNat
  <2>3. CASE m = 0
    <3>1. <<>> \in Seq(Results)
      OBVIOUS
    <3>2. QED
      BY <2>3, <3>1, ReportsUnfold
  <2>4. CASE m # 0
    <3>1. m \in Positions(f) /\ m - 1 \in 0 .. Len(f.items) /\ ~(m <= m - 1)
      BY <2>4, InputsTyped DEF Positions
    <3>2. Reports(f)[m - 1] \in Seq(Results)
      <4>1. m - 1 \notin Bad
        <5> HIDE DEF Bad
        <5> QED
          BY <2>2, <3>1
      <4>2. QED
        BY <3>1, <4>1
    <3>3. RecordReport(f, m) \in Seq(Results)
      BY <3>1, RecordTyped
    <3>4. Reports(f)[m] = Reports(f)[m - 1] \o RecordReport(f, m)
      BY <3>1, ReportsUnfold
    <3>5. Reports(f)[m] \in Seq(Results)
      BY <3>2, <3>3, <3>4, Concat2
    <3>6. QED
      BY <3>5
  <2>5. QED
    BY <2>3, <2>4
<1>2. QED
  BY <1>1

-----------------------------------------------------------------------------
(* What is remembered stands for what the rules look up.                   *)

LEMMA NextItem ==
  ASSUME ScanTypeOK, MoreItems
  PROVE  /\ input \in Inputs
         /\ index \in Nat
         /\ index + 1 \in Positions(input)
         /\ Item = input.items[index + 1]
         /\ Held = Record(input, index + 1)
         /\ Item.kind = "record" <=> Reads(input, index + 1)
         /\ index > 0 => index \in Positions(input)
<1>1. input \in Inputs /\ index \in 0 .. Len(input.items)
  BY DEF ScanTypeOK
<1>2. index \in Nat /\ index + 1 \in Positions(input)
      /\ (index > 0 => index \in Positions(input))
  BY <1>1, InputsTyped DEF Positions, MoreItems
<1>3. QED
  BY <1>1, <1>2 DEF Item, Held, Record, Reads

LEMMA FramingIsReported ==
  ASSUME ScanTypeOK, MemberRemembered, MoreItems
  PROVE  FramingFaults(index + 1, Item) = MembershipReport(input, index + 1)
<1> DEFINE i == index + 1
           held == HeldFirst(input, Members(input)[i].first)
<1>1. input \in Inputs /\ index \in Nat /\ i \in Positions(input)
      /\ Item = input.items[i]
      /\ (index > 0 => index \in Positions(input))
  BY NextItem
<1>2. Begins(input, i) => held = i
  BY <1>1, MemberHolds
<1>3. ASSUME input.gzip, ~Begins(input, i)
      PROVE  held = memberFirst /\ held # i
  <2>1. i > 1 /\ held \in 1 .. i - 1 /\ Members(input)[i].first = Members(input)[i - 1].last
    BY <1>1, <1>3, MemberHolds
  <2>2. i - 1 = index /\ index > 0
    BY <1>1, <2>1
  <2>3. memberFirst = HeldFirst(input, Members(input)[index].last)
    BY <1>3, <2>2 DEF MemberRemembered
  <2>4. held = memberFirst
    BY <2>1, <2>2, <2>3
  <2> HIDE DEF held
  <2>5. QED
    BY <1>1, <2>1, <2>4
<1>4. When(input.gzip /\ ~Begins(input, i), FaultNaming(i, "SharedGzipMember", memberFirst))
      = When(input.gzip /\ held # i, FaultNaming(i, "SharedGzipMember", held))
  <2> HIDE DEF i, held
  <2> QED
    BY <1>2, <1>3 DEF When
<1>5. QED
  BY <1>1, <1>4 DEF FramingFaults, MembershipReport

LEMMA HeaderIsReported ==
  ASSUME ScanTypeOK, IdsRemembered, DateRemembered, MoreItems
  PROVE  HeaderFaults(index + 1, Held) = HeaderReport(input, index + 1)
<1> DEFINE i == index + 1
           r == Record(input, i)
           same == {j \in Before(input, i) : Record(input, j).id = r.id}
           last == Max(Before(input, i))
<1>1. input \in Inputs /\ index \in Nat /\ Held = r
  BY NextItem
<1>2. r.id \in DOMAIN recordIds <=> same # {}
  BY DEF IdsRemembered, Scanned
<1>3. r.id \in DOMAIN recordIds => recordIds[r.id] = Min(same)
  BY DEF IdsRemembered, Scanned
<1>4. previousDate # None <=> Before(input, i) # {}
  <2>1. ASSUME Before(input, i) # {}
        PROVE  previousDate # None
    <3>1. last \in Before(input, i) /\ Before(input, i) \subseteq 1 .. index
      <4>1. i \in Nat /\ i - 1 = index
        BY <1>1
      <4>2. Before(input, i) \subseteq 1 .. index
        BY <1>1, <4>1, BeforeIs
      <4>3. QED
        BY <1>1, <2>1, <4>2, MaxOfPositions
    <3>2. last \in Positions(input) /\ last \in Nat
      <4>1. index \in 0 .. Len(input.items)
        BY DEF ScanTypeOK
      <4> HIDE DEF last
      <4>2. QED
        BY <1>1, <3>1, <4>1, InputsTyped DEF Positions
    <3>3. input.items[last].record \in DOMAIN Content
      BY <1>1, <3>2, InputsTyped DEF Items
    <3>4. previousDate = [index |-> last, date |-> Record(input, last).date]
      BY <2>1 DEF DateRemembered, Scanned
    <3> HIDE DEF last
    <3>5. previousDate \in [index : Nat, date : {Content[n].date : n \in DOMAIN Content}]
      BY <3>2, <3>3, <3>4 DEF Record
    <3>6. QED
      BY <3>5, NoneAssumption
  <2>2. QED
    BY <2>1 DEF DateRemembered, Scanned
<1>5. Before(input, i) # {} =>
         previousDate.index = last /\ previousDate.date = Record(input, last).date
  BY DEF DateRemembered, Scanned
<1>6. When(r.id \in DOMAIN recordIds, FaultNaming(i, "DuplicateRecordId", recordIds[r.id]))
      = When(same # {}, FaultNaming(i, "DuplicateRecordId", Min(same)))
  <2> HIDE DEF i, r, same
  <2> QED
    BY <1>2, <1>3 DEF When
<1>7. When(previousDate # None /\ r.date < previousDate.date,
           FaultNaming(i, "DateOutOfOrder", previousDate.index))
      = When(Before(input, i) # {} /\ r.date < Record(input, last).date,
             FaultNaming(i, "DateOutOfOrder", last))
  <2> HIDE DEF i, r, last
  <2>1. CASE Before(input, i) = {}
    BY <1>4, <2>1 DEF When
  <2>2. CASE Before(input, i) # {}
    BY <1>4, <1>5, <2>2 DEF When
  <2>3. QED
    BY <2>1, <2>2
<1>8. HeaderFaults(i, r) = HeaderReport(input, i)
  BY <1>6, <1>7 DEF HeaderFaults, HeaderReport
<1>9. QED
  BY <1>1, <1>8

LEMMA WarcinfoIsReported ==
  ASSUME ScanTypeOK, CollectionRemembered, MoreItems
  PROVE  WarcinfoFaults(index + 1, Held) = WarcinfoReport(input, index + 1)
<1> DEFINE i == index + 1
           r == Record(input, i)
<1>1. Held = r
  BY NextItem
<1>2. warcinfoId = CurrentWarcinfo(input, i) /\ collectionHost = CurrentHost(input, i)
  BY DEF CollectionRemembered
<1>3. When(r.warcinfo \notin {None, warcinfoId}, Fault(i, "WrongWarcinfoId"))
      = When(r.warcinfo # None /\ r.warcinfo # CurrentWarcinfo(input, i),
             Fault(i, "WrongWarcinfoId"))
  <2> HIDE DEF i, r
  <2> QED
    BY <1>2 DEF When
<1>4. WarcinfoFaults(i, r) = WarcinfoReport(input, i)
  BY <1>2, <1>3 DEF WarcinfoFaults, WarcinfoReport
<1>5. QED
  BY <1>1, <1>4

LEMMA RevisitIsReported ==
  ASSUME ScanTypeOK, IdsRemembered, MoreItems
  PROVE  (IF Held.type = "revisit"
          THEN RevisitFaults(index + 1, Held)
               \o ReferenceFaults(index + 1, Held, RecordIds(index + 1, Held))
          ELSE <<>>) = RevisitReport(input, index + 1)
<1> DEFINE i == index + 1
           r == Record(input, i)
           ids == RecordIds(i, r)
           unknown == \A j \in Before(input, i) : Record(input, j).id # r.refersTo
<1>1. input \in Inputs /\ index \in Nat /\ i \in Nat /\ i - 1 = index /\ Held = r
  BY NextItem
<1>2. Before(input, i) \subseteq 1 .. index
  BY <1>1, BeforeIs
<1>3. (r.refersTo \in DOMAIN ids => ids[r.refersTo] >= i) <=> unknown
  <2>1. DOMAIN ids = DOMAIN recordIds \cup {r.id}
    BY DEF RecordIds
  <2>2. \A id \in DOMAIN ids :
           ids[id] = IF id \in DOMAIN recordIds THEN recordIds[id] ELSE i
    BY DEF RecordIds
  <2>3. r.refersTo \in DOMAIN recordIds <=> ~unknown
    BY DEF IdsRemembered, Scanned
  <2>4. ASSUME r.refersTo \in DOMAIN recordIds
        PROVE  ids[r.refersTo] \in 1 .. index
    <3> DEFINE uses == {j \in Before(input, i) : Record(input, j).id = r.refersTo}
    <3>1. recordIds[r.refersTo] = Min(uses)
      BY <2>4 DEF IdsRemembered, Scanned
    <3>2. uses # {} /\ uses \subseteq Nat
      BY <1>2, <2>3, <2>4
    <3>3. uses \subseteq 1 .. index
      BY <1>2
    <3> HIDE DEF uses
    <3>4. Min(uses) \in uses
      BY <3>2, MinOfPositions
    <3>5. QED
      BY <2>1, <2>2, <2>4, <3>1, <3>3, <3>4
  <2> HIDE DEF ids, unknown, r
  <2>5. CASE r.refersTo \in DOMAIN recordIds
    <3>1. ~(ids[r.refersTo] >= i)
      BY <1>1, <2>4, <2>5
    <3>2. QED
      BY <2>1, <2>3, <2>5, <3>1
  <2>6. CASE r.refersTo \notin DOMAIN recordIds
    <3>1. r.refersTo \in DOMAIN ids => ids[r.refersTo] = i
      BY <2>2, <2>6
    <3>2. QED
      BY <1>1, <2>3, <2>6, <3>1
  <2>7. QED
    BY <2>5, <2>6
<1>4. When(/\ r.refersTo # None
           /\ r.refersTo \in DOMAIN ids => ids[r.refersTo] >= i,
           Fault(i, "RefersToUnknownRecord"))
      = When(r.refersTo # None /\ unknown, Fault(i, "RefersToUnknownRecord"))
  <2> HIDE DEF i, r, ids, unknown
  <2> QED
    BY <1>3 DEF When
<1>5. ReferenceFaults(i, r, ids)
      = When(r.refersTo # None /\ unknown, Fault(i, "RefersToUnknownRecord"))
  BY <1>4 DEF ReferenceFaults
<1> HIDE DEF ids
<1>6. (IF r.type = "revisit" THEN RevisitFaults(i, r) \o ReferenceFaults(i, r, ids)
       ELSE <<>>) = RevisitReport(input, i)
  BY <1>5 DEF RevisitReport
<1>7. QED
  BY <1>1, <1>6 DEF ids

-----------------------------------------------------------------------------
(* Captures, as they are awaited.                                          *)

LEMMA AwaitedPresent ==
  ASSUME NEW f \in Inputs, NEW i \in Positions(f)
  PROVE  AwaitedAfter(f, i) # None <=> Record(f, i).type = "request" \/ Answers(f, i)
<1> DEFINE ids == {Content[n].id : n \in DOMAIN Content}
           targets == {Content[n].target : n \in DOMAIN Content}
<1>1. i \in Nat
  BY InputsTyped DEF Positions
<1>2. \A j \in Positions(f) : Record(f, j).id \in ids /\ Record(f, j).target \in targets
  BY InputsTyped DEF Record, Items
<1>3. Answers(f, i) => i - 1 \in Positions(f)
  BY <1>1, InputsTyped DEF Answers, Positions
<1>4. Record(f, i).type = "request" \/ Answers(f, i) =>
         AwaitedAfter(f, i) \in [slot : {"Response", "Metadata"}, index : Nat,
                                 id : ids, target : targets]
  <2> HIDE DEF ids, targets
  <2> QED
    BY <1>1, <1>2, <1>3 DEF AwaitedAfter
<1>5. QED
  BY <1>4, NoneAssumption DEF AwaitedAfter

\* Whether the record read last is current, and what it awaits.
LEMMA PendingIs ==
  ASSUME ScanTypeOK, LastRemembered, ~finished
  PROVE  /\ index = 0 => pending = None /\ clean = 0 /\ lastRecord = 0
         /\ index > 0 /\ ~Reads(input, index) =>
               pending = None /\ clean = 0 /\ lastRecord = 0
         /\ index > 0 /\ Reads(input, index) =>
               /\ pending = AwaitedAfter(input, index)
               /\ pending # None <=>
                     Record(input, index).type = "request" \/ Answers(input, index)
               /\ lastRecord = index
               /\ clean = IF EarlyReport(input, index) = <<>> THEN index ELSE 0
<1>1. index \in Nat /\ input \in Inputs /\ (index > 0 => index \in Positions(input))
  BY InputsTyped DEF ScanTypeOK, Positions
<1>2. index > 0 => (AwaitedAfter(input, index) # None <=>
                       Record(input, index).type = "request" \/ Answers(input, index))
  BY <1>1, AwaitedPresent
<1>3. QED
  BY <1>1, <1>2 DEF LastRemembered

LEMMA ExpectedIs ==
  ASSUME ScanTypeOK, LastRemembered, ~finished, MoreItems, Item.kind = "record"
  PROVE  LET i == index + 1
             r == Held
             expected == Expected(r)
         IN  /\ r.type \in Captures =>
                   /\ expected # None <=> Answers(input, i)
                   /\ ~Describes(input, i)
             /\ r.type = "metadata" =>
                   /\ expected # None <=> Describes(input, i)
                   /\ ~Answers(input, i)
             /\ r.type \notin Captures => ~Answers(input, i)
             /\ r.type # "metadata" => ~Describes(input, i)
             /\ r.type \in Captures \cup {"metadata"} /\ expected # None =>
                   /\ expected.id = Record(input, i - 1).id
                   /\ expected.target =
                         Record(input, IF Answers(input, i) THEN i - 1 ELSE i - 2).target
<1> DEFINE i == index + 1
           r == Held
           expected == Expected(r)
<1>1. /\ input \in Inputs /\ index \in Nat /\ i \in Positions(input) /\ i - 1 = index
      /\ i - 2 = index - 1 /\ (i > 1 <=> index > 0)
      /\ r = Record(input, i) /\ Reads(input, i)
      /\ (index > 0 => index \in Positions(input))
  <2>1. input \in Inputs /\ index \in Nat /\ i \in Positions(input)
        /\ r = Record(input, i) /\ Reads(input, i)
        /\ (index > 0 => index \in Positions(input))
    BY NextItem
  <2>2. QED
    BY <2>1
<1>2. /\ Answers(input, i) <=> /\ index > 0 /\ Reads(input, index)
                               /\ Record(input, index).type = "request"
                               /\ r.type \in Captures
      /\ Describes(input, i) <=> /\ index > 0 /\ Answers(input, index)
                                 /\ r.type = "metadata"
  BY <1>1 DEF Answers, Describes
<1>3. /\ Answers(input, index) => Reads(input, index)
                                  /\ Record(input, index).type \in Captures
      /\ "request" \notin Captures /\ "metadata" \notin Captures
  BY DEF Answers, Captures
<1> HIDE DEF r
<1>4. CASE pending = None
  <2>1. expected = None
    BY <1>4 DEF Expected
  <2>2. ~Answers(input, i) /\ ~Describes(input, i)
    BY <1>1, <1>2, <1>3, <1>4, PendingIs
  <2> HIDE DEF expected
  <2>3. QED
    BY <2>1, <2>2 DEF r, expected
<1>5. CASE pending # None
  <2>1. index > 0 /\ Reads(input, index) /\ pending = AwaitedAfter(input, index)
        /\ (Record(input, index).type = "request" \/ Answers(input, index))
    BY <1>1, <1>5, PendingIs
  <2>2. CASE Record(input, index).type = "request"
    <3>1. pending = [slot |-> "Response", index |-> index, id |-> Record(input, index).id,
                     target |-> Record(input, index).target]
      BY <2>1, <2>2 DEF AwaitedAfter
    <3>2. expected = IF r.type \in Captures THEN pending ELSE None
      BY <1>5, <3>1 DEF Expected, Accepts
    <3>3. (Answers(input, i) <=> r.type \in Captures) /\ ~Describes(input, i)
      BY <1>2, <1>3, <2>1, <2>2
    <3> HIDE DEF expected
    <3>4. QED
      BY <1>1, <1>3, <1>5, <3>1, <3>2, <3>3 DEF r, expected
  <2>3. CASE Answers(input, index)
    <3>1. pending = [slot |-> "Metadata", index |-> index, id |-> Record(input, index).id,
                     target |-> Record(input, index - 1).target]
      BY <1>3, <2>1, <2>3 DEF AwaitedAfter
    <3>2. expected = IF r.type = "metadata" THEN pending ELSE None
      BY <1>5, <3>1 DEF Expected, Accepts
    <3>3. (Describes(input, i) <=> r.type = "metadata") /\ ~Answers(input, i)
      BY <1>2, <1>3, <2>1, <2>3
    <3> HIDE DEF expected
    <3>4. QED
      BY <1>1, <1>3, <1>5, <3>1, <3>2, <3>3 DEF r, expected
  <2>4. QED
    BY <2>1, <2>2, <2>3
<1>6. QED
  BY <1>4, <1>5

LEMMA WhenIs ==
  ASSUME NEW c, NEW x
  PROVE  /\ c => When(c, x) = <<x>>
         /\ ~c => When(c, x) = <<>>
         /\ When(c, x) \in Seq({x})
         /\ When(c, x) \o <<>> = When(c, x)
         /\ <<>> \o When(c, x) = When(c, x)
<1>1. When(c, x) \in Seq({x})
  BY WhenSeq
<1>2. When(c, x) \o <<>> = When(c, x) /\ <<>> \o When(c, x) = When(c, x)
  BY <1>1, ConcatEmptySeq
<1>3. QED
  BY <1>1, <1>2 DEF When

LEMMA CaptureIsReported ==
  ASSUME ScanTypeOK, LastRemembered, ~finished, MoreItems, Item.kind = "record"
  PROVE  CaptureFaults(index + 1, Held, Expected(Held)) = CaptureReport(input, index + 1)
<1> DEFINE i == index + 1
           r == Held
           expected == Expected(r)
           answers == Answers(input, i)
           describes == Describes(input, i)
           request == IF answers THEN i - 1 ELSE i - 2
           linked == answers \/ describes
           U == When(TRUE, Fault(i, "ResponseWithoutRequest"))
           C == When(r.concurrent # <<Record(input, i - 1).id>>,
                     Fault(i, "WrongConcurrentTo"))
           T == When(r.target # Record(input, request).target, Fault(i, "WrongTargetUri"))
           F == When(~r.fetchTime, Fault(i, "MissingFetchTime"))
           L == When(r.concurrent # <<>>, Fault(i, "UnexpectedConcurrentTo"))
<1>1. r = Record(input, i)
  BY NextItem
<1>2. CaptureReport(input, i) =
         (IF r.type \in Captures /\ ~answers THEN U ELSE <<>>)
         \o (IF linked THEN C ELSE <<>>)
         \o (IF linked THEN T ELSE <<>>)
         \o (IF describes THEN F ELSE <<>>)
         \o (IF ~linked /\ r.type \notin Captures THEN L ELSE <<>>)
  <2> HIDE DEF i, r, answers, describes, request
  <2> QED
    BY <1>1 DEF CaptureReport, When, i, answers, describes, request
<1>3. /\ r.type \in Captures => (expected # None <=> answers) /\ ~describes
      /\ r.type = "metadata" => (expected # None <=> describes) /\ ~answers
      /\ r.type \notin Captures => ~answers
      /\ r.type # "metadata" => ~describes
      /\ r.type \in Captures \cup {"metadata"} /\ expected # None =>
            /\ expected.id = Record(input, i - 1).id
            /\ expected.target = Record(input, request).target
  BY ExpectedIs
<1>4. "metadata" \notin Captures
  BY DEF Captures
<1>5. /\ r.type \in Captures /\ expected = None =>
            CaptureFaults(i, r, expected) = U
      /\ r.type \in Captures /\ expected # None =>
            CaptureFaults(i, r, expected) = C \o T
      /\ r.type = "metadata" /\ expected # None =>
            CaptureFaults(i, r, expected) = C \o T \o F
      /\ r.type \notin Captures /\ ~(r.type = "metadata" /\ expected # None) =>
            CaptureFaults(i, r, expected) = L
  <2> HIDE DEF r, i, expected, answers, describes, request
  <2>1. expected # None /\ r.type \in Captures \cup {"metadata"} =>
           LinkFaults(i, r, expected) = C \o T
    BY <1>3 DEF LinkFaults, When
  <2> HIDE DEF C, T
  <2>2. QED
    BY <1>4, <2>1 DEF CaptureFaults, NoLinkFaults, When
<1>6. U \o <<>> = U /\ <<>> \o C = C /\ <<>> \o L = L /\ <<>> \o <<>> = <<>>
  BY WhenIs, ConcatEmptySeq, EmptySeq
<1>7. (C \o T) \o <<>> = C \o T /\ (C \o T \o F) \o <<>> = C \o T \o F
  <2> DEFINE S == {Fault(i, "WrongConcurrentTo"), Fault(i, "WrongTargetUri"),
                   Fault(i, "MissingFetchTime")}
  <2>1. C \in Seq(S) /\ T \in Seq(S) /\ F \in Seq(S)
    BY WhenSeq
  <2> HIDE DEF S, C, T, F
  <2>2. C \o T \in Seq(S) /\ C \o T \o F \in Seq(S)
    BY <2>1, Concat2
  <2>3. QED
    BY <2>2, ConcatEmptySeq
<1> HIDE DEF i, r, expected, answers, describes, request, U, C, T, F, L
<1>8. CASE r.type \in Captures /\ expected = None
  <2>1. ~answers /\ ~describes
    BY <1>3, <1>8
  <2>2. CaptureReport(input, i) = U \o <<>> \o <<>> \o <<>> \o <<>>
    BY <1>2, <1>8, <2>1
  <2>3. QED
    BY <1>5, <1>6, <1>8, <2>2 DEF i, r, expected
<1>9. CASE r.type \in Captures /\ expected # None
  <2>1. answers /\ ~describes
    BY <1>3, <1>9
  <2>2. CaptureReport(input, i) = <<>> \o C \o T \o <<>> \o <<>>
    BY <1>2, <1>9, <2>1
  <2>3. CaptureReport(input, i) = C \o T
    BY <1>6, <1>7, <2>2
  <2>4. QED
    BY <1>5, <1>9, <2>3 DEF i, r, expected
<1>10. CASE r.type = "metadata" /\ expected # None
  <2>1. ~answers /\ describes /\ r.type \notin Captures
    BY <1>3, <1>4, <1>10
  <2>2. CaptureReport(input, i) = <<>> \o C \o T \o F \o <<>>
    BY <1>2, <1>10, <2>1
  <2>3. CaptureReport(input, i) = C \o T \o F
    BY <1>6, <1>7, <2>2
  <2>4. QED
    BY <1>5, <1>10, <2>3 DEF i, r, expected
<1>11. CASE r.type \notin Captures /\ ~(r.type = "metadata" /\ expected # None)
  <2>1. ~answers /\ ~describes
    BY <1>3, <1>11
  <2>2. CaptureReport(input, i) = <<>> \o <<>> \o <<>> \o <<>> \o L
    BY <1>2, <1>11, <2>1
  <2>3. CaptureReport(input, i) = L
    BY <1>6, <2>2
  <2>4. QED
    BY <1>5, <1>11, <2>3 DEF i, r, expected
<1>12. QED
  BY <1>8, <1>9, <1>10, <1>11 DEF i, r, expected

-----------------------------------------------------------------------------
(* What is found as a record is checked, and once it is followed.          *)

LEMMA CheckedIsEarly ==
  ASSUME ScanInv, ~finished, MoreItems, Item.kind = "record"
  PROVE  Checked(index + 1, Item, Expected(Held)) = EarlyReport(input, index + 1)
<1> DEFINE i == index + 1
           r == Content[Item.record]
           expected == Expected(Held)
<1>1. r = Held /\ Held = Record(input, i)
  BY NextItem DEF Held, ScanInv
<1>2. /\ FramingFaults(i, Item) = MembershipReport(input, i)
      /\ HeaderFaults(i, Held) = HeaderReport(input, i)
      /\ WarcinfoFaults(i, Held) = WarcinfoReport(input, i)
      /\ CaptureFaults(i, Held, expected) = CaptureReport(input, i)
      /\ (IF Held.type = "revisit"
          THEN RevisitFaults(i, Held) \o ReferenceFaults(i, Held, RecordIds(i, Held))
          ELSE <<>>) = RevisitReport(input, i)
  BY FramingIsReported, HeaderIsReported, WarcinfoIsReported, CaptureIsReported,
     RevisitIsReported DEF ScanInv
<1>3. Checked(i, Item, expected) =
         FramingFaults(i, Item) \o HeaderFaults(i, r) \o BlockFaults(i, r)
         \o DigestFaults(i, r) \o IdentityFaults(i, r) \o WarcinfoFaults(i, r)
         \o CaptureFaults(i, r, expected)
         \o (IF r.type = "revisit"
             THEN RevisitFaults(i, r) \o ReferenceFaults(i, r, RecordIds(i, r))
             ELSE <<>>)
         \o RuleFaults(input, i)
  BY Zenon DEF Checked
<1> HIDE DEF i, r, expected
<1>4. Checked(i, Item, expected) =
         MembershipReport(input, i) \o HeaderReport(input, i)
         \o BlockFaults(i, Record(input, i)) \o DigestFaults(i, Record(input, i))
         \o IdentityFaults(i, Record(input, i)) \o WarcinfoReport(input, i)
         \o CaptureReport(input, i) \o RevisitReport(input, i) \o RuleFaults(input, i)
  BY <1>1, <1>2, <1>3
<1>5. QED
  BY <1>4 DEF EarlyReport, i, expected

\* What the record after one that reads finds of it.
LEMMA SettledIsLate ==
  ASSUME ScanTypeOK, LastRemembered, ~finished, MoreItems, Item.kind = "record"
  PROVE  /\ index > 0 /\ Reads(input, index) =>
               SettleFaults(Held) = LateReport(input, index)
         /\ index = 0 \/ ~Reads(input, index) => SettleFaults(Held) = <<>>
<1> DEFINE i == index + 1
           r == Held
<1>1. /\ input \in Inputs /\ index \in Nat /\ i \in Positions(input)
      /\ r = Record(input, i) /\ Reads(input, i)
  BY NextItem
<1>2. index < Len(input.items) /\ index # Len(input.items)
  BY <1>1, InputsTyped DEF MoreItems
<1>3. CASE index = 0 \/ ~Reads(input, index)
  <2>1. pending = None
    BY <1>1, <1>3, PendingIs
  <2>2. SettleFaults(r) = <<>>
    BY <2>1 DEF SettleFaults, When
  <2>3. QED
    BY <1>1, <1>3, <2>2
<1>4. CASE index > 0 /\ Reads(input, index)
  <2> DEFINE request == Record(input, index).type = "request"
  <2>1. LateReport(input, index) =
           When(request /\ ~Answers(input, i), Fault(index, "RequestWithoutResponse"))
           \o When(Answers(input, index) /\ ~Describes(input, i),
                   Fault(index, "ResponseWithoutMetadata"))
           \o <<>>
    <3>1. Followed(input, index)
      BY <1>1 DEF Followed
    <3>2. QED
      BY <1>2, <3>1 DEF LateReport, When
  <2>2. /\ pending = AwaitedAfter(input, index)
        /\ pending # None <=> request \/ Answers(input, index)
    BY <1>4, PendingIs
  <2>3. Answers(input, index) => ~request
    BY DEF Answers, Captures
  <2>4. \A c, x : When(c, x) \o <<>> = When(c, x) /\ <<>> \o When(c, x) = When(c, x)
    BY WhenIs
  <2>5. "metadata" \notin Captures
    BY DEF Captures
  <2>6. CASE request
    <3>1. /\ pending.slot = "Response" /\ pending.index = index /\ pending # None
      BY <2>2, <2>6 DEF AwaitedAfter
    <3>2. Answers(input, i) <=> r.type \in Captures
      BY <1>1, <1>4, <2>6 DEF Answers
    <3>3. Expected(r) = None <=> ~Answers(input, i)
      BY <3>1, <3>2 DEF Expected, Accepts
    <3>4. SettleFaults(r) =
             When(request /\ ~Answers(input, i), Fault(index, "RequestWithoutResponse"))
      BY <2>6, <3>1, <3>3 DEF SettleFaults, When, Unmet
    <3> DEFINE found ==
                 When(request /\ ~Answers(input, i), Fault(index, "RequestWithoutResponse"))
    <3>5. LateReport(input, index) = found \o <<>> \o <<>>
      <4> HIDE DEF found
      <4> QED
        BY <2>1, <2>3, <2>6 DEF When, found
    <3>6. found \o <<>> = found
      BY <2>4
    <3> HIDE DEF found
    <3>7. QED
      BY <1>4, <3>4, <3>5, <3>6 DEF found
  <2>7. CASE Answers(input, index)
    <3>1. /\ pending.slot = "Metadata" /\ pending.index = index /\ pending # None
      BY <2>2, <2>3, <2>7 DEF AwaitedAfter
    <3>2. Describes(input, i) <=> r.type = "metadata"
      BY <1>1, <1>4, <2>7 DEF Describes
    <3>3. Expected(r) = None <=> ~Describes(input, i)
      BY <3>1, <3>2 DEF Expected, Accepts
    <3> DEFINE found == When(Answers(input, index) /\ ~Describes(input, i),
                             Fault(index, "ResponseWithoutMetadata"))
    <3>4. SettleFaults(r) = found
      BY <2>7, <3>1, <3>3 DEF SettleFaults, When, Unmet
    <3>5. LateReport(input, index) = <<>> \o found \o <<>>
      <4> HIDE DEF found
      <4> QED
        BY <2>1, <2>3, <2>7 DEF When, found
    <3>6. <<>> \o found = found /\ found \o <<>> = found
      BY <2>4
    <3> HIDE DEF found
    <3>7. QED
      BY <1>4, <3>4, <3>5, <3>6 DEF found
  <2>8. CASE ~request /\ ~Answers(input, index)
    <3>1. SettleFaults(r) = <<>>
      BY <2>2, <2>8 DEF SettleFaults, When
    <3>2. LateReport(input, index) = <<>> \o <<>> \o <<>>
      BY <2>1, <2>8 DEF When
    <3>3. <<>> \o <<>> = <<>>
      BY ConcatEmptySeq, EmptySeq
    <3>4. QED
      BY <1>4, <3>1, <3>2, <3>3
  <2>9. QED
    BY <2>6, <2>7, <2>8
<1>5. QED
  BY <1>1, <1>3, <1>4

\* What the end of the file finds of the last record.
LEMMA EndIsLate ==
  ASSUME ScanTypeOK, LastRemembered, ~finished, ~MoreItems
  PROVE  /\ index > 0 /\ Reads(input, index) =>
               PendingFaults \o TrailingFaults = LateReport(input, index)
         /\ index = 0 \/ ~Reads(input, index) => PendingFaults \o TrailingFaults = <<>>
<1>1. input \in Inputs /\ index \in Nat /\ index = Len(input.items)
  BY InputsTyped DEF ScanTypeOK, MoreItems
<1>2. <<>> \o <<>> = <<>>
  BY ConcatEmptySeq, EmptySeq
<1>3. CASE index = 0 \/ ~Reads(input, index)
  <2>1. pending = None /\ lastRecord = 0
    BY <1>1, <1>3, PendingIs
  <2>2. PendingFaults = <<>> /\ TrailingFaults = <<>>
    BY <2>1 DEF PendingFaults, TrailingFaults, When
  <2>3. QED
    BY <1>1, <1>2, <1>3, <2>2
<1>4. CASE index > 0 /\ Reads(input, index)
  <2> DEFINE request == Record(input, index).type = "request"
             trailing == input.trailing > 0
             Request == When(request, Fault(index, "RequestWithoutResponse"))
             Answer == When(Answers(input, index), Fault(index, "ResponseWithoutMetadata"))
             Trailing == When(trailing, Fault(index, "TrailingBlankLines"))
  <2>1. LateReport(input, index) = Request \o Answer \o Trailing
    <3>1. Followed(input, index) /\ ~(index < Len(input.items))
      BY <1>1 DEF Followed
    <3> HIDE DEF trailing, request
    <3>2. QED
      BY <1>1, <3>1 DEF LateReport, When, request, trailing
  <2>2. /\ pending = AwaitedAfter(input, index)
        /\ pending # None <=> request \/ Answers(input, index)
        /\ lastRecord = index
    BY <1>4, PendingIs
  <2>3. TrailingFaults = Trailing
    <3>1. Last(input.items) = input.items[index]
      BY <1>1 DEF Last
    <3>2. Last(input.items).kind # "failure"
      BY <1>4, <3>1 DEF Reads
    <3>3. lastRecord # 0
      BY <1>4, <2>2
    <3> HIDE DEF trailing
    <3>4. QED
      BY <2>2, <3>2, <3>3 DEF TrailingFaults, When, trailing
  <2>4. Answers(input, index) => ~request
    BY DEF Answers, Captures
  <2>5. PendingFaults = Request \o Answer
    <3>1. CASE request
      <4>1. /\ pending.slot = "Response" /\ pending.index = index /\ pending # None
        BY <2>2, <3>1 DEF AwaitedAfter
      <4>2. PendingFaults = Request
        BY <3>1, <4>1 DEF PendingFaults, When, Unmet
      <4>3. Answer = <<>> /\ Request \o <<>> = Request
        BY <2>4, <3>1, WhenIs
      <4> HIDE DEF Request, Answer
      <4>4. QED
        BY <4>2, <4>3
    <3>2. CASE Answers(input, index)
      <4>1. /\ pending.slot = "Metadata" /\ pending.index = index /\ pending # None
        BY <2>2, <2>4, <3>2 DEF AwaitedAfter
      <4>2. PendingFaults = Answer
        BY <3>2, <4>1 DEF PendingFaults, When, Unmet
      <4>3. Request = <<>> /\ <<>> \o Answer = Answer
        BY <2>4, <3>2, WhenIs
      <4> HIDE DEF Request, Answer
      <4>4. QED
        BY <4>2, <4>3
    <3>3. CASE ~request /\ ~Answers(input, index)
      <4>1. PendingFaults = <<>>
        BY <2>2, <3>3 DEF PendingFaults, When
      <4>2. Request = <<>> /\ Answer = <<>>
        BY <3>3, WhenIs
      <4> HIDE DEF Request, Answer
      <4>3. QED
        BY <1>2, <4>1, <4>2
    <3>4. QED
      BY <3>1, <3>2, <3>3
  <2> HIDE DEF Request, Answer, Trailing
  <2>6. QED
    BY <1>4, <2>1, <2>3, <2>5
<1>5. QED
  BY <1>1, <1>3, <1>4

\* A record that one that cannot be read follows is forgiven what waited on it.
LEMMA SkippedIsLate ==
  ASSUME ScanTypeOK, MoreItems, Item.kind # "record", index > 0
  PROVE  LateReport(input, index) = <<>>
<1>1. /\ input \in Inputs /\ index \in Nat /\ index + 1 \in Positions(input)
      /\ ~Reads(input, index + 1)
  BY NextItem
<1>2. index < Len(input.items) /\ index # Len(input.items)
  BY <1>1, InputsTyped DEF MoreItems
<1>3. ~Followed(input, index)
  BY <1>1, <1>2 DEF Followed
<1>4. LateReport(input, index) = <<>> \o <<>> \o <<>>
  BY <1>2, <1>3 DEF LateReport, When
<1>5. QED
  BY <1>4, ConcatEmptySeq, EmptySeq

\* Once what is late of the record read last is settled, every record consumed is
\* reported in full.
LEMMA SettledReports ==
  ASSUME ScanInv, Idle, ~finished, NEW late,
         IF index > 0 /\ Reads(input, index)
         THEN late = LateReport(input, index) ELSE late = <<>>
  PROVE  /\ Settled(late) \in Seq(Results)
         /\ yielded \o Settled(late) = Reports(input)[index]
<1>1. /\ input \in Inputs /\ index \in Nat /\ yielded \in Seq(Results)
      /\ (index > 0 => index \in Positions(input))
      /\ index \in 0 .. Len(input.items)
  BY InputsTyped DEF ScanInv, ScanTypeOK, Positions
<1>2. yielded = ToldSoFar
  <2>1. yielded \o <<>> \o <<>> = ToldSoFar
    BY DEF ScanInv, Told, Idle, When
  <2>2. yielded \o <<>> = yielded
    BY <1>1, ConcatEmptySeq
  <2>3. QED
    BY <2>1, <2>2
<1>3. <<>> \in Seq(Results) /\ <<>> \o <<>> = <<>>
  BY ConcatEmptySeq, EmptySeq
<1>4. CASE index = 0
  <2>1. clean = 0 /\ late = <<>>
    BY <1>4, PendingIs DEF ScanInv
  <2>2. Settled(late) = <<>>
    BY <2>1 DEF Settled
  <2>3. yielded = <<>> /\ Reports(input)[index] = <<>>
    BY <1>1, <1>2, <1>4, ReportsUnfold DEF ToldSoFar
  <2>4. QED
    BY <1>3, <2>2, <2>3
<1>5. CASE index > 0
  <2> DEFINE before == Reports(input)[index - 1]
             report == RecordReport(input, index)
  <2>1. before \in Seq(Results)
    <3>1. index - 1 \in 0 .. Len(input.items)
      BY <1>1, <1>5, InputsTyped
    <3>2. QED
      BY <1>1, <3>1, ReportsTyped
  <2>2. Reports(input)[index] = before \o report
    BY <1>1, <1>5, ReportsUnfold
  <2>3. CASE ~Reads(input, index)
    <3>1. clean = 0 /\ late = <<>>
      BY <1>5, <2>3, PendingIs DEF ScanInv
    <3>2. Settled(late) = <<>>
      BY <3>1 DEF Settled
    <3>3. yielded = before \o <<Error(index)>>
      BY <1>2, <1>5, <2>3 DEF ToldSoFar
    <3>4. report = <<Error(index)>>
      BY <2>3 DEF RecordReport
    <3>5. yielded \o <<>> = yielded
      BY <1>1, ConcatEmptySeq
    <3> HIDE DEF before, report
    <3>6. QED
      BY <1>3, <2>2, <3>2, <3>3, <3>4, <3>5
  <2>4. CASE Reads(input, index)
    <3> DEFINE early == EarlyReport(input, index)
    <3>1. late = LateReport(input, index)
      BY <1>5, <2>4
    <3>2. early \in Seq(Results) /\ late \in Seq(Results)
      BY <1>1, <1>5, <3>1, EarlyTyped, LateTyped
    <3>3. yielded = before \o early
      BY <1>2, <1>5, <2>4 DEF ToldSoFar
    <3>4. clean = IF early = <<>> THEN index ELSE 0
      BY <1>5, <2>4, PendingIs DEF ScanInv
    <3>5. report = IF early \o late = <<>> THEN <<Ok(index)>> ELSE early \o late
      BY <2>4, <3>1 DEF RecordReport
    <3>6. <<Ok(index)>> \in Seq(Results)
      <4>1. Ok(index) \in Results
        BY <1>1 DEF Ok, Results
      <4>2. QED
        BY <4>1
    <3> HIDE DEF before, report, early
    <3>7. CASE early = <<>>
      <4>1. clean = index /\ clean # 0
        BY <1>5, <3>4, <3>7
      <4>2. early \o late = late
        BY <3>2, <3>7, ConcatEmptySeq
      <4>3. Settled(late) = report
        BY <3>5, <4>1, <4>2 DEF Settled
      <4>4. yielded = before
        BY <2>1, <3>3, <3>7, ConcatEmptySeq
      <4>5. report \in Seq(Results)
        BY <3>2, <3>5, <3>6, <4>2
      <4>6. QED
        BY <2>2, <4>3, <4>4, <4>5
    <3>8. CASE early # <<>>
      <4>1. Settled(late) = late
        BY <3>4, <3>8 DEF Settled
      <4>2. early \o late # <<>>
        <5>1. Len(early) > 0 /\ Len(late) >= 0
              /\ Len(early \o late) = Len(early) + Len(late)
          BY <3>2, <3>8, ConcatProperties, EmptySeq
        <5>2. Len(early \o late) # 0
          BY <3>2, <5>1
        <5>3. QED
          BY <5>2
      <4>3. report = early \o late
        BY <3>5, <4>2
      <4>4. (before \o early) \o late = before \o (early \o late)
        BY <2>1, <3>2, ConcatAssociative
      <4>5. QED
        BY <2>2, <3>2, <3>3, <4>1, <4>3, <4>4
    <3>9. QED
      BY <3>7, <3>8
  <2>5. QED
    BY <2>3, <2>4
<1>6. QED
  BY <1>1, <1>4, <1>5

-----------------------------------------------------------------------------
(* The invariant of the scan.                                              *)

LEMMA ScanInit ==
  ASSUME Init
  PROVE  ScanInv
<1>1. ScanTypeOK
  <2>1. input \in Inputs
    BY FilesAssumption DEF Init
  <2>2. index \in 0 .. Len(input.items)
    BY <2>1, InputsTyped DEF Init
  <2>3. <<>> \in Seq(Results)
    BY EmptySeq
  <2>4. QED
    BY <2>1, <2>2, <2>3 DEF Init, ScanTypeOK
<1>2. Scanned = {} /\ Infos(input, index + 1) = {}
  BY DEF Init, Scanned, Before, Infos
<1>3. IdsRemembered
  <2>1. DOMAIN recordIds = {}
    BY DEF Init
  <2>2. QED
    BY <1>2, <2>1 DEF IdsRemembered
<1>4. DateRemembered
  BY <1>2 DEF Init, DateRemembered
<1>5. CollectionRemembered
  BY <1>2 DEF Init, CollectionRemembered, CurrentWarcinfo, CurrentHost
<1>6. MemberRemembered
  BY DEF Init, MemberRemembered
<1>7. LastRemembered
  BY DEF Init, LastRemembered
<1>8. Told
  <2>1. <<>> \o <<>> = <<>>
    BY ConcatEmptySeq, EmptySeq
  <2>2. QED
    BY <2>1 DEF Init, Told, ToldSoFar, When
<1>9. QED
  BY <1>1, <1>3, <1>4, <1>5, <1>6, <1>7, <1>8 DEF ScanInv

\* The first record of the member that ends the records up to index.
LEMMA MemberStep ==
  ASSUME ScanInv, MoreItems, memberFirst' = MemberFirst(Item), index' = index + 1,
         input' = input
  PROVE  MemberRemembered'
<1> DEFINE i == index + 1
<1>1. input \in Inputs /\ index \in Nat /\ i \in Positions(input) /\ Item = input.items[i]
  BY NextItem DEF ScanInv
<1>2. SUFFICES ASSUME input.gzip
               PROVE  MemberFirst(Item) = HeldFirst(input, Members(input)[i].last)
  BY DEF MemberRemembered
<1>3. CASE Begins(input, i) \/ input.items[i].members > 1
  <2>1. HeldFirst(input, Members(input)[i].last) = i
    BY <1>1, <1>3, MemberHolds
  <2>2. MemberFirst(Item) = i
    BY <1>1, <1>2, <1>3 DEF MemberFirst
  <2>3. QED
    BY <2>1, <2>2
<1>4. CASE ~(Begins(input, i) \/ input.items[i].members > 1)
  <2>1. i > 1 /\ Members(input)[i].last = Members(input)[i - 1].last
    BY <1>1, <1>4, MemberHolds
  <2>2. i - 1 = index /\ index > 0
    BY <1>1, <2>1
  <2>3. MemberFirst(Item) = memberFirst
    BY <1>1, <1>4 DEF MemberFirst
  <2>4. memberFirst = HeldFirst(input, Members(input)[index].last)
    BY <1>2, <2>2 DEF ScanInv, MemberRemembered
  <2> HIDE DEF i
  <2>5. QED
    BY <2>1, <2>2, <2>3, <2>4
<1>5. QED
  BY <1>3, <1>4

\* A record that reads is remembered.
LEMMA IdsStep ==
  ASSUME ScanInv, MoreItems, Item.kind = "record", recordIds' = RecordIds(index + 1, Held),
         index' = index + 1, input' = input
  PROVE  IdsRemembered'
<1> DEFINE i == index + 1
           r == Held
           before == Before(input, i)
           Uses(id) == {j \in before : Record(input, j).id = id}
           UsesNow(id) == {j \in before \cup {i} : Record(input, j).id = id}
<1>1. /\ input \in Inputs /\ index \in Nat /\ i \in Nat /\ i > 0 /\ i - 1 = index
      /\ r = Record(input, i) /\ Reads(input, i)
  BY NextItem DEF ScanInv
<1>2. before \subseteq 1 .. index /\ Scanned' = before \cup {i}
  <2>1. Scanned' = Before(input, i + 1)
    BY DEF Scanned
  <2>2. QED
    BY <1>1, <2>1, BeforeIs
<1>3. /\ DOMAIN recordIds = {Record(input, j).id : j \in before}
      /\ \A id \in DOMAIN recordIds : recordIds[id] = Min(Uses(id))
  BY DEF ScanInv, IdsRemembered, Scanned
<1>4. /\ DOMAIN recordIds' = DOMAIN recordIds \cup {r.id}
      /\ \A id \in DOMAIN recordIds' :
            recordIds'[id] = IF id \in DOMAIN recordIds THEN recordIds[id] ELSE i
  BY DEF RecordIds
<1>5. DOMAIN recordIds' = {Record(input, j).id : j \in before \cup {i}}
  <2> HIDE DEF i, r, before
  <2>1. {Record(input, j).id : j \in before \cup {i}}
        = {Record(input, j).id : j \in before} \cup {Record(input, i).id}
    OBVIOUS
  <2>2. QED
    BY <1>1, <1>3, <1>4, <2>1
<1>6. ASSUME NEW id \in DOMAIN recordIds'
      PROVE  recordIds'[id] = Min(UsesNow(id))
  <2>1. UsesNow(id) \subseteq Nat
    BY <1>1, <1>2
  <2>2. CASE id \in DOMAIN recordIds
    <3>1. Uses(id) # {} /\ Uses(id) \subseteq Nat
      BY <1>2, <1>3, <2>2
    <3>2. Min(Uses(id)) \in Uses(id) /\ \A k \in Uses(id) : Min(Uses(id)) <= k
      <4> HIDE DEF Uses
      <4> QED
        BY <3>1, MinOfPositions
    <3>3. Min(Uses(id)) \in UsesNow(id) /\ \A k \in UsesNow(id) : Min(Uses(id)) <= k
      <4>1. Min(Uses(id)) \in 1 .. index
        BY <1>2, <3>2
      <4>2. Min(Uses(id)) <= i
        BY <1>1, <4>1
      <4>3. \A k \in UsesNow(id) : k \in Uses(id) \/ k = i
        OBVIOUS
      <4>4. Uses(id) \subseteq UsesNow(id)
        OBVIOUS
      <4> HIDE DEF Uses, UsesNow
      <4>5. QED
        BY <3>2, <4>2, <4>3, <4>4
    <3>4. Min(UsesNow(id)) = Min(Uses(id))
      <4> HIDE DEF Uses, UsesNow
      <4> QED
        BY <2>1, <3>3, MinIs
    <3>5. QED
      BY <1>3, <1>4, <2>2, <3>4
  <2>3. CASE id \notin DOMAIN recordIds
    <3>1. id = r.id /\ recordIds'[id] = i
      BY <1>4, <2>3
    <3>2. UsesNow(id) = {i}
      BY <1>1, <1>3, <2>3, <3>1
    <3>3. Min({i}) = i
      BY <1>1, MinIs
    <3>4. QED
      BY <3>1, <3>2, <3>3
  <2>4. QED
    BY <2>2, <2>3
<1>7. QED
  BY <1>2, <1>5, <1>6 DEF IdsRemembered

LEMMA DateStep ==
  ASSUME ScanInv, MoreItems, Item.kind = "record",
         previousDate' = [index |-> index + 1, date |-> Held.date],
         index' = index + 1, input' = input
  PROVE  DateRemembered'
<1> DEFINE i == index + 1
<1>1. /\ input \in Inputs /\ index \in Nat /\ i \in Nat \ {0}
      /\ Held = Record(input, i) /\ Reads(input, i)
  BY NextItem DEF ScanInv
<1>2. Scanned' = Before(input, i) \cup {i} /\ Before(input, i) \subseteq 1 .. i - 1
  <2>1. Scanned' = Before(input, i + 1)
    BY DEF Scanned
  <2>2. QED
    BY <1>1, <2>1, BeforeIs
<1>3. Max(Before(input, i) \cup {i}) = i
  BY <1>1, <1>2, GreatestIsNew
<1> HIDE DEF i
<1>4. Scanned' # {} /\ Max(Scanned') = i
  BY <1>2, <1>3
<1>5. previousDate' = [index |-> Max(Scanned'), date |-> Record(input, Max(Scanned')).date]
  BY <1>1, <1>4 DEF i
<1>6. QED
  BY <1>4, <1>5 DEF DateRemembered

LEMMA CollectionStep ==
  ASSUME ScanInv, MoreItems, Item.kind = "record",
         IF Held.type = "warcinfo"
         THEN warcinfoId' = Held.id /\ collectionHost' = CollectionHost(Held)
         ELSE UNCHANGED <<warcinfoId, collectionHost>>,
         index' = index + 1, input' = input
  PROVE  CollectionRemembered'
<1> DEFINE i == index + 1
           infos == Infos(input, i)
<1>1. /\ input \in Inputs /\ index \in Nat /\ i \in Nat \ {0}
      /\ Held = Record(input, i) /\ Reads(input, i)
  BY NextItem DEF ScanInv
<1>2. SUFFICES /\ warcinfoId' = CurrentWarcinfo(input, i + 1)
               /\ collectionHost' = CurrentHost(input, i + 1)
  BY DEF CollectionRemembered
<1>3. CASE Held.type = "warcinfo"
  <2>1. Infos(input, i + 1) = infos \cup {i} /\ infos \subseteq 1 .. i - 1
    BY <1>1, <1>3, BeforeIs
  <2> HIDE DEF infos, i
  <2>2. Max(Infos(input, i + 1)) = i /\ Infos(input, i + 1) # {}
    BY <1>1, <2>1, GreatestIsNew
  <2>3. QED
    BY <1>1, <1>3, <2>2 DEF CurrentWarcinfo, CurrentHost
<1>4. CASE Held.type # "warcinfo"
  <2>1. Infos(input, i + 1) = infos
    BY <1>1, <1>4, BeforeIs
  <2>2. warcinfoId = CurrentWarcinfo(input, i) /\ collectionHost = CurrentHost(input, i)
    BY DEF ScanInv, CollectionRemembered
  <2>3. warcinfoId' = warcinfoId /\ collectionHost' = collectionHost
    BY <1>4
  <2> HIDE DEF i
  <2>4. QED
    BY <2>1, <2>2, <2>3 DEF CurrentWarcinfo, CurrentHost, infos
<1>5. QED
  BY <1>3, <1>4

\* Where a record cannot be read, nothing more is remembered.
LEMMA NothingStep ==
  ASSUME ScanInv, MoreItems, Item.kind # "record",
         UNCHANGED <<recordIds, previousDate, warcinfoId, collectionHost>>,
         index' = index + 1, input' = input
  PROVE  /\ IdsRemembered'
         /\ DateRemembered'
         /\ CollectionRemembered'
<1> DEFINE i == index + 1
<1>1. input \in Inputs /\ index \in Nat /\ i \in Nat \ {0} /\ ~Reads(input, i)
  BY NextItem DEF ScanInv
<1>2. Before(input, i + 1) = Before(input, i) /\ Infos(input, i + 1) = Infos(input, i)
  BY <1>1, BeforeIs
<1>3. Scanned' = Scanned
  BY <1>2 DEF Scanned
<1>4. /\ CurrentWarcinfo(input, i + 1) = CurrentWarcinfo(input, i)
      /\ CurrentHost(input, i + 1) = CurrentHost(input, i)
  BY <1>2 DEF CurrentWarcinfo, CurrentHost
<1>5. IdsRemembered'
  BY <1>3 DEF ScanInv, IdsRemembered
<1>6. DateRemembered'
  BY <1>3 DEF ScanInv, DateRemembered
<1>7. CollectionRemembered'
  BY <1>4 DEF ScanInv, CollectionRemembered
<1>8. QED
  BY <1>5, <1>6, <1>7

\* A record is checked.
LEMMA CheckScan ==
  ASSUME ScanInv, Check
  PROVE  ScanInv'
<1> DEFINE i == index + 1
           r == Held
           expected == Expected(r)
           faults == Checked(i, Item, expected)
           late == SettleFaults(r)
<1>1. /\ Idle /\ MoreItems /\ Item.kind = "record"
      /\ index' = i
      /\ memberFirst' = MemberFirst(Item)
      /\ lastRecord' = i
      /\ recordIds' = RecordIds(i, r)
      /\ previousDate' = [index |-> i, date |-> r.date]
      /\ IF r.type = "warcinfo"
         THEN warcinfoId' = r.id /\ collectionHost' = CollectionHost(r)
         ELSE UNCHANGED <<warcinfoId, collectionHost>>
      /\ pending' = Awaited(i, r, expected)
      /\ queue' = Settled(late) \o faults
      /\ clean' = IF faults = <<>> THEN i ELSE 0
      /\ input' = input /\ deferred' = deferred /\ finished' = finished
      /\ yielded' = yielded /\ exhausted' = exhausted
  BY Zenon DEF Check
<1>2. /\ input \in Inputs /\ index \in Nat /\ i \in Positions(input) /\ i - 1 = index
      /\ r = Record(input, i) /\ Reads(input, i) /\ i > 0
  BY <1>1, NextItem DEF ScanInv
<1>3. ~finished
  BY <1>1, <1>2 DEF ScanInv, Told, MoreItems
<1>4. faults = EarlyReport(input, i)
  BY <1>1, <1>3, CheckedIsEarly
<1>5. faults \in Seq(Results)
  BY <1>2, <1>4, EarlyTyped
<1>6. IF index > 0 /\ Reads(input, index)
      THEN late = LateReport(input, index) ELSE late = <<>>
  BY <1>1, <1>2, <1>3, SettledIsLate DEF ScanInv
<1>7. Settled(late) \in Seq(Results) /\ yielded \o Settled(late) = Reports(input)[index]
  BY <1>1, <1>3, <1>6, SettledReports
<1> HIDE DEF late, faults
<1>8. ScanTypeOK'
  <2>1. queue' \in Seq(Results)
    BY <1>1, <1>5, <1>7, Concat2
  <2>2. index' \in 0 .. Len(input'.items)
    BY <1>1, <1>2, InputsTyped DEF Positions
  <2>3. QED
    BY <1>1, <2>1, <2>2 DEF ScanInv, ScanTypeOK
<1>9. IdsRemembered' /\ DateRemembered' /\ CollectionRemembered' /\ MemberRemembered'
  BY <1>1, IdsStep, DateStep, CollectionStep, MemberStep
<1>10. LastRemembered'
  <2>1. Awaited(i, r, expected) = AwaitedAfter(input, i)
    <3>1. r.type \in Captures => (expected # None <=> Answers(input, i))
      BY <1>1, <1>3, ExpectedIs DEF ScanInv
    <3>2. r.type \in Captures /\ expected # None =>
             expected.target = Record(input, i - 1).target
      BY <1>1, <1>3, <3>1, ExpectedIs DEF ScanInv
    <3>3. Answers(input, i) => r.type \in Captures
      BY <1>2 DEF Answers
    <3> HIDE DEF i, r, expected
    <3>4. QED
      BY <1>2, <3>1, <3>2, <3>3 DEF Awaited, AwaitedAfter
  <2> HIDE DEF r, expected
  <2>2. QED
    BY <1>1, <1>2, <1>3, <1>4, <2>1 DEF LastRemembered
<1>11. Told'
  <2>1. deferred' = 0 /\ ~finished' /\ ~exhausted'
    BY <1>1, <1>3 DEF Idle
  <2>2. ToldSoFar' = Reports(input)[index] \o faults
    <3>1. ToldSoFar' = Reports(input)[i - 1] \o EarlyReport(input, i)
      <4> HIDE DEF i
      <4> QED
        BY <1>1, <1>2, <2>1 DEF ToldSoFar
    <3> HIDE DEF i
    <3>2. QED
      BY <1>2, <1>4, <3>1
  <2>3. yielded \in Seq(Results)
    BY DEF ScanInv, ScanTypeOK
  <2>4. yielded \o (Settled(late) \o faults) = (yielded \o Settled(late)) \o faults
    <3> DEFINE settled == Settled(late)
    <3>1. settled \in Seq(Results) /\ faults \in Seq(Results)
      BY <1>5, <1>7
    <3> HIDE DEF settled
    <3>2. yielded \o (settled \o faults) = (yielded \o settled) \o faults
      BY <2>3, <3>1, ConcatAssociative
    <3>3. QED
      BY <3>2 DEF settled
  <2>5. yielded \o queue' \in Seq(Results)
    BY <1>1, <1>5, <1>7, <2>3, Concat2
  <2>6. yielded \o queue' \o <<>> = yielded \o queue'
    BY <2>5, ConcatEmptySeq
  <2>7. When(deferred' # 0, Error(deferred')) = <<>>
    BY <2>1 DEF When
  <2>8. yielded' \o queue' \o When(deferred' # 0, Error(deferred')) = ToldSoFar'
    BY <1>1, <1>7, <2>2, <2>4, <2>6, <2>7
  <2>9. QED
    BY <2>1, <2>8 DEF Told
<1>12. QED
  BY <1>8, <1>9, <1>10, <1>11 DEF ScanInv

\* A record that cannot be read is skipped.
LEMMA SkipScan ==
  ASSUME ScanInv, Skip
  PROVE  ScanInv'
<1> DEFINE i == index + 1
<1>1. /\ Idle /\ MoreItems /\ Item.kind # "record"
      /\ index' = i
      /\ memberFirst' = MemberFirst(Item)
      /\ lastRecord' = 0
      /\ pending' = None
      /\ clean' = 0
      /\ queue' = Settled(<<>>)
      /\ deferred' = i
      /\ UNCHANGED <<recordIds, previousDate, warcinfoId, collectionHost>>
      /\ input' = input /\ finished' = finished
      /\ yielded' = yielded /\ exhausted' = exhausted
  BY DEF Skip
<1>2. /\ input \in Inputs /\ index \in Nat /\ i \in Positions(input) /\ i - 1 = index
      /\ ~Reads(input, i) /\ i > 0 /\ i \in Nat
  BY <1>1, NextItem DEF ScanInv
<1>3. ~finished
  BY <1>1, <1>2 DEF ScanInv, Told, MoreItems
<1>4. index > 0 => LateReport(input, index) = <<>>
  BY <1>1, SkippedIsLate DEF ScanInv
<1>5. Settled(<<>>) \in Seq(Results) /\ yielded \o Settled(<<>>) = Reports(input)[index]
  BY <1>1, <1>3, <1>4, SettledReports
<1>6. ScanTypeOK'
  <2>1. index' \in 0 .. Len(input'.items)
    BY <1>1, <1>2, InputsTyped DEF Positions
  <2>2. QED
    BY <1>1, <1>2, <1>5, <2>1 DEF ScanInv, ScanTypeOK
<1>7. IdsRemembered' /\ DateRemembered' /\ CollectionRemembered' /\ MemberRemembered'
  BY <1>1, NothingStep, MemberStep
<1>8. LastRemembered'
  BY <1>1, <1>2 DEF LastRemembered
<1>9. Told'
  <2>1. deferred' # 0 /\ ~finished' /\ ~exhausted'
    BY <1>1, <1>2, <1>3 DEF Idle
  <2>2. ToldSoFar' = Reports(input)[index] \o <<Error(i)>>
    BY <1>1, <1>2, <2>1 DEF ToldSoFar
  <2>3. When(deferred' # 0, Error(deferred')) = <<Error(i)>>
    BY <1>1, <2>1 DEF When
  <2>4. yielded' \o queue' \o When(deferred' # 0, Error(deferred')) = ToldSoFar'
    BY <1>1, <1>5, <2>2, <2>3
  <2>5. QED
    BY <2>1, <2>4 DEF Told
<1>10. QED
  BY <1>6, <1>7, <1>8, <1>9 DEF ScanInv

\* What is remembered of the records depends on nothing else.
LEMMA RecordsKept ==
  ASSUME ScanInv,
         UNCHANGED <<input, index, memberFirst, recordIds, previousDate, warcinfoId,
                     collectionHost>>
  PROVE  IdsRemembered' /\ DateRemembered' /\ CollectionRemembered' /\ MemberRemembered'
<1>1. Scanned' = Scanned
  BY DEF Scanned
<1>2. QED
  BY <1>1 DEF ScanInv, IdsRemembered, DateRemembered, CollectionRemembered,
     MemberRemembered

\* The end of the file is settled.
LEMMA FinishScan ==
  ASSUME ScanInv, Finish
  PROVE  ScanInv'
<1> DEFINE late == PendingFaults \o TrailingFaults
           summary == When(input.summary, Fault(0, "Custom"))
<1>1. /\ Idle /\ ~MoreItems /\ ~finished
      /\ pending' = None
      /\ lastRecord' = 0
      /\ clean' = 0
      /\ queue' = Settled(late) \o summary
      /\ finished' = TRUE
      /\ UNCHANGED <<input, index, memberFirst, recordIds, previousDate, warcinfoId,
                     collectionHost>>
      /\ deferred' = deferred /\ yielded' = yielded /\ exhausted' = exhausted
  BY DEF Finish
<1>2. input \in Inputs /\ index \in Nat /\ index = Len(input.items)
  BY <1>1, InputsTyped DEF ScanInv, ScanTypeOK, MoreItems
<1>3. IF index > 0 /\ Reads(input, index)
      THEN late = LateReport(input, index) ELSE late = <<>>
  BY <1>1, <1>2, EndIsLate DEF ScanInv
<1> HIDE DEF late
<1>4. Settled(late) \in Seq(Results) /\ yielded \o Settled(late) = Reports(input)[index]
  BY <1>1, <1>3, SettledReports
<1>5. summary \in Seq(Results)
  <2>1. Fault(0, "Custom") \in Results
    <3>1. "Custom" \in Rules
      BY DEF Rules
    <3>2. QED
      BY <3>1 DEF Fault, Results
  <2>2. QED
    BY <2>1, WhenSeq
<1> HIDE DEF summary
<1>6. ScanTypeOK'
  <2>1. queue' \in Seq(Results)
    BY <1>1, <1>4, <1>5, Concat2
  <2>2. QED
    BY <1>1, <2>1 DEF ScanInv, ScanTypeOK
<1>7. IdsRemembered' /\ DateRemembered' /\ CollectionRemembered' /\ MemberRemembered'
  BY <1>1, RecordsKept
<1>8. LastRemembered'
  BY <1>1 DEF LastRemembered
<1>9. Told'
  <2>1. deferred' = 0 /\ ~exhausted' /\ index' = Len(input'.items)
    BY <1>1, <1>2 DEF Idle
  <2>2. ToldSoFar' = Reports(input)[index] \o summary
    BY <1>1, <1>2 DEF ToldSoFar, Report, summary
  <2>3. yielded \in Seq(Results)
    BY DEF ScanInv, ScanTypeOK
  <2>4. yielded \o (Settled(late) \o summary) = (yielded \o Settled(late)) \o summary
    <3> DEFINE settled == Settled(late)
    <3>1. settled \in Seq(Results) /\ summary \in Seq(Results)
      BY <1>4, <1>5
    <3> HIDE DEF settled
    <3>2. yielded \o (settled \o summary) = (yielded \o settled) \o summary
      BY <2>3, <3>1, ConcatAssociative
    <3>3. QED
      BY <3>2 DEF settled
  <2>5. yielded \o queue' \in Seq(Results)
    BY <1>1, <1>4, <1>5, <2>3, Concat2
  <2>6. yielded \o queue' \o <<>> = yielded \o queue'
    BY <2>5, ConcatEmptySeq
  <2>7. When(deferred' # 0, Error(deferred')) = <<>>
    BY <2>1 DEF When
  <2>8. yielded' \o queue' \o When(deferred' # 0, Error(deferred')) = ToldSoFar'
    BY <1>1, <1>4, <2>2, <2>4, <2>6, <2>7
  <2>9. QED
    BY <2>1, <2>8 DEF Told
<1>10. QED
  BY <1>6, <1>7, <1>8, <1>9 DEF ScanInv

\* The caller is given a result, or a read error; the order of them is kept.
LEMMA YieldScan ==
  ASSUME ScanInv, Yield \/ YieldError
  PROVE  ScanInv'
<1>1. /\ UNCHANGED <<input, index, stateVars, clean, finished, exhausted>>
      /\ \/ /\ queue # <<>>
            /\ yielded' = Append(yielded, Head(queue))
            /\ queue' = Tail(queue)
            /\ deferred' = deferred
         \/ /\ queue = <<>>
            /\ deferred # 0
            /\ yielded' = Append(yielded, Error(deferred))
            /\ deferred' = 0
            /\ queue' = queue
  BY DEF Yield, YieldError
<1>2. /\ queue \in Seq(Results) /\ yielded \in Seq(Results) /\ deferred \in Nat
  BY DEF ScanInv, ScanTypeOK
<1> DEFINE errors == When(deferred # 0, Error(deferred))
           errorsLeft == When(deferred' # 0, Error(deferred'))
<1>3. CASE queue # <<>> /\ yielded' = Append(yielded, Head(queue)) /\ queue' = Tail(queue)
           /\ deferred' = deferred
  <2>1. Head(queue) \in Results /\ Tail(queue) \in Seq(Results)
        /\ queue = <<Head(queue)>> \o Tail(queue)
    BY <1>2, <1>3
  <2>2. Append(yielded, Head(queue)) = yielded \o <<Head(queue)>>
        /\ <<Head(queue)>> \in Seq(Results)
    BY <1>2, <2>1, AppendIsConcat
  <2>3. (yielded \o <<Head(queue)>>) \o Tail(queue) = yielded \o queue
    BY <1>2, <2>1, <2>2, ConcatAssociative
  <2>4. queue' \in Seq(Results) /\ yielded' \in Seq(Results)
    BY <1>2, <1>3, <2>1, AppendProperties
  <2>5. yielded' \o queue' \o errorsLeft = yielded \o queue \o errors
    BY <1>3, <2>2, <2>3
  <2>6. ~exhausted
    BY <1>3 DEF ScanInv, Told
  <2>7. QED
    BY <1>1, <1>3, <2>4, <2>5, <2>6, RecordsKept
    DEF ScanInv, ScanTypeOK, LastRemembered, Told, ToldSoFar, stateVars
<1>4. CASE queue = <<>> /\ deferred # 0 /\ yielded' = Append(yielded, Error(deferred))
           /\ deferred' = 0 /\ queue' = queue
  <2>1. Error(deferred) \in Results
    BY <1>2 DEF Error, Results
  <2>2. yielded' = yielded \o <<Error(deferred)>> /\ yielded' \in Seq(Results)
    BY <1>2, <1>4, <2>1, AppendIsConcat, AppendProperties
  <2>3. errors = <<Error(deferred)>> /\ errorsLeft = <<>>
    BY <1>4 DEF When
  <2>4. yielded \o <<>> = yielded /\ yielded' \o <<>> = yielded'
    BY <1>2, <2>2, ConcatEmptySeq
  <2> HIDE DEF errors, errorsLeft
  <2>5. yielded' \o queue' \o errorsLeft = yielded \o queue \o errors
    BY <1>4, <2>2, <2>3, <2>4
  <2>6. ~exhausted
    BY <1>4 DEF ScanInv, Told
  <2>7. QED
    BY <1>1, <1>2, <1>4, <2>2, <2>5, <2>6, RecordsKept
    DEF ScanInv, ScanTypeOK, LastRemembered, Told, ToldSoFar, stateVars, errors, errorsLeft
<1>5. QED
  BY <1>1, <1>3, <1>4

LEMMA ScanNext ==
  ASSUME ScanInv, [Next]_vars
  PROVE  ScanInv'
<1>1. CASE Check
  BY <1>1, CheckScan
<1>2. CASE Skip
  BY <1>2, SkipScan
<1>3. CASE Finish
  BY <1>3, FinishScan
<1>4. CASE Yield \/ YieldError
  BY <1>4, YieldScan
<1>5. CASE Exhaust
  <2>1. UNCHANGED <<input, index, stateVars, clean, queue, deferred, finished, yielded>>
        /\ Idle /\ finished
    BY <1>5 DEF Exhaust
  <2>2. QED
    BY <2>1, RecordsKept
    DEF ScanInv, ScanTypeOK, LastRemembered, Told, ToldSoFar, stateVars, Idle
<1>6. CASE UNCHANGED vars
  <2>1. UNCHANGED <<input, index, stateVars, clean, queue, deferred, finished, yielded,
                    exhausted>>
    BY <1>6 DEF vars
  <2>2. QED
    BY <2>1, RecordsKept
    DEF ScanInv, ScanTypeOK, LastRemembered, Told, ToldSoFar, stateVars
<1>7. QED
  BY <1>1, <1>2, <1>3, <1>4, <1>5, <1>6 DEF Next, Terminated

\* The pass remembers of the records read what the rules look up in the file, and
\* has told, or queued, what can be told of them: whatever the file, and whatever
\* the added rules report about.
THEOREM ScanInvariant == Spec => []ScanInv
<1>1. Init => ScanInv
  BY ScanInit
<1>2. ScanInv /\ [Next]_vars => ScanInv'
  BY ScanNext
<1>3. QED
  BY <1>1, <1>2, PTL DEF Spec

\* A pass that has come to its end has yielded exactly the report of the file, as
\* the rules are stated of it: every record once, in order, by its identifier or
\* by every rule it breaks, naming the right other record.
THEOREM ReportIsExact == Spec => []ReportExact
<1>1. ScanInv => ReportExact
  <2> SUFFICES ASSUME ScanInv, exhausted PROVE yielded = Report(input)
    BY DEF ReportExact
  <2>1. finished /\ queue = <<>> /\ deferred = 0 /\ yielded \in Seq(Results)
    BY DEF ScanInv, ScanTypeOK, Told
  <2>2. yielded \o <<>> \o <<>> = Report(input)
    BY <2>1 DEF ScanInv, Told, ToldSoFar, When
  <2>3. yielded \o <<>> = yielded
    BY <2>1, ConcatEmptySeq
  <2>4. QED
    BY <2>2, <2>3
<1>2. QED
  BY <1>1, ScanInvariant, PTL

=============================================================================
