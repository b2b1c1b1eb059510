--------------------------- MODULE IngestionProofs ---------------------------
(***************************************************************************)
(* Proofs about Ingestion, for any records that tell the truth about their *)
(* captures, loaded in any order, any loads of them abandoned.  MapsExact  *)
(* says what the two maps of a load hold of the requests it has read, from *)
(* which the pairing is exact; the pairing in turn is why only captures    *)
(* made by a GET reach the rows, and why the rows are not mixed.           *)
(***************************************************************************)
EXTENDS Ingestion, RevisitIndexProofs, SequenceTheorems, TLAPS

USE IndexAssumption, NoneAssumption, RecordsAssumption, IngestedContentAssumption

(***************************************************************************)
(* The pairing of captures with requests.                                  *)
(***************************************************************************)

LEMMA RecordFields ==
  ASSUME NEW r \in Records
  PROVE  /\ r \in RecordType
         /\ r.kind \in Kinds /\ r.id \in RecordIds /\ r.uri \in Uris
         /\ r.links \subseteq RecordIds
         /\ r.get \in BOOLEAN /\ r.whole \in BOOLEAN /\ r.ok \in BOOLEAN
         /\ r.head \in BOOLEAN /\ r.vary \in BOOLEAN /\ r.dated \in BOOLEAN
         /\ r.tag \in Tags \cup {None} /\ r.digest \in Payloads \cup {None}
         /\ r.refers \in Ids \cup {None} /\ r.id \in Ids
         /\ r.date \in Dates /\ r.served \in Payloads
<1>1. r \in RecordType
  OBVIOUS
<1>2. QED
  BY <1>1 DEF RecordType, RecordIds

\* One more record read adds its place to the requests it is one of.
LEMMA ReadAppended ==
  ASSUME NEW reads \in Seq(Reads), NEW e \in Reads, NEW id
  PROVE  LET new == Append(reads, e)
             n == Len(reads) + 1
         IN
         /\ \A i \in 1 .. Len(reads) : new[i] = reads[i]
         /\ new[n] = e
         /\ IF e.record.kind = "request" /\ e.record.id = id
            THEN Bearing(new, id) = Bearing(reads, id) \cup {n}
            ELSE Bearing(new, id) = Bearing(reads, id)
         /\ IF e.record.kind = "request" /\ id \in e.record.links
            THEN Naming(new, id) = Naming(reads, id) \cup {n}
            ELSE Naming(new, id) = Naming(reads, id)
         /\ Bearing(reads, id) \subseteq 1 .. Len(reads)
         /\ Naming(reads, id) \subseteq 1 .. Len(reads)
         /\ n \notin 1 .. Len(reads)
<1> DEFINE new == Append(reads, e)
           n == Len(reads) + 1
<1>1. /\ Len(reads) \in Nat /\ Len(new) = n
      /\ new[n] = e
      /\ \A i \in 1 .. Len(reads) : new[i] = reads[i]
      /\ 1 .. n = (1 .. Len(reads)) \cup {n}
      /\ n \notin 1 .. Len(reads)
  OBVIOUS
<1> HIDE DEF new, n
<1>2. /\ IF e.record.kind = "request" /\ e.record.id = id
         THEN Bearing(new, id) = Bearing(reads, id) \cup {n}
         ELSE Bearing(new, id) = Bearing(reads, id)
      /\ Bearing(reads, id) \subseteq 1 .. Len(reads)
  BY <1>1 DEF Bearing
<1>3. /\ IF e.record.kind = "request" /\ id \in e.record.links
         THEN Naming(new, id) = Naming(reads, id) \cup {n}
         ELSE Naming(new, id) = Naming(reads, id)
      /\ Naming(reads, id) \subseteq 1 .. Len(reads)
  BY <1>1 DEF Naming
<1>4. QED
  BY <1>1, <1>2, <1>3 DEF new, n

\* observe of a request keeps the maps exact.
LEMMA RequestObserved ==
  ASSUME NEW reads \in Seq(Reads), NEW q \in Records, q.kind = "request",
         NEW entries \in [RecordIds -> Entries], NEW captures \in [RecordIds -> Entries],
         MapsExact(entries, captures, reads)
  PROVE  LET e == [record |-> q, proven |-> FALSE] IN
         /\ ObservedId(entries, {q.id}, TargetOf(q)) \in [RecordIds -> Entries]
         /\ ObservedCapture(captures, q.links, TargetOf(q)) \in [RecordIds -> Entries]
         /\ MapsExact(ObservedId(entries, {q.id}, TargetOf(q)),
                      ObservedCapture(captures, q.links, TargetOf(q)),
                      Append(reads, e))
<1> DEFINE e == [record |-> q, proven |-> FALSE]
           t == TargetOf(q)
           new == Append(reads, e)
           n == Len(reads) + 1
           entries1 == ObservedId(entries, {q.id}, t)
           captures1 == ObservedCapture(captures, q.links, t)
<1>1. t \in Uris \cup {None} /\ t # Absent
  BY RecordFields DEF TargetOf
<1>2. e \in Reads /\ e.record = q
  BY DEF Reads
<1>3. /\ entries1 \in [RecordIds -> Entries]
      /\ captures1 \in [RecordIds -> Entries]
  BY <1>1 DEF ObservedId, ObservedCapture, Entries
<1>4. \A id \in RecordIds :
        /\ entries1[id] = IF id # q.id THEN entries[id]
                          ELSE IF entries[id] = Absent THEN t ELSE None
        /\ captures1[id] = IF id \notin q.links THEN captures[id]
                           ELSE IF captures[id] \in {Absent, t} THEN t ELSE None
  BY DEF ObservedId, ObservedCapture
<1> HIDE DEF e
<1>5. ASSUME NEW id \in RecordIds
      PROVE  /\ \A i \in 1 .. Len(reads) : new[i] = reads[i]
             /\ new[n].record = q
             /\ IF q.id = id
                THEN Bearing(new, id) = Bearing(reads, id) \cup {n}
                ELSE Bearing(new, id) = Bearing(reads, id)
             /\ IF id \in q.links
                THEN Naming(new, id) = Naming(reads, id) \cup {n}
                ELSE Naming(new, id) = Naming(reads, id)
             /\ Bearing(reads, id) \subseteq 1 .. Len(reads)
             /\ Naming(reads, id) \subseteq 1 .. Len(reads)
             /\ n \notin 1 .. Len(reads)
  BY <1>2, ReadAppended
<1> HIDE DEF t, new, n, entries1, captures1
<1>6. ASSUME NEW id \in RecordIds
      PROVE  /\ entries1[id] = Absent <=> Bearing(new, id) = {}
             /\ \A u \in Uris : entries1[id] = u <=>
                   \E i \in Bearing(new, id) : /\ Bearing(new, id) = {i}
                                               /\ TargetOf(new[i].record) = u
  <2>1. /\ entries[id] = Absent <=> Bearing(reads, id) = {}
        /\ \A u \in Uris : entries[id] = u <=>
              \E i \in Bearing(reads, id) : /\ Bearing(reads, id) = {i}
                                            /\ TargetOf(reads[i].record) = u
    BY DEF MapsExact
  <2>2. CASE id # q.id
    <3>1. Bearing(new, id) = Bearing(reads, id) /\ entries1[id] = entries[id]
      BY <1>4, <1>5, <2>2
    <3>2. \A i \in Bearing(reads, id) : new[i] = reads[i]
      BY <1>5
    <3>3. QED
      BY <2>1, <3>1, <3>2
  <2>3. CASE id = q.id /\ entries[id] = Absent
    <3>1. Bearing(new, id) = {n} /\ entries1[id] = t
      BY <1>4, <1>5, <2>1, <2>3
    <3>2. TargetOf(new[n].record) = t
      BY <1>5 DEF t
    <3>3. QED
      BY <1>1, <3>1, <3>2
  <2>4. CASE id = q.id /\ entries[id] # Absent
    <3>1. entries1[id] = None
      BY <1>4, <2>4
    <3>2. PICK k \in Bearing(reads, id) : TRUE
      BY <2>1, <2>4
    <3>3. k \in Bearing(new, id) /\ n \in Bearing(new, id) /\ k # n
      BY <1>5, <2>4, <3>2
    <3>4. QED
      BY <3>1, <3>3
  <2>5. QED
    BY <2>2, <2>3, <2>4
<1>7. ASSUME NEW id \in RecordIds
      PROVE  /\ captures1[id] = Absent <=> Naming(new, id) = {}
             /\ \A u \in Uris : captures1[id] = u <=>
                   /\ Naming(new, id) # {}
                   /\ \A i \in Naming(new, id) : TargetOf(new[i].record) = u
  <2>1. /\ captures[id] = Absent <=> Naming(reads, id) = {}
        /\ \A u \in Uris : captures[id] = u <=>
              /\ Naming(reads, id) # {}
              /\ \A i \in Naming(reads, id) : TargetOf(reads[i].record) = u
    BY DEF MapsExact
  <2>2. \A i \in Naming(reads, id) : new[i] = reads[i]
    BY <1>5
  <2>3. TargetOf(new[n].record) = t
    BY <1>5 DEF t
  <2>4. CASE id \notin q.links
    <3>1. Naming(new, id) = Naming(reads, id) /\ captures1[id] = captures[id]
      BY <1>4, <1>5, <2>4
    <3>2. QED
      BY <2>1, <2>2, <3>1
  <2>5. CASE id \in q.links
    <3>1. Naming(new, id) = Naming(reads, id) \cup {n}
      BY <1>5, <2>5
    <3>2. CASE captures[id] \in {Absent, t}
      <4>1. captures1[id] = t
        BY <1>4, <2>5, <3>2
      <4>2. ASSUME NEW u \in Uris PROVE t = u =>
               \A i \in Naming(new, id) : TargetOf(new[i].record) = u
        BY <2>1, <2>2, <2>3, <3>1, <3>2
      <4>3. QED
        BY <1>1, <2>3, <3>1, <4>1, <4>2
    <3>3. CASE captures[id] \notin {Absent, t}
      <4>1. captures1[id] = None
        BY <1>4, <2>5, <3>3
      <4>2. ASSUME NEW u \in Uris, \A i \in Naming(new, id) : TargetOf(new[i].record) = u
            PROVE  FALSE
        <5>1. t = u
          BY <2>3, <3>1, <4>2
        <5>2. captures[id] = u
          BY <2>1, <2>2, <3>1, <3>3, <4>2
        <5>3. QED
          BY <3>3, <5>1, <5>2
      <4>3. QED
        BY <3>1, <4>1, <4>2
    <3>4. QED
      BY <3>2, <3>3
  <2>6. QED
    BY <2>4, <2>5
<1>8. MapsExact(entries1, captures1, new)
  BY <1>6, <1>7 DEF MapsExact
<1>9. QED
  BY <1>3, <1>8 DEF e, t, new, entries1, captures1

\* observe of a capture leaves them so.
LEMMA CaptureObserved ==
  ASSUME NEW reads \in Seq(Reads), NEW e \in Reads, e.record.kind # "request",
         NEW entries, NEW captures, MapsExact(entries, captures, reads)
  PROVE  MapsExact(entries, captures, Append(reads, e))
<1> DEFINE new == Append(reads, e)
<1>1. \A id : /\ Bearing(new, id) = Bearing(reads, id)
              /\ Naming(new, id) = Naming(reads, id)
              /\ \A i \in Bearing(reads, id) \cup Naming(reads, id) : new[i] = reads[i]
  BY ReadAppended
<1> HIDE DEF new
<1>2. MapsExact(entries, captures, new)
  BY <1>1 DEF MapsExact
<1>3. QED
  BY <1>2 DEF new

\* The pairing follows from what the maps hold.
LEMMA PairingFromMaps ==
  ASSUME TypeOK, phase = "loading" => MapsExact(byId, byCapture, read)
  PROVE  PairingExact
<1> SUFFICES ASSUME phase = "loading", NEW r \in Captures
             PROVE  Proven(r) <=>
                /\ RequestsBefore(r) # {}
                /\ \A i \in RequestsBefore(r) :
                      read[i].record.get /\ read[i].record.uri = r.uri
                /\ \A i, j \in RequestsBefore(r) :
                      read[i].record.id = read[j].record.id /\ i # j =>
                          read[i].record.id \notin r.links
  BY DEF PairingExact
<1>1. r \in Records /\ r.uri \in Uris /\ r.id \in RecordIds /\ r.links \subseteq RecordIds
  BY RecordFields DEF Captures
<1>2. \A i \in 1 .. Len(read) : /\ read[i].record \in Records
                               /\ read[i].record.get \in BOOLEAN
  <2>1. \A i \in 1 .. Len(read) : read[i] \in Reads
    BY DEF TypeOK
  <2>2. \A i \in 1 .. Len(read) : read[i].record \in Records
    BY <2>1 DEF Reads
  <2>3. QED
    BY <2>2, RecordFields
<1>3. \A i \in 1 .. Len(read) : /\ TargetOf(read[i].record) = r.uri <=>
                                  read[i].record.get /\ read[i].record.uri = r.uri
  BY <1>1, <1>2 DEF TargetOf
<1>4. \A id \in RecordIds :
        /\ byId[id] = Absent <=> Bearing(read, id) = {}
        /\ byId[id] = r.uri <=>
              \E i \in Bearing(read, id) : /\ Bearing(read, id) = {i}
                                           /\ TargetOf(read[i].record) = r.uri
        /\ byCapture[id] = Absent <=> Naming(read, id) = {}
        /\ byCapture[id] = r.uri <=>
              /\ Naming(read, id) # {}
              /\ \A i \in Naming(read, id) : TargetOf(read[i].record) = r.uri
  BY <1>1 DEF MapsExact
<1>5. \A i : i \in RequestsBefore(r) <=>
               (\E id \in r.links : i \in Bearing(read, id)) \/ i \in Naming(read, r.id)
  BY DEF RequestsBefore, Linked, Bearing, Naming
<1>6. RequestsBefore(r) \subseteq 1 .. Len(read)
  BY DEF RequestsBefore
<1>7. Proven(r) <=>
        /\ (\E id \in r.links : byId[id] # Absent) \/ byCapture[r.id] # Absent
        /\ \A id \in r.links : byId[id] \in {Absent, r.uri}
        /\ byCapture[r.id] \in {Absent, r.uri}
  <2>1. r.uri # Absent
    BY <1>1
  <2>2. \A c : c \in Candidates(r) <=>
                 c # Absent /\ ((\E id \in r.links : c = byId[id]) \/ c = byCapture[r.id])
    BY DEF Candidates
  <2>3. Candidates(r) = {r.uri} <=>
          (\E c : c \in Candidates(r)) /\ \A c : c \in Candidates(r) => c = r.uri
    OBVIOUS
  <2>4. QED
    BY <2>1, <2>2, <2>3 DEF Proven
<1>8. ASSUME Proven(r)
      PROVE  /\ RequestsBefore(r) # {}
             /\ \A i \in RequestsBefore(r) : TargetOf(read[i].record) = r.uri
             /\ \A i, j \in RequestsBefore(r) :
                   read[i].record.id = read[j].record.id /\ i # j =>
                       read[i].record.id \notin r.links
  <2>1. RequestsBefore(r) # {}
    BY <1>1, <1>4, <1>5, <1>7, <1>8
  <2>2. ASSUME NEW i \in RequestsBefore(r) PROVE TargetOf(read[i].record) = r.uri
    <3>1. ASSUME NEW id \in r.links, i \in Bearing(read, id)
          PROVE  TargetOf(read[i].record) = r.uri
      BY <1>1, <1>4, <1>7, <1>8, <3>1
    <3>2. ASSUME i \in Naming(read, r.id) PROVE TargetOf(read[i].record) = r.uri
      BY <1>1, <1>4, <1>7, <1>8, <3>2
    <3>3. QED
      BY <1>5, <3>1, <3>2
  <2>3. ASSUME NEW i \in RequestsBefore(r), NEW j \in RequestsBefore(r), i # j,
               read[i].record.id = read[j].record.id, read[i].record.id \in r.links
        PROVE  FALSE
    <3> DEFINE id == read[i].record.id
    <3>1. i \in Bearing(read, id) /\ j \in Bearing(read, id)
      BY <1>6, <2>3 DEF Bearing, RequestsBefore, Linked
    <3>2. byId[id] = r.uri
      BY <1>1, <1>4, <1>7, <1>8, <2>3, <3>1
    <3>3. QED
      BY <1>1, <1>4, <2>3, <3>1, <3>2
  <2>4. QED
    BY <2>1, <2>2, <2>3
<1>9. ASSUME RequestsBefore(r) # {},
             \A i \in RequestsBefore(r) : TargetOf(read[i].record) = r.uri,
             \A i, j \in RequestsBefore(r) :
                read[i].record.id = read[j].record.id /\ i # j =>
                    read[i].record.id \notin r.links
      PROVE  Proven(r)
  <2>1. (\E id \in r.links : byId[id] # Absent) \/ byCapture[r.id] # Absent
    BY <1>1, <1>4, <1>5, <1>9
  <2>2. ASSUME NEW id \in r.links, byId[id] # Absent PROVE byId[id] = r.uri
    <3>1. PICK i \in Bearing(read, id) : TRUE
      BY <1>1, <1>4, <2>2
    <3>2. \A j \in Bearing(read, id) : j \in RequestsBefore(r) /\ read[j].record.id = id
      BY <1>5 DEF Bearing
    <3>3. Bearing(read, id) = {i}
      BY <1>9, <3>1, <3>2
    <3>4. QED
      BY <1>1, <1>4, <1>9, <3>1, <3>2, <3>3
  <2>3. byCapture[r.id] # Absent => byCapture[r.id] = r.uri
    BY <1>1, <1>4, <1>5, <1>9
  <2>4. QED
    BY <1>7, <2>1, <2>2, <2>3
<1>10. QED
  BY <1>3, <1>6, <1>8, <1>9

(***************************************************************************)
(* What indexing a record does to the rows.                                *)
(***************************************************************************)

\* What SoundRows and Pointed say of one row.
RowGood(u, state) ==
    state # None =>
        /\ state.tag # None /\ state.digest # None =>
              \A v \in Variants : Matches(state.variance, v) =>
                  Content[u][state.tag][v] = state.digest
        /\ state.digest # None /\ state.id # None => PayloadOf(state.id) = state.digest

LEMMA SoundByRow ==
  ASSUME NEW i
  PROVE  IndexSound(i) <=>
            /\ \A p \in Payloads : i.payloads[p] # None => PayloadOf(i.payloads[p]) = p
            /\ \A u \in Uris : RowGood(u, i.resources[u])
BY Zenon DEF IndexSound, SoundRows, Pointed, RowGood

\* One row changed, to a good one.
LEMMA RowReplaced ==
  ASSUME NEW i \in Indexes, NEW j \in Indexes, NEW u \in Uris, IndexSound(i),
         j.payloads = i.payloads,
         \A w \in Uris \ {u} : j.resources[w] = i.resources[w],
         j.resources[u] = i.resources[u] \/ RowGood(u, j.resources[u])
  PROVE  IndexSound(j)
<1>1. \A p \in Payloads : j.payloads[p] # None => PayloadOf(j.payloads[p]) = p
  BY SoundByRow
<1>2. \A w \in Uris : RowGood(w, i.resources[w])
  BY SoundByRow
<1>3. \A w \in Uris : RowGood(w, j.resources[w])
  BY <1>2
<1>4. QED
  BY <1>1, <1>3, SoundByRow

\* One payload added, with the record that holds it.
LEMMA PayloadAdded ==
  ASSUME NEW i \in Indexes, NEW p \in Payloads, NEW id \in Ids
  PROVE  /\ InsertPayload(i, p, id) \in Indexes
         /\ PayloadOf(id) = p /\ IndexSound(i) => IndexSound(InsertPayload(i, p, id))
<1> DEFINE j == InsertPayload(i, p, id)
<1>1. /\ j \in Indexes
      /\ j.resources = i.resources
      /\ \A q \in Payloads : \/ j.payloads[q] = i.payloads[q]
                             \/ q = p /\ j.payloads[q] = id
  BY InsertEffect
<1> HIDE DEF j
<1>2. ASSUME PayloadOf(id) = p, IndexSound(i) PROVE IndexSound(j)
  <2>1. /\ \A q \in Payloads : i.payloads[q] # None => PayloadOf(i.payloads[q]) = q
        /\ \A u \in Uris : RowGood(u, i.resources[u])
    BY <1>2, SoundByRow
  <2>2. \A q \in Payloads : j.payloads[q] # None => PayloadOf(j.payloads[q]) = q
    BY <1>1, <1>2, <2>1
  <2>3. QED
    BY <1>1, <2>1, <2>2, SoundByRow
<1>3. QED
  BY <1>1, <1>2 DEF j

\* A declaration made without the request admits requests only if there is none.
LEMMA DeclaredAlone ==
  ASSUME NEW r \in Records, NEW v \in Variants
  PROVE  /\ DeclaredWithoutRequest(r.vary) \in Variances
         /\ Matches(DeclaredWithoutRequest(r.vary), v) => ~r.vary
BY RecordFields DEF DeclaredWithoutRequest, Matches, Variances

\* The row that a capture's own head gives.
LEMMA AnswerGood ==
  ASSUME NEW r \in Captures, r.get, r.whole, r.ok \/ r.kind = "notModified",
         NEW state \in States, state.tag = r.tag, state.digest \in {r.served, None},
         state.id # None => PayloadOf(state.id) = r.served,
         state.variance = DeclaredWithoutRequest(r.vary)
  PROVE  RowGood(r.uri, state)
<1>1. r \in Records /\ Truthful(r)
  BY DEF Captures
<1>2. r.tag # None /\ ~r.vary => \A v \in Variants : Content[r.uri][r.tag][v] = r.served
  BY <1>1 DEF Truthful
<1>3. \A v \in Variants : Matches(state.variance, v) => ~r.vary
  BY <1>1, DeclaredAlone
<1>4. QED
  BY <1>2, <1>3 DEF RowGood

\* index_response.
LEMMA ResponseEffect ==
  ASSUME NEW i \in Indexes, NEW r \in Captures, r.kind = "response", r.whole
  PROVE  /\ IndexResponse(i, r.uri, r.digest, r.id, r.date, FALSE, r.tag, r.vary) \in Indexes
         /\ IndexResponse(i, r.uri, r.digest, r.id, r.date, TRUE, r.tag, r.vary) \in Indexes
         /\ IndexSound(i) =>
              /\ IndexSound(IndexResponse(i, r.uri, r.digest, r.id, r.date, FALSE,
                                          r.tag, r.vary))
              /\ r.get /\ r.ok =>
                    IndexSound(IndexResponse(i, r.uri, r.digest, r.id, r.date, TRUE,
                                             r.tag, r.vary))
<1> DEFINE inserted == IF r.digest = None THEN i ELSE InsertPayload(i, r.digest, r.id)
           state == [tag |-> r.tag, digest |-> r.digest, id |-> r.id,
                     observed |-> r.date, variance |-> DeclaredWithoutRequest(r.vary)]
           new == UpdateRepresentation(inserted, r.uri, state)
<1>1. r \in Records /\ Truthful(r)
  BY DEF Captures
<1>2. /\ r.digest \in Payloads \cup {None} /\ r.id \in Ids /\ r.date \in Dates
      /\ r.tag \in Tags \cup {None} /\ r.uri \in Uris
      /\ DeclaredWithoutRequest(r.vary) \in Variances
  BY <1>1, RecordFields DEF DeclaredWithoutRequest, Variances
<1>3. r.digest \in {r.served, None} /\ PayloadOf(r.id) = r.served
  BY <1>1 DEF Truthful
<1>4. inserted \in Indexes /\ (IndexSound(i) => IndexSound(inserted))
  <2>1. CASE r.digest = None
    BY <2>1
  <2>2. CASE r.digest # None
    BY <1>2, <1>3, <2>2, PayloadAdded
  <2>3. QED
    BY <2>1, <2>2
<1>5. state \in States
  BY <1>2 DEF States
<1>6. /\ state.tag = r.tag /\ state.digest = r.digest /\ state.id = r.id
      /\ state.variance = DeclaredWithoutRequest(r.vary)
  OBVIOUS
<1>7. /\ IndexResponse(i, r.uri, r.digest, r.id, r.date, FALSE, r.tag, r.vary) = inserted
      /\ IndexResponse(i, r.uri, r.digest, r.id, r.date, TRUE, r.tag, r.vary) = new
  BY DEF IndexResponse
<1> HIDE DEF inserted, state
<1>8. /\ new \in Indexes
      /\ new.payloads = inserted.payloads
      /\ \A w \in Uris \ {r.uri} : new.resources[w] = inserted.resources[w]
      /\ new.resources[r.uri] \in {state, inserted.resources[r.uri]}
  BY <1>2, <1>4, <1>5, RepresentationEffect
<1> HIDE DEF new
<1>9. ASSUME IndexSound(i), r.get, r.ok PROVE IndexSound(new)
  <2>1. RowGood(r.uri, state)
    BY <1>3, <1>5, <1>6, <1>9, AnswerGood
  <2>2. QED
    BY <1>2, <1>4, <1>8, <1>9, <2>1, RowReplaced
<1>10. QED
  BY <1>4, <1>7, <1>8, <1>9

\* index_revisit.
LEMMA RevisitEffect ==
  ASSUME NEW i \in Indexes, NEW r \in Captures, r.kind = "revisit", r.whole,
         r.head => r.ok
  PROVE  LET new == IndexRevisit(i, r.uri, r.digest, r.refers, r.date, r.head, r.tag,
                                 r.vary) IN
         /\ new \in Indexes
         /\ IndexSound(i) /\ r.get => IndexSound(new)
         /\ \E state \in States : /\ state.observed = r.date /\ state.digest = r.digest
                                 /\ new = UpdateRepresentation(i, r.uri, state)
<1> DEFINE canonical == LookupPayload(i, r.digest)
           named == IF canonical # None THEN canonical ELSE r.refers
           stored == LookupResource(i, r.uri)
           same == stored # None /\ stored.digest = r.digest
           kept == same /\ ~r.head
           state == [tag |-> IF kept THEN stored.tag ELSE r.tag,
                     digest |-> r.digest,
                     id |-> IF named = None /\ same THEN stored.id ELSE named,
                     observed |-> r.date,
                     variance |-> IF kept THEN stored.variance
                                  ELSE DeclaredWithoutRequest(r.vary)]
           new == UpdateRepresentation(i, r.uri, state)
<1>1. r \in Records /\ Truthful(r)
  BY DEF Captures
<1>2. /\ r.digest = r.served /\ r.digest \in Payloads /\ r.digest # None
      /\ r.refers # None => PayloadOf(r.refers) = r.digest
      /\ ~r.head => r.tag = None
  BY <1>1, RecordFields DEF Truthful
<1>3. /\ r.refers \in Ids \cup {None} /\ r.date \in Dates /\ r.uri \in Uris
      /\ r.tag \in Tags \cup {None} /\ r.head \in BOOLEAN
      /\ DeclaredWithoutRequest(r.vary) \in Variances
  BY <1>1, RecordFields DEF DeclaredWithoutRequest, Variances
<1>4. /\ canonical \in Ids \cup {None}
      /\ stored # None => stored \in States
      /\ stored = i.resources[r.uri]
  BY <1>2, <1>3 DEF LookupPayload, LookupResource, Indexes
<1>5. stored # None =>
        /\ stored.tag \in Tags \cup {None} /\ stored.id \in Ids \cup {None}
        /\ stored.variance \in Variances
  BY <1>4 DEF States
<1>6. IndexRevisit(i, r.uri, r.digest, r.refers, r.date, r.head, r.tag, r.vary) = new
  BY DEF IndexRevisit
<1> HIDE DEF canonical, stored
<1>7. /\ (IF kept THEN stored.tag ELSE r.tag) \in Tags \cup {None}
      /\ (IF named = None /\ same THEN stored.id ELSE named) \in Ids \cup {None}
      /\ (IF kept THEN stored.variance ELSE DeclaredWithoutRequest(r.vary)) \in Variances
  BY <1>3, <1>4, <1>5
<1>8. state \in States
  <2> HIDE DEF kept, named, same
  <2> QED
    BY <1>2, <1>3, <1>7 DEF States
<1>9. /\ state.digest = r.digest /\ state.observed = r.date
      /\ state.id = IF named = None /\ same THEN stored.id ELSE named
      /\ kept => state.tag = stored.tag /\ state.variance = stored.variance
      /\ ~kept => state.tag = r.tag /\ state.variance = DeclaredWithoutRequest(r.vary)
  <2> HIDE DEF kept, named, same
  <2> QED
    OBVIOUS
<1> HIDE DEF state
<1>10. /\ new \in Indexes
       /\ new.payloads = i.payloads
       /\ \A w \in Uris \ {r.uri} : new.resources[w] = i.resources[w]
       /\ new.resources[r.uri] \in {state, i.resources[r.uri]}
  BY <1>3, <1>8, RepresentationEffect
<1> HIDE DEF new
<1>11. ASSUME IndexSound(i), r.get PROVE IndexSound(new)
  <2>1. /\ canonical # None => PayloadOf(canonical) = r.digest
        /\ RowGood(r.uri, stored)
    BY <1>2, <1>3, <1>4, <1>11, SoundByRow DEF canonical, LookupPayload
  <2>2. state.id # None => PayloadOf(state.id) = r.digest
    BY <1>2, <1>9, <2>1 DEF RowGood
  <2>3. RowGood(r.uri, state)
    <3>1. CASE kept
      BY <1>9, <2>1, <2>2, <3>1 DEF RowGood
    <3>2. CASE ~kept /\ r.head
      <4>1. r.ok /\ state.tag = r.tag /\ state.variance = DeclaredWithoutRequest(r.vary)
        BY <1>9, <3>2
      <4>2. state.digest \in {r.served, None}
            /\ (state.id # None => PayloadOf(state.id) = r.served)
        BY <1>2, <1>9, <2>2
      <4>3. QED
        BY <1>8, <1>11, <4>1, <4>2, AnswerGood
    <3>3. CASE ~kept /\ ~r.head
      BY <1>2, <1>9, <2>2, <3>3 DEF RowGood
    <3>4. QED
      BY <1>3, <3>1, <3>2, <3>3
  <2>4. QED
    BY <1>3, <1>10, <1>11, <2>3, RowReplaced
<1>12. QED
  BY <1>6, <1>8, <1>9, <1>10, <1>11 DEF new

\* A confirmation of the row: its validator is one of the row's payload, or the row
\* is not matched any more.
LEMMA NotModifiedSound ==
  ASSUME NEW i \in Indexes, NEW u \in Uris, NEW tag \in Tags \cup {None},
         NEW variance \in {None, Unselectable}, NEW date \in Dates
  PROVE  LET new == UpdateNotModified(i, u, tag, variance, date)
             row == i.resources[u]
         IN
         /\ new \in Indexes
         /\ /\ IndexSound(i)
            /\ variance = None /\ tag # None /\ row # None /\ row.digest # None =>
                  \A v \in Variants : Content[u][tag][v] = row.digest
            => IndexSound(new)
<1> DEFINE new == UpdateNotModified(i, u, tag, variance, date)
           row == i.resources[u]
           newRow == new.resources[u]
<1>1. variance \in Variances \cup {None}
  BY DEF Variances
<1>2. /\ new \in Indexes
      /\ new.payloads = i.payloads
      /\ \A w \in Uris \ {u} : new.resources[w] = i.resources[w]
      /\ \/ newRow = row
         \/ /\ row # None /\ newRow # None
            /\ newRow.digest = row.digest
            /\ newRow.id = row.id
            /\ newRow.tag = IF tag = None THEN row.tag ELSE tag
            /\ newRow.variance = IF variance = None THEN row.variance ELSE variance
  BY <1>1, NotModifiedEffect, SMTT(60)
<1> HIDE DEF new
<1>3. ASSUME IndexSound(i),
             variance = None /\ tag # None /\ row # None /\ row.digest # None =>
                \A v \in Variants : Content[u][tag][v] = row.digest
      PROVE  IndexSound(new)
  <2>1. RowGood(u, row)
    BY <1>3, SoundByRow
  <2>2. \A v \in Variants : ~Matches(Unselectable, v)
    BY DEF Matches
  <2>3. Unselectable # None
    BY DEF Variances
  <2>4. newRow = row \/ RowGood(u, newRow)
    <3>1. SUFFICES ASSUME newRow # row PROVE RowGood(u, newRow)
      OBVIOUS
    <3>2. /\ row # None /\ newRow # None /\ newRow.digest = row.digest
          /\ newRow.id = row.id
          /\ newRow.tag = IF tag = None THEN row.tag ELSE tag
          /\ newRow.variance = IF variance = None THEN row.variance ELSE variance
      BY <1>2, <3>1
    <3> HIDE DEF row, newRow
    <3>3. CASE variance = Unselectable
      BY <2>1, <2>2, <2>3, <3>2, <3>3 DEF RowGood
    <3>4. CASE variance = None
      BY <1>3, <2>1, <3>2, <3>4 DEF RowGood
    <3>5. QED
      BY <3>3, <3>4
  <2>5. QED
    BY <1>2, <1>3, <2>4, RowReplaced
<1>4. QED
  BY <1>2, <1>3 DEF new

\* index_confirmation.
LEMMA ConfirmationEffect ==
  ASSUME NEW i \in Indexes, NEW r \in Captures, r.kind = "notModified", r.whole
  PROVE  LET new == IndexConfirmation(i, r.uri, r.digest, r.refers, r.dated, r.date,
                                      r.tag, r.vary) IN
         new \in Indexes /\ (IndexSound(i) /\ r.get /\ Named(r) => IndexSound(new))
<1> DEFINE new == IndexConfirmation(i, r.uri, r.digest, r.refers, r.dated, r.date,
                                    r.tag, r.vary)
           stored == i.resources[r.uri]
           variance == IF r.vary THEN DeclaredWithoutRequest(r.vary) ELSE None
           state == [tag |-> r.tag, digest |-> r.digest, id |-> r.refers,
                     observed |-> r.date, variance |-> DeclaredWithoutRequest(r.vary)]
<1>1. r \in Records /\ Truthful(r)
  BY DEF Captures
<1>2. /\ r.digest \in {r.served, None} /\ r.digest \in Payloads \cup {None}
      /\ r.refers # None => PayloadOf(r.refers) = r.served
      /\ r.refers \in Ids \cup {None} /\ r.date \in Dates /\ r.uri \in Uris
      /\ r.tag \in Tags \cup {None} /\ r.vary \in BOOLEAN /\ r.served \in Payloads
  BY <1>1, RecordFields DEF Truthful
<1>3. DeclaredWithoutRequest(r.vary) \in Variances /\ variance \in Variances \cup {None}
      /\ (r.vary => variance = Unselectable)
      /\ (~r.vary => variance = None)
  BY <1>2 DEF DeclaredWithoutRequest, Variances
<1>4. CASE Confirms(stored, r.digest, r.refers)
  <2>1. new = UpdateNotModified(i, r.uri, r.tag, variance, r.date)
    BY <1>4 DEF IndexConfirmation, LookupResource
  <2>2. variance \in {None, Unselectable}
    BY <1>2, <1>3
  <2>3. ASSUME IndexSound(i), r.get, Named(r), variance = None, r.tag # None,
               stored # None, stored.digest # None
        PROVE  \A v \in Variants : Content[r.uri][r.tag][v] = stored.digest
    <3>1. r.digest \in {None, stored.digest} /\ r.refers \in {None, stored.id}
      BY <1>4 DEF Confirms
    <3>2. RowGood(r.uri, stored)
      BY <1>2, <2>3, SoundByRow
    <3>3. stored.digest = r.served
      BY <1>2, <2>3, <3>1, <3>2 DEF Named, RowGood
    <3>4. ~r.vary
      BY <1>3, <2>3 DEF Variances
    <3>5. QED
      BY <1>1, <2>3, <3>3, <3>4 DEF Truthful
  <2> DEFINE u == r.uri
             tag == r.tag
             date == r.date
             after == UpdateNotModified(i, u, tag, variance, date)
  <2>4. u \in Uris /\ tag \in Tags \cup {None} /\ date \in Dates
    BY <1>2
  <2>5. IndexSound(i) /\ r.get /\ Named(r) =>
          (variance = None /\ tag # None /\ i.resources[u] # None
             /\ i.resources[u].digest # None =>
                \A v \in Variants : Content[u][tag][v] = i.resources[u].digest)
    BY <2>3
  <2> HIDE DEF u, tag, date, variance
  <2>6. after \in Indexes /\ (IndexSound(i) /\ r.get /\ Named(r) => IndexSound(after))
    BY <2>2, <2>4, <2>5, NotModifiedSound
  <2>7. QED
    BY <2>1, <2>6 DEF u, tag, date
<1>5. CASE ~Confirms(stored, r.digest, r.refers) /\ r.refers # None /\ r.dated
  <2>1. new = UpdateRepresentation(i, r.uri, state)
    BY <1>5 DEF IndexConfirmation, LookupResource
  <2>2. state \in States
    BY <1>2, <1>3 DEF States
  <2>3. /\ state.tag = r.tag /\ state.digest = r.digest /\ state.id = r.refers
        /\ state.variance = DeclaredWithoutRequest(r.vary)
    OBVIOUS
  <2> HIDE DEF state
  <2>4. /\ new \in Indexes
        /\ new.payloads = i.payloads
        /\ \A w \in Uris \ {r.uri} : new.resources[w] = i.resources[w]
        /\ new.resources[r.uri] \in {state, stored}
    BY <1>2, <2>1, <2>2, RepresentationEffect
  <2> HIDE DEF new
  <2>5. ASSUME IndexSound(i), r.get PROVE IndexSound(new)
    <3>1. RowGood(r.uri, state)
      BY <1>2, <2>2, <2>3, <2>5, AnswerGood
    <3>2. QED
      BY <1>2, <2>4, <2>5, <3>1, RowReplaced
  <2>6. QED
    BY <2>4, <2>5 DEF new
<1>6. CASE ~Confirms(stored, r.digest, r.refers) /\ ~(r.refers # None /\ r.dated)
  <2>1. new = i
    BY <1>6 DEF IndexConfirmation, LookupResource
  <2>2. QED
    BY <2>1
<1>7. QED
  BY <1>4, <1>5, <1>6

\* index_record.
LEMMA IndexedEffect ==
  ASSUME NEW i \in Indexes, NEW r \in Captures
  PROVE  /\ Indexed(i, r, FALSE) \in Indexes
         /\ Indexed(i, r, TRUE) \in Indexes
         /\ IndexSound(i) => IndexSound(Indexed(i, r, FALSE))
         /\ IndexSound(i) /\ Named(r) /\ r.get => IndexSound(Indexed(i, r, TRUE))
<1>1. CASE ~r.whole
  <2>1. Indexed(i, r, FALSE) = i /\ Indexed(i, r, TRUE) = i
    BY <1>1 DEF Indexed
  <2>2. QED
    BY <2>1
<1>2. CASE r.whole /\ r.kind = "response"
  <2>1. Indexed(i, r, FALSE) =
          IndexResponse(i, r.uri, r.digest, r.id, r.date, FALSE, r.tag, r.vary)
    BY <1>2 DEF Indexed, IndexResponse
  <2>2. CASE r.ok
    <3>1. Indexed(i, r, TRUE) =
            IndexResponse(i, r.uri, r.digest, r.id, r.date, TRUE, r.tag, r.vary)
      BY <1>2, <2>2 DEF Indexed, IndexResponse
    <3>2. QED
      BY <1>2, <2>1, <2>2, <3>1, ResponseEffect
  <2>3. CASE ~r.ok
    <3>1. Indexed(i, r, TRUE) = Indexed(i, r, FALSE)
      BY <1>2, <2>3 DEF Indexed, IndexResponse
    <3>2. QED
      BY <1>2, <2>1, <3>1, ResponseEffect
  <2>4. QED
    BY <2>2, <2>3
<1>3. CASE r.whole /\ r.kind = "notModified"
  <2>1. /\ Indexed(i, r, FALSE) = i
        /\ Indexed(i, r, TRUE) =
             IndexConfirmation(i, r.uri, r.digest, r.refers, r.dated, r.date, r.tag, r.vary)
    BY <1>3 DEF Indexed
  <2>2. QED
    BY <1>3, <2>1, ConfirmationEffect
<1>4. CASE r.whole /\ r.kind = "revisit"
  <2>1. Indexed(i, r, FALSE) = i
    BY <1>4 DEF Indexed
  <2>2. CASE r.head => r.ok
    <3>1. Indexed(i, r, TRUE) =
            IndexRevisit(i, r.uri, r.digest, r.refers, r.date, r.head, r.tag, r.vary)
      BY <1>4, <2>2 DEF Indexed
    <3>2. QED
      BY <1>4, <2>1, <2>2, <3>1, RevisitEffect
  <2>3. CASE ~(r.head => r.ok)
    <3>1. Indexed(i, r, TRUE) = i
      BY <1>4, <2>3 DEF Indexed
    <3>2. QED
      BY <2>1, <3>1
  <2>4. QED
    BY <2>2, <2>3
<1>5. r.kind \in {"response", "revisit", "notModified"}
  BY RecordFields DEF Captures, Kinds
<1>6. QED
  BY <1>1, <1>2, <1>3, <1>4, <1>5

\* What the pairing proved is one or the other.
LEMMA IndexedByPairing ==
  ASSUME NEW r \in Captures
  PROVE  /\ Proven(r) => Indexed(working, r, Proven(r)) = Indexed(working, r, TRUE)
         /\ ~Proven(r) => Indexed(working, r, Proven(r)) = Indexed(working, r, FALSE)
<1>1. CASE Proven(r)
  BY <1>1 DEF Indexed, IndexResponse
<1>2. CASE ~Proven(r)
  BY <1>2 DEF Indexed, IndexResponse
<1>3. QED
  BY <1>1, <1>2

(***************************************************************************)
(* The order of captures.                                                  *)
(***************************************************************************)

\* A capture leaves the row of its URI, if that is as new or the capture says
\* nothing of it, or makes it one of the capture's date and payload.
RowOrdered(row, newRow, r, get) ==
    \/ /\ newRow = row
       /\ Establishing([record |-> r, proven |-> get]) =>
             row # None /\ row.observed >= r.date
    \/ /\ get /\ newRow # None /\ newRow.observed = r.date
       /\ row # None => r.date >= row.observed
       /\ newRow.digest \in {None, r.served}

RowsOrdered(i, new, r, get) ==
    /\ \A w \in Uris \ {r.uri} : new.resources[w] = i.resources[w]
    /\ RowOrdered(i.resources[r.uri], new.resources[r.uri], r, get)

\* UPSERT_RESOURCE with what the capture says.
LEMMA RepresentationOrdered ==
  ASSUME NEW i \in Indexes, NEW r \in Captures, NEW state \in States,
         state.observed = r.date, state.digest \in {None, r.served}
  PROVE  /\ UpdateRepresentation(i, r.uri, state).payloads = i.payloads
         /\ RowsOrdered(i, UpdateRepresentation(i, r.uri, state), r, TRUE)
<1> DEFINE row == i.resources[r.uri]
           new == UpdateRepresentation(i, r.uri, state)
           newRow == new.resources[r.uri]
<1>1. r.uri \in Uris /\ r.date \in Dates
  BY RecordFields DEF Captures
<1>2. /\ new.payloads = i.payloads
      /\ \A w \in Uris \ {r.uri} : new.resources[w] = i.resources[w]
      /\ \/ newRow = state /\ (row # None => state.observed >= row.observed)
         \/ newRow = row /\ row # None /\ ~(state.observed >= row.observed)
  BY <1>1, RepresentationEffect
<1>3. CASE newRow = state /\ (row # None => state.observed >= row.observed)
  BY <1>2, <1>3 DEF RowsOrdered, RowOrdered
<1>4. CASE newRow = row /\ row # None /\ ~(state.observed >= row.observed)
  <2>1. row \in States
    BY <1>1, <1>4 DEF Indexes
  <2>2. row.observed \in Int /\ r.date \in Int
    BY <1>1, <2>1 DEF States
  <2>3. row.observed >= r.date
    BY <1>4, <2>2
  <2>4. QED
    BY <1>2, <1>4, <2>3 DEF RowsOrdered, RowOrdered
<1>5. QED
  BY <1>2, <1>3, <1>4

\* A confirmation of a row is one of its payload.
LEMMA ConfirmedServed ==
  ASSUME NEW i \in Indexes, Pointed(i), NEW r \in Captures, Named(r),
         r.kind = "notModified", Confirms(i.resources[r.uri], r.digest, r.refers)
  PROVE  i.resources[r.uri].digest \in {None, r.served}
<1> DEFINE row == i.resources[r.uri]
<1>1. /\ r.digest \in {r.served, None} /\ r.uri \in Uris
      /\ r.refers # None => PayloadOf(r.refers) = r.served
  BY RecordFields DEF Captures, Truthful
<1>2. row # None /\ r.digest \in {None, row.digest} /\ r.refers \in {None, row.id}
  BY DEF Confirms
<1>3. row.digest # None /\ row.id # None => PayloadOf(row.id) = row.digest
  BY <1>1, <1>2 DEF Pointed
<1>4. CASE r.digest # None
  BY <1>1, <1>2, <1>4
<1>5. CASE r.refers # None
  BY <1>1, <1>2, <1>3, <1>5
<1>6. QED
  BY <1>4, <1>5 DEF Named

\* index_confirmation.
LEMMA ConfirmationOrdered ==
  ASSUME NEW i \in Indexes, Pointed(i), NEW r \in Captures, Named(r),
         r.kind = "notModified"
  PROVE  LET new == IndexConfirmation(i, r.uri, r.digest, r.refers, r.dated, r.date,
                                      r.tag, r.vary) IN
         /\ new.payloads = i.payloads
         /\ RowsOrdered(i, new, r, TRUE)
<1> DEFINE new == IndexConfirmation(i, r.uri, r.digest, r.refers, r.dated, r.date,
                                    r.tag, r.vary)
           row == i.resources[r.uri]
           newRow == new.resources[r.uri]
           variance == IF r.vary THEN DeclaredWithoutRequest(r.vary) ELSE None
           state == [tag |-> r.tag, digest |-> r.digest, id |-> r.refers,
                     observed |-> r.date, variance |-> DeclaredWithoutRequest(r.vary)]
<1> SUFFICES /\ new.payloads = i.payloads
             /\ RowsOrdered(i, new, r, TRUE)
  OBVIOUS
<1>1. /\ r \in Records /\ r.digest \in {r.served, None} /\ r.digest \in Payloads \cup {None}
      /\ r.refers \in Ids \cup {None} /\ r.date \in Dates /\ r.uri \in Uris
      /\ r.tag \in Tags \cup {None}
  BY RecordFields DEF Captures, Truthful
<1>2. /\ DeclaredWithoutRequest(r.vary) \in Variances
      /\ variance \in Variances \cup {None}
  BY DEF DeclaredWithoutRequest, Variances
<1>3. CASE Confirms(row, r.digest, r.refers)
  <2>1. new = UpdateNotModified(i, r.uri, r.tag, variance, r.date)
    BY <1>3 DEF IndexConfirmation, LookupResource
  <2>2. row # None /\ row.digest \in {None, r.served}
    BY <1>3, ConfirmedServed DEF Confirms
  <2> HIDE DEF variance, new
  <2> DEFINE u == r.uri
             tag == r.tag
             date == r.date
             after == UpdateNotModified(i, u, tag, variance, date)
  <2>3. u \in Uris /\ tag \in Tags \cup {None} /\ date \in Dates
    BY <1>1
  <2>4. new = after
    BY <2>1
  <2> HIDE DEF u, tag, date
  <2>5. LET newer == after.resources[u]
            older == i.resources[u]
        IN
        /\ after \in Indexes
        /\ after.payloads = i.payloads
        /\ \A w \in Uris \ {u} : after.resources[w] = i.resources[w]
        /\ \/ newer = older /\ ~(older # None /\ date >= older.observed)
           \/ /\ older # None /\ newer # None
              /\ newer.observed = date /\ date >= older.observed
              /\ newer.digest = older.digest
              /\ newer.id = older.id
              /\ newer.tag = IF tag = None THEN older.tag ELSE tag
              /\ newer.variance = IF variance = None THEN older.variance ELSE variance
    BY <1>2, <2>3, NotModifiedEffect, SMTT(60)
  <2> HIDE DEF after
  <2>6. row \in States
    BY <1>1, <2>2 DEF Indexes
  <2>7. row.observed \in Int /\ r.date \in Int
    BY <1>1, <2>6 DEF States
  <2>8. /\ new.payloads = i.payloads
        /\ \A w \in Uris \ {r.uri} : new.resources[w] = i.resources[w]
        /\ \/ newRow = row /\ ~(row # None /\ r.date >= row.observed)
           \/ /\ newRow # None /\ newRow.observed = r.date /\ r.date >= row.observed
              /\ newRow.digest = row.digest
    BY <2>4, <2>5 DEF u, date
  <2> HIDE DEF row, newRow
  <2>9. CASE newRow = row /\ ~(row # None /\ r.date >= row.observed)
    <3>1. row.observed >= r.date
      BY <2>2, <2>7, <2>9
    <3>2. RowOrdered(row, newRow, r, TRUE)
      BY <2>2, <2>9, <3>1 DEF RowOrdered
    <3>3. QED
      BY <2>8, <3>2 DEF RowsOrdered, row, newRow
  <2>10. CASE newRow # None /\ newRow.observed = r.date /\ r.date >= row.observed
              /\ newRow.digest = row.digest
    <3>1. RowOrdered(row, newRow, r, TRUE)
      BY <2>2, <2>10 DEF RowOrdered
    <3>2. QED
      BY <2>8, <3>1 DEF RowsOrdered, row, newRow
  <2>11. QED
    BY <2>8, <2>9, <2>10
<1>4. CASE ~Confirms(row, r.digest, r.refers) /\ r.refers # None /\ r.dated
  <2>1. new = UpdateRepresentation(i, r.uri, state)
    BY <1>4 DEF IndexConfirmation, LookupResource
  <2>2. state \in States /\ state.observed = r.date /\ state.digest = r.digest
    BY <1>1, <1>2 DEF States
  <2> HIDE DEF state, new
  <2>3. QED
    BY <1>1, <2>1, <2>2, RepresentationOrdered
<1>5. CASE ~Confirms(row, r.digest, r.refers) /\ ~(r.refers # None /\ r.dated)
  <2>1. new = i
    BY <1>5 DEF IndexConfirmation, LookupResource
  <2>2. ~Establishing([record |-> r, proven |-> TRUE])
    BY <1>5 DEF Establishing
  <2>3. QED
    BY <2>1, <2>2 DEF RowsOrdered, RowOrdered
<1>6. QED
  BY <1>3, <1>4, <1>5

\* index_response.
LEMMA ResponseOrdered ==
  ASSUME NEW i \in Indexes, NEW r \in Captures, r.kind = "response", r.whole,
         NEW get \in BOOLEAN
  PROVE  LET new == IndexResponse(i, r.uri, r.digest, r.id, r.date, get /\ r.ok, r.tag,
                                  r.vary) IN
         /\ \A p \in Payloads : new.payloads[p] =
               IF r.digest = p /\ i.payloads[p] = None THEN r.id ELSE i.payloads[p]
         /\ RowsOrdered(i, new, r, get)
<1> DEFINE inserted == IF r.digest = None THEN i ELSE InsertPayload(i, r.digest, r.id)
           state == [tag |-> r.tag, digest |-> r.digest, id |-> r.id,
                     observed |-> r.date, variance |-> DeclaredWithoutRequest(r.vary)]
           new == IndexResponse(i, r.uri, r.digest, r.id, r.date, get /\ r.ok, r.tag,
                                r.vary)
<1>1. /\ r \in Records /\ r.digest \in {r.served, None} /\ r.digest \in Payloads \cup {None}
      /\ r.id \in Ids /\ r.date \in Dates /\ r.uri \in Uris /\ r.tag \in Tags \cup {None}
      /\ r.ok \in BOOLEAN
      /\ DeclaredWithoutRequest(r.vary) \in Variances
  BY RecordFields DEF Captures, Truthful, DeclaredWithoutRequest, Variances
<1>2. new = IF get /\ r.ok THEN UpdateRepresentation(inserted, r.uri, state)
            ELSE inserted
  BY DEF IndexResponse
<1>3. /\ inserted \in Indexes /\ inserted.resources = i.resources
      /\ \A p \in Payloads : inserted.payloads[p] =
            IF r.digest = p /\ i.payloads[p] = None THEN r.id ELSE i.payloads[p]
  <2>1. CASE r.digest = None
    BY <2>1
  <2>2. CASE r.digest # None
    <3>1. /\ inserted = InsertPayload(i, r.digest, r.id) /\ r.digest \in Payloads
          /\ InsertPayload(i, r.digest, r.id) \in Indexes
          /\ InsertPayload(i, r.digest, r.id).resources = i.resources
      BY <1>1, <2>2, InsertEffect
    <3>2. \A p \in Payloads : InsertPayload(i, r.digest, r.id).payloads[p] =
            IF r.digest = p /\ i.payloads[p] = None THEN r.id ELSE i.payloads[p]
      <4>1. SUFFICES ASSUME NEW p \in Payloads
                     PROVE  InsertPayload(i, r.digest, r.id).payloads[p] =
              IF r.digest = p /\ i.payloads[p] = None THEN r.id ELSE i.payloads[p]
        OBVIOUS
      <4>2. QED
        BY <1>1, <3>1, InsertEffect
    <3> HIDE DEF inserted
    <3>3. QED
      BY <3>1, <3>2
  <2>3. QED
    BY <2>1, <2>2
<1>4. state \in States /\ state.observed = r.date /\ state.digest = r.digest
  BY <1>1 DEF States
<1> HIDE DEF inserted, state, new
<1>5. CASE get /\ r.ok
  <2>1. new = UpdateRepresentation(inserted, r.uri, state)
    BY <1>2, <1>5
  <2>2. /\ new.payloads = inserted.payloads
        /\ RowsOrdered(inserted, new, r, TRUE)
    <3>1. state.digest \in {None, r.served}
      BY <1>1, <1>4
    <3>2. QED
      BY <1>3, <1>4, <2>1, <3>1, RepresentationOrdered
  <2>3. get = TRUE
    BY <1>5
  <2>4. QED
    BY <1>3, <2>2, <2>3 DEF RowsOrdered, new
<1>6. CASE ~(get /\ r.ok)
  <2>1. new = inserted
    BY <1>2, <1>6
  <2>2. ~Establishing([record |-> r, proven |-> get])
    BY <1>6 DEF Establishing
  <2>3. QED
    BY <1>3, <2>1, <2>2 DEF RowsOrdered, RowOrdered, new
<1>7. QED
  BY <1>5, <1>6

\* Only a complete response adds to the payloads, and only one not there.
PayloadAfter(i, r, p) ==
    IF r.kind = "response" /\ r.whole /\ r.digest = p /\ i.payloads[p] = None
    THEN r.id ELSE i.payloads[p]

\* index_confirmation.
LEMMA ConfirmationPayloads ==
  ASSUME NEW i \in Indexes, NEW r \in Captures
  PROVE  IndexConfirmation(i, r.uri, r.digest, r.refers, r.dated, r.date, r.tag,
                           r.vary).payloads = i.payloads
<1> DEFINE u == r.uri
           tag == r.tag
           date == r.date
           variance == IF r.vary THEN DeclaredWithoutRequest(r.vary) ELSE None
           state == [tag |-> r.tag, digest |-> r.digest, id |-> r.refers,
                     observed |-> r.date, variance |-> DeclaredWithoutRequest(r.vary)]
           new == IndexConfirmation(i, r.uri, r.digest, r.refers, r.dated, r.date,
                                    r.tag, r.vary)
<1>1. \/ new = i
      \/ new = UpdateNotModified(i, u, tag, variance, date)
      \/ new = UpdateRepresentation(i, u, state)
  BY DEF IndexConfirmation
<1>2. /\ DeclaredWithoutRequest(r.vary) \in Variances
      /\ variance \in Variances \cup {None}
  BY DEF DeclaredWithoutRequest, Variances
<1>3. u \in Uris /\ tag \in Tags \cup {None} /\ date \in Dates
  BY RecordFields DEF Captures
<1>4. state \in States
  BY <1>2, RecordFields DEF Captures, States
<1> HIDE DEF u, tag, date, variance, state, new
<1>5. UpdateNotModified(i, u, tag, variance, date).payloads = i.payloads
  BY <1>2, <1>3, NotModifiedEffect
<1>6. UpdateRepresentation(i, u, state).payloads = i.payloads
  BY <1>3, <1>4, RepresentationEffect
<1>7. new.payloads = i.payloads
  BY <1>1, <1>5, <1>6
<1>8. QED
  BY <1>7 DEF new

\* index_record, of the payloads.
LEMMA IndexedPayloads ==
  ASSUME NEW i \in Indexes, NEW r \in Captures, NEW get \in BOOLEAN, NEW p \in Payloads
  PROVE  Indexed(i, r, get).payloads[p] = PayloadAfter(i, r, p)
<1>1. CASE ~r.whole
  BY <1>1 DEF Indexed, PayloadAfter
<1>2. CASE r.whole /\ r.kind = "response"
  <2>1. Indexed(i, r, get) =
          IndexResponse(i, r.uri, r.digest, r.id, r.date, get /\ r.ok, r.tag, r.vary)
    BY <1>2 DEF Indexed
  <2>2. QED
    BY <1>2, <2>1, ResponseOrdered DEF PayloadAfter
<1>3. CASE r.whole /\ r.kind = "notModified"
  <2>1. \/ Indexed(i, r, get) = i
        \/ Indexed(i, r, get) =
             IndexConfirmation(i, r.uri, r.digest, r.refers, r.dated, r.date, r.tag,
                               r.vary)
    BY <1>3 DEF Indexed
  <2>2. QED
    BY <1>3, <2>1, ConfirmationPayloads DEF PayloadAfter
<1>4. CASE r.whole /\ r.kind = "revisit"
  <2>1. CASE Indexed(i, r, get) = i
    BY <1>4, <2>1 DEF PayloadAfter
  <2>2. CASE Indexed(i, r, get) # i
    <3>1. r.head => r.ok
      BY <1>4, <2>2 DEF Indexed
    <3>2. PICK state \in States :
            Indexed(i, r, get) = UpdateRepresentation(i, r.uri, state)
      <4>1. Indexed(i, r, get) =
              IndexRevisit(i, r.uri, r.digest, r.refers, r.date, r.head, r.tag, r.vary)
        BY <1>4, <2>2 DEF Indexed
      <4>2. QED
        BY <1>4, <3>1, <4>1, RevisitEffect
    <3>3. r.uri \in Uris
      BY RecordFields DEF Captures
    <3>4. Indexed(i, r, get).payloads = i.payloads
      BY <3>2, <3>3, RepresentationEffect
    <3>5. QED
      BY <1>4, <3>4 DEF PayloadAfter
  <2>3. QED
    BY <2>1, <2>2
<1>5. r.kind \in {"response", "revisit", "notModified"}
  BY RecordFields DEF Captures, Kinds
<1>6. QED
  BY <1>1, <1>2, <1>3, <1>4, <1>5

\* index_record, of the rows.
LEMMA IndexedRows ==
  ASSUME NEW i \in Indexes, Pointed(i), NEW r \in Captures, Named(r), NEW get \in BOOLEAN
  PROVE  RowsOrdered(i, Indexed(i, r, get), r, get)
<1>1. CASE Indexed(i, r, get) = i /\ ~Establishing([record |-> r, proven |-> get])
  BY <1>1 DEF RowsOrdered, RowOrdered
<1>2. CASE ~r.whole
  BY <1>1, <1>2 DEF Indexed, Establishing
<1>3. CASE r.whole /\ r.kind = "response"
  <2>1. Indexed(i, r, get) =
          IndexResponse(i, r.uri, r.digest, r.id, r.date, get /\ r.ok, r.tag, r.vary)
    BY <1>3 DEF Indexed
  <2>2. QED
    BY <1>3, <2>1, ResponseOrdered
<1>4. CASE r.whole /\ r.kind # "response" /\ ~get
  BY <1>1, <1>4 DEF Indexed, Establishing
<1>5. CASE r.whole /\ r.kind = "notModified" /\ get
  <2>1. Indexed(i, r, get) =
          IndexConfirmation(i, r.uri, r.digest, r.refers, r.dated, r.date, r.tag, r.vary)
    BY <1>5 DEF Indexed
  <2>2. get = TRUE
    BY <1>5
  <2>3. QED
    BY <1>5, <2>1, <2>2, ConfirmationOrdered
<1>6. CASE r.whole /\ r.kind = "revisit" /\ get
  <2>1. CASE ~(r.head => r.ok)
    BY <1>1, <1>6, <2>1 DEF Indexed, Establishing
  <2>2. CASE r.head => r.ok
    <3>1. Indexed(i, r, get) =
            IndexRevisit(i, r.uri, r.digest, r.refers, r.date, r.head, r.tag, r.vary)
      BY <1>6, <2>2 DEF Indexed
    <3>2. PICK state \in States :
            /\ state.observed = r.date /\ state.digest = r.digest
            /\ Indexed(i, r, get) = UpdateRepresentation(i, r.uri, state)
      BY <1>6, <2>2, <3>1, RevisitEffect
    <3>3. state.digest \in {None, r.served}
      BY <3>2 DEF Captures, Truthful
    <3>4. RowsOrdered(i, UpdateRepresentation(i, r.uri, state), r, TRUE)
      BY <3>2, <3>3, RepresentationOrdered
    <3>5. get = TRUE
      BY <1>6
    <3>6. QED
      BY <3>2, <3>4, <3>5
  <2>3. QED
    BY <2>1, <2>2
<1>7. r.kind \in {"response", "revisit", "notModified"}
  BY RecordFields DEF Captures, Kinds
<1>8. QED
  BY <1>2, <1>3, <1>4, <1>5, <1>6, <1>7

\* One more record read, of the payloads.
LEMMA CanonicalStep ==
  ASSUME NEW reads \in Seq(Reads), NEW e \in Reads, NEW i, NEW new,
         CanonicalIn(i, reads),
         \A p \in Payloads : new.payloads[p] = PayloadAfter(i, e.record, p)
  PROVE  CanonicalIn(new, Append(reads, e))
<1> DEFINE after == Append(reads, e)
           n == Len(reads) + 1
<1>1. /\ Len(reads) \in Nat /\ Len(after) = n /\ after[n] = e
      /\ \A k \in 1 .. Len(reads) : after[k] = reads[k]
      /\ 1 .. n = (1 .. Len(reads)) \cup {n}
  OBVIOUS
<1> HIDE DEF after
<1> SUFFICES CanonicalIn(new, after)
  BY DEF after
<1>2. SUFFICES ASSUME NEW p \in Payloads
               PROVE  IF CopiesOf(after, p) = {} THEN new.payloads[p] = None
                      ELSE \E k \in CopiesOf(after, p) :
                              /\ \A j \in CopiesOf(after, p) : k <= j
                              /\ new.payloads[p] = after[k].record.id
  BY DEF CanonicalIn
<1> DEFINE copies == CopiesOf(reads, p)
           r == e.record
<1>3. CopiesOf(after, p) = IF r.kind = "response" /\ r.whole /\ r.digest = p
                           THEN copies \cup {n} ELSE copies
  BY <1>1 DEF CopiesOf
<1>4. copies \subseteq 1 .. Len(reads)
  BY DEF CopiesOf
<1>5. IF copies = {} THEN i.payloads[p] = None
      ELSE \E k \in copies : /\ \A j \in copies : k <= j
                             /\ i.payloads[p] = reads[k].record.id
  BY DEF CanonicalIn
<1>6. new.payloads[p] = PayloadAfter(i, r, p)
  OBVIOUS
<1> HIDE DEF copies, r
<1>7. CASE copies = {}
  <2>1. i.payloads[p] = None
    BY <1>5, <1>7
  <2>2. CASE r.kind = "response" /\ r.whole /\ r.digest = p
    <3>1. CopiesOf(after, p) = {n} /\ new.payloads[p] = r.id
      BY <1>3, <1>6, <1>7, <2>1, <2>2 DEF PayloadAfter
    <3>2. after[n].record.id = r.id
      BY <1>1 DEF r
    <3>3. QED
      BY <1>1, <3>1, <3>2
  <2>3. CASE ~(r.kind = "response" /\ r.whole /\ r.digest = p)
    BY <1>3, <1>6, <1>7, <2>1, <2>3 DEF PayloadAfter
  <2>4. QED
    BY <2>2, <2>3
<1>8. CASE copies # {}
  <2>1. PICK k \in copies : /\ \A j \in copies : k <= j
                            /\ i.payloads[p] = reads[k].record.id
    BY <1>5, <1>8
  <2>2. i.payloads[p] # None
    <3>1. reads[k] \in Reads
      BY <1>4, <2>1
    <3>2. reads[k].record \in Records
      BY <3>1 DEF Reads
    <3>3. reads[k].record.id \in Ids
      BY <3>2, RecordFields
    <3>4. QED
      BY <2>1, <3>3
  <2>3. new.payloads[p] = after[k].record.id
    BY <1>1, <1>4, <1>6, <2>1, <2>2 DEF PayloadAfter
  <2>4. \A j \in CopiesOf(after, p) : k <= j
    BY <1>1, <1>3, <1>4, <2>1
  <2>5. k \in CopiesOf(after, p)
    BY <1>3, <2>1
  <2>6. QED
    BY <2>3, <2>4, <2>5
<1>9. QED
  BY <1>7, <1>8

\* One more capture read, of the rows.
LEMMA NewestStep ==
  ASSUME NEW reads \in Seq(Reads), NEW r \in Captures, NEW get \in BOOLEAN,
         NEW i \in Indexes, NEW new,
         NewestIn(i, reads), RowsOrdered(i, new, r, get)
  PROVE  NewestIn(new, Append(reads, [record |-> r, proven |-> get]))
<1> DEFINE e == [record |-> r, proven |-> get]
           after == Append(reads, e)
           n == Len(reads) + 1
<1>0. r \in Records /\ r.kind # "request" /\ r.uri \in Uris /\ r.date \in Dates
  BY RecordFields DEF Captures
<1>1. e \in Reads /\ e.record = r /\ e.proven = get
  BY <1>0 DEF Reads
<1> HIDE DEF e
<1>2. /\ Len(reads) \in Nat /\ Len(after) = n /\ after[n] = e
      /\ \A k \in 1 .. Len(reads) : after[k] = reads[k]
      /\ 1 .. n = (1 .. Len(reads)) \cup {n}
  BY <1>1
<1> HIDE DEF after
<1> SUFFICES NewestIn(new, after)
  BY DEF after, e
<1>3. \A u \in Uris : /\ CapturesOf(reads, u) \subseteq 1 .. Len(reads)
                      /\ CapturesOf(after, u) = IF r.uri = u THEN CapturesOf(reads, u) \cup {n}
                                                ELSE CapturesOf(reads, u)
  BY <1>0, <1>1, <1>2 DEF CapturesOf
<1>4. \A u \in Uris : \A k \in CapturesOf(reads, u) :
        after[k] = reads[k] /\ reads[k].record.date \in Int
  <2>1. SUFFICES ASSUME NEW u \in Uris, NEW k \in CapturesOf(reads, u)
                 PROVE  after[k] = reads[k] /\ reads[k].record.date \in Int
    OBVIOUS
  <2>2. k \in 1 .. Len(reads)
    BY <1>3
  <2>3. reads[k] \in Reads
    BY <2>2
  <2>4. reads[k].record \in Records
    BY <2>3 DEF Reads
  <2>5. reads[k].record.date \in Dates
    BY <2>4, RecordFields
  <2>6. QED
    BY <1>2, <2>2, <2>5
<1>5. SUFFICES ASSUME NEW u \in Uris
               PROVE  /\ \A k \in CapturesOf(after, u) : Establishing(after[k]) =>
                            /\ new.resources[u] # None
                            /\ new.resources[u].observed >= after[k].record.date
                      /\ new.resources[u] # None /\ new.resources[u].digest # None =>
                            \E k \in CapturesOf(after, u) :
                                /\ after[k].proven
                                /\ after[k].record.date = new.resources[u].observed
                                /\ after[k].record.served = new.resources[u].digest
  BY DEF NewestIn
<1> DEFINE row == i.resources[u]
           newRow == new.resources[u]
<1>6. /\ \A k \in CapturesOf(reads, u) : Establishing(reads[k]) =>
            row # None /\ row.observed >= reads[k].record.date
      /\ row # None /\ row.digest # None =>
            \E k \in CapturesOf(reads, u) :
                /\ reads[k].proven
                /\ reads[k].record.date = row.observed
                /\ reads[k].record.served = row.digest
  BY DEF NewestIn
<1>7. row # None => row.observed \in Int
  <2>1. SUFFICES ASSUME row # None PROVE row.observed \in Int
    OBVIOUS
  <2>2. row \in States
    BY <2>1 DEF Indexes
  <2>3. QED
    BY <2>2 DEF States
<1>8. CASE r.uri # u
  <2>1. newRow = row /\ CapturesOf(after, u) = CapturesOf(reads, u)
    BY <1>3, <1>8 DEF RowsOrdered
  <2>2. QED
    BY <1>4, <1>6, <2>1
<1>9. CASE r.uri = u
  <2>1. RowOrdered(row, newRow, r, get)
    BY <1>9 DEF RowsOrdered
  <2>2. CapturesOf(after, u) = CapturesOf(reads, u) \cup {n}
    BY <1>3, <1>9
  <2>3. after[n].record = r /\ after[n].proven = get /\ r.date \in Int
        /\ Establishing(after[n]) = Establishing([record |-> r, proven |-> get])
    BY <1>0, <1>1, <1>2 DEF e
  <2> HIDE DEF row, newRow
  <2>4. CASE newRow = row /\ (Establishing(after[n]) => row # None /\ row.observed >= r.date)
    BY <1>4, <1>6, <2>2, <2>3, <2>4 DEF newRow
  <2>5. CASE /\ get /\ newRow # None /\ newRow.observed = r.date
             /\ row # None => r.date >= row.observed
             /\ newRow.digest \in {None, r.served}
    <3>1. \A k \in CapturesOf(reads, u) : Establishing(reads[k]) =>
            r.date >= reads[k].record.date
      BY <1>4, <1>6, <1>7, <2>3, <2>5
    <3>2. \A k \in CapturesOf(after, u) : Establishing(after[k]) =>
            newRow.observed >= after[k].record.date
      BY <1>4, <2>2, <2>3, <2>5, <3>1
    <3>3. n \in CapturesOf(after, u)
      BY <2>2
    <3>4. QED
      BY <2>3, <2>5, <3>2, <3>3 DEF newRow
  <2>6. QED
    BY <2>1, <2>3, <2>4, <2>5 DEF RowOrdered
<1>10. QED
  BY <1>8, <1>9

\* One more request read, which says nothing of rows.
LEMMA NewestRequest ==
  ASSUME NEW reads \in Seq(Reads), NEW e \in Reads, e.record.kind = "request",
         NEW i, NewestIn(i, reads)
  PROVE  NewestIn(i, Append(reads, e))
<1> DEFINE after == Append(reads, e)
           n == Len(reads) + 1
<1>1. /\ Len(reads) \in Nat /\ Len(after) = n /\ after[n] = e
      /\ \A k \in 1 .. Len(reads) : after[k] = reads[k]
      /\ 1 .. n = (1 .. Len(reads)) \cup {n}
  OBVIOUS
<1> HIDE DEF after
<1>2. \A u \in Uris : /\ CapturesOf(after, u) = CapturesOf(reads, u)
                      /\ \A k \in CapturesOf(reads, u) : after[k] = reads[k]
  BY <1>1 DEF CapturesOf
<1>3. ASSUME NEW u \in Uris
      PROVE  LET row == i.resources[u] IN
             /\ \A k \in CapturesOf(after, u) : Establishing(after[k]) =>
                   row # None /\ row.observed >= after[k].record.date
             /\ row # None /\ row.digest # None =>
                   \E k \in CapturesOf(after, u) :
                       /\ after[k].proven
                       /\ after[k].record.date = row.observed
                       /\ after[k].record.served = row.digest
  <2> DEFINE row == i.resources[u]
  <2>1. /\ \A k \in CapturesOf(reads, u) : Establishing(reads[k]) =>
              row # None /\ row.observed >= reads[k].record.date
        /\ row # None /\ row.digest # None =>
              \E k \in CapturesOf(reads, u) :
                  /\ reads[k].proven
                  /\ reads[k].record.date = row.observed
                  /\ reads[k].record.served = row.digest
    BY DEF NewestIn
  <2> HIDE DEF row
  <2>2. \A k \in CapturesOf(after, u) : k \in CapturesOf(reads, u) /\ after[k] = reads[k]
    BY <1>2
  <2>3. \A k \in CapturesOf(after, u) : Establishing(after[k]) =>
              row # None /\ row.observed >= after[k].record.date
    BY <2>1, <2>2
  <2>4. row # None /\ row.digest # None =>
              \E k \in CapturesOf(after, u) :
                  /\ after[k].proven
                  /\ after[k].record.date = row.observed
                  /\ after[k].record.served = row.digest
    BY <1>2, <2>1
  <2>5. QED
    BY <2>3, <2>4 DEF row
<1>4. NewestIn(i, after)
  BY <1>3 DEF NewestIn
<1>5. QED
  BY <1>4 DEF after

(***************************************************************************)
(* The theorems.                                                           *)
(***************************************************************************)

PairingInv ==
    /\ TypeOK
    /\ phase = "loading" => MapsExact(byId, byCapture, read)

LEMMA NoRequestsExact == MapsExact(NoRequests, NoRequests, <<>>)
<1>1. \A id : Bearing(<<>>, id) = {} /\ Naming(<<>>, id) = {}
  BY DEF Bearing, Naming
<1>2. \A id \in RecordIds : NoRequests[id] = Absent
  BY DEF NoRequests
<1>3. \A u \in Uris : u # Absent
  OBVIOUS
<1>4. QED
  BY <1>1, <1>2, <1>3 DEF MapsExact

LEMMA EmptyIndexSound == EmptyIndex \in Indexes /\ IndexSound(EmptyIndex)
BY DEF EmptyIndex, Indexes, IndexSound, SoundRows, Pointed

LEMMA PairingStep ==
  ASSUME PairingInv, [Next]_vars
  PROVE  PairingInv'
<1> USE DEF PairingInv
<1>0. TypeOK
  OBVIOUS
<1>1. CASE Begin
  <2>1. NoRequests \in [RecordIds -> Entries]
    BY DEF NoRequests, Entries
  <2>2. TypeOK'
    BY <1>0, <1>1, <2>1 DEF Begin, TypeOK
  <2>3. MapsExact(byId', byCapture', read')
    BY <1>1, NoRequestsExact DEF Begin
  <2>4. QED
    BY <2>2, <2>3
<1>2. CASE ReadRequest
  <2>1. PICK q \in Records :
          /\ q.kind = "request"
          /\ byId' = ObservedId(byId, {q.id}, TargetOf(q))
          /\ byCapture' = ObservedCapture(byCapture, q.links, TargetOf(q))
          /\ read' = Append(read, [record |-> q, proven |-> FALSE])
    BY <1>2 DEF ReadRequest
  <2>2. /\ phase = "loading" /\ phase' = phase
        /\ UNCHANGED <<index, working, loaded>>
    BY <1>2 DEF ReadRequest
  <2>3. /\ read \in Seq(Reads)
        /\ byId \in [RecordIds -> Entries] /\ byCapture \in [RecordIds -> Entries]
        /\ MapsExact(byId, byCapture, read)
    BY <1>0, <2>2 DEF TypeOK
  <2>4. /\ byId' \in [RecordIds -> Entries] /\ byCapture' \in [RecordIds -> Entries]
        /\ MapsExact(byId', byCapture', read')
    BY <2>1, <2>3, RequestObserved
  <2>5. read' \in Seq(Reads)
    <3>1. [record |-> q, proven |-> FALSE] \in Reads
      BY DEF Reads
    <3>2. QED
      BY <2>1, <2>3, <3>1
  <2>6. TypeOK'
    BY <1>0, <2>2, <2>4, <2>5 DEF TypeOK
  <2>7. QED
    BY <2>4, <2>6
<1>3. CASE ReadCapture
  <2>1. PICK r \in Captures :
          /\ working' = Indexed(working, r, Proven(r))
          /\ read' = Append(read, [record |-> r, proven |-> Proven(r)])
    BY <1>3 DEF ReadCapture
  <2>2. /\ phase = "loading" /\ phase' = phase
        /\ UNCHANGED <<index, byId, byCapture, loaded>>
    BY <1>3 DEF ReadCapture
  <2>3. working' \in Indexes
    BY <1>0, <2>1, IndexedEffect, IndexedByPairing DEF TypeOK
  <2> DEFINE e == [record |-> r, proven |-> Proven(r)]
  <2>4. e \in Reads /\ e.record.kind # "request"
    BY DEF Reads, Captures, Proven
  <2>5. read' = Append(read, e) /\ read \in Seq(Reads)
    BY <1>0, <2>1 DEF TypeOK
  <2> HIDE DEF e
  <2>6. read' \in Seq(Reads)
    BY <2>4, <2>5
  <2>7. MapsExact(byId', byCapture', read')
    BY <2>2, <2>4, <2>5, CaptureObserved
  <2>8. TypeOK'
    BY <1>0, <2>2, <2>3, <2>6 DEF TypeOK
  <2>9. QED
    BY <2>7, <2>8
<1>4. CASE Commit
  <2>1. TypeOK'
    BY <1>0, <1>4 DEF Commit, TypeOK
  <2>2. QED
    BY <1>4, <2>1 DEF Commit
<1>5. CASE Abandon
  <2>1. TypeOK'
    BY <1>0, <1>5 DEF Abandon, TypeOK
  <2>2. QED
    BY <1>5, <2>1 DEF Abandon
<1>8. CASE IndexRecord
  <2>1. PICK r \in Captures, finished \in BOOLEAN :
          /\ index' = Indexed(index, r, finished)
          /\ loaded' = Append(loaded, [record |-> r, proven |-> finished])
    BY <1>8 DEF IndexRecord
  <2>2. index' \in Indexes
    <3>1. finished = TRUE \/ finished = FALSE
      OBVIOUS
    <3>2. QED
      BY <1>0, <2>1, <3>1, IndexedEffect DEF TypeOK
  <2>3. [record |-> r, proven |-> finished] \in Reads
    BY DEF Reads, Captures
  <2>4. loaded' \in Seq(Reads)
    BY <1>0, <2>1, <2>3 DEF TypeOK
  <2>5. TypeOK'
    BY <1>0, <1>8, <2>2, <2>4 DEF IndexRecord, TypeOK
  <2>6. QED
    BY <1>8, <2>5 DEF IndexRecord
<1>6. CASE UNCHANGED vars
  <2>1. TypeOK'
    BY <1>0, <1>6 DEF vars, TypeOK
  <2>2. QED
    BY <1>6, <2>1 DEF vars
<1>7. QED
  BY <1>1, <1>2, <1>3, <1>4, <1>5, <1>6, <1>8 DEF Next

LEMMA PairingInit == Init => PairingInv
<1>1. NoRequests \in [RecordIds -> Entries]
  BY DEF NoRequests, Entries
<1>2. QED
  BY <1>1, EmptyIndexSound DEF Init, PairingInv, TypeOK

\* Whatever requests an archive has, repeated or contradicting one another, a capture
\* counts as a GET's exactly if all the requests linked to it and read before it say so.
THEOREM IngestionPairingExact == Spec => []PairingExact
<1>1. Spec => []PairingInv
  BY PairingInit, PairingStep, PTL DEF Spec
<1>2. PairingInv => PairingExact
  BY PairingFromMaps DEF PairingInv
<1>3. QED
  BY <1>1, <1>2, PTL

\* Only captures made by a GET are taken for such.
LEMMA ProvenIsGet ==
  ASSUME TypeOK, phase = "loading", PairingExact, NEW r \in Captures, Proven(r)
  PROVE  r.get
<1>1. RequestsBefore(r) # {}
      /\ \A i \in RequestsBefore(r) : read[i].record.get /\ read[i].record.uri = r.uri
  BY DEF PairingExact
<1>2. PICK i \in RequestsBefore(r) : read[i].record.get /\ read[i].record.uri = r.uri
  BY <1>1
<1>3. read[i] \in Reads
  BY DEF RequestsBefore, TypeOK
<1>4. read[i].record \in Records /\ Linked(read[i].record, r)
  BY <1>3 DEF Reads, RequestsBefore
<1>5. Truthful(r) /\ r.get \in BOOLEAN
  BY RecordFields DEF Captures
<1>6. QED
  BY <1>2, <1>4, <1>5 DEF Truthful

LEMMA IngestionStep ==
  ASSUME \A r \in Records : Named(r), IInv, [Next]_vars
  PROVE  IInv'
<1>1. PairingInv
  BY DEF IInv, PairingInv
<1>2. PairingInv' /\ PairingExact
  BY <1>1, PairingStep, PairingFromMaps DEF PairingInv
<1>3. IndexSound(index) /\ IndexSound(working)
  BY DEF IInv
<1>4. IndexSound(index') /\ IndexSound(working')
  <2>1. CASE Begin
    BY <1>3, <2>1 DEF Begin
  <2>2. CASE ReadRequest
    BY <1>3, <2>2 DEF ReadRequest
  <2>3. CASE ReadCapture
    <3>1. PICK r \in Captures : working' = Indexed(working, r, Proven(r))
      BY <2>3 DEF ReadCapture
    <3>2. Proven(r) => r.get
      BY <1>1, <1>2, <2>3, ProvenIsGet DEF PairingInv, ReadCapture
    <3>3. Named(r) /\ working \in Indexes
      BY <1>1 DEF PairingInv, TypeOK, Captures
    <3>4. IndexSound(working')
      BY <1>3, <3>1, <3>2, <3>3, IndexedEffect, IndexedByPairing
    <3>5. QED
      BY <1>3, <2>3, <3>4 DEF ReadCapture
  <2>4. CASE Commit
    BY <1>3, <2>4 DEF Commit
  <2>5. CASE Abandon
    BY <1>3, <2>5 DEF Abandon
  <2>6. CASE IndexRecord
    <3>1. PICK r \in Captures, finished \in BOOLEAN :
             r.get /\ index' = Indexed(index, r, finished)
      BY <2>6 DEF IndexRecord
    <3>2. Named(r) /\ index \in Indexes
      BY <1>1 DEF PairingInv, TypeOK, Captures
    <3>3. finished = TRUE \/ finished = FALSE
      OBVIOUS
    <3>4. IndexSound(index')
      BY <1>3, <3>1, <3>2, <3>3, IndexedEffect
    <3>5. QED
      BY <1>3, <2>6, <3>4 DEF IndexRecord
  <2>7. CASE UNCHANGED vars
    BY <1>3, <2>7 DEF vars
  <2>8. QED
    BY <2>1, <2>2, <2>3, <2>4, <2>5, <2>6, <2>7 DEF Next
<1>5. QED
  BY <1>2, <1>4 DEF IInv, PairingInv, IndexSound, SoundRows, Pointed

\* The inductive invariant: the indexes are sound, committed or not, and the maps
\* are exact, provided that every confirmation names what it confirms.
THEOREM IngestionInvariant ==
  ASSUME \A r \in Records : Named(r)
  PROVE  Spec => []IInv
<1>1. Init => IInv
  BY PairingInit, EmptyIndexSound DEF Init, IInv, PairingInv
<1>2. IInv /\ [Next]_vars => IInv'
  BY IngestionStep
<1>3. QED
  BY <1>1, <1>2, PTL DEF Spec

\* No archives, in whatever order they are loaded, give a row whose validator
\* belongs to another payload than the row's.
THEOREM IngestionRowsUnmixed ==
  ASSUME \A r \in Records : Named(r)
  PROVE  Spec => []RowsUnmixed
<1>1. IInv => RowsUnmixed
  BY DEF IInv, IndexSound, RowsUnmixed
<1>2. QED
  BY <1>1, IngestionInvariant, PTL

\* What is said of the reads of a load, followed in the transaction.
LEMMA LoadedThen ==
  ASSUME TypeOK, NEW e \in Reads
  PROVE  /\ loaded \o read \in Seq(Reads)
         /\ loaded \o <<>> = loaded
         /\ loaded \o Append(read, e) = Append(loaded \o read, e)
<1>1. loaded \in Seq(Reads) /\ read \in Seq(Reads)
  BY DEF TypeOK
<1>2. /\ Append(read, e) = read \o <<e>>
      /\ loaded \o read \in Seq(Reads)
      /\ <<e>> \in Seq(Reads)
  BY <1>1, AppendIsConcat, ConcatProperties
<1>3. Append(loaded \o read, e) = (loaded \o read) \o <<e>>
  BY <1>2, AppendIsConcat
<1>4. (loaded \o read) \o <<e>> = loaded \o (read \o <<e>>)
  BY <1>1, <1>2, ConcatAssociative
<1>5. loaded \o <<>> = loaded
  BY <1>1, ConcatEmptySeq
<1>6. QED
  BY <1>2, <1>3, <1>4, <1>5

\* The payloads' part of OrderInv, for which no confirmation needs a name.
CanonicalInv ==
    /\ CanonicalIn(index, loaded)
    /\ phase = "loading" => CanonicalIn(working, loaded \o read)

LEMMA CanonicalKept ==
  ASSUME TypeOK, CanonicalInv, [Next]_vars
  PROVE  CanonicalInv'
<1>t. /\ index \in Indexes /\ working \in Indexes
      /\ read \in Seq(Reads) /\ loaded \in Seq(Reads)
  BY DEF TypeOK
<1>i. /\ CanonicalIn(index, loaded)
      /\ phase = "loading" => CanonicalIn(working, loaded \o read)
  BY DEF CanonicalInv
<1>1. CASE Begin
  <2>1. loaded \o <<>> = loaded
    BY <1>t, ConcatEmptySeq
  <2>2. QED
    BY <1>1, <1>i, <2>1 DEF Begin, CanonicalInv
<1>2. CASE ReadRequest
  <2>1. PICK q \in Records :
          q.kind = "request" /\ read' = Append(read, [record |-> q, proven |-> FALSE])
    BY <1>2 DEF ReadRequest
  <2> DEFINE e == [record |-> q, proven |-> FALSE]
  <2>2. e \in Reads /\ e.record = q
    BY DEF Reads
  <2>3. /\ phase = "loading" /\ index' = index /\ working' = working /\ loaded' = loaded
        /\ read' = Append(read, e)
    BY <1>2, <2>1 DEF ReadRequest
  <2> HIDE DEF e
  <2>4. \A p \in Payloads : working.payloads[p] = PayloadAfter(working, e.record, p)
    BY <2>1, <2>2 DEF PayloadAfter
  <2>5. CanonicalIn(working, Append(loaded \o read, e))
    BY <1>i, <2>2, <2>3, <2>4, CanonicalStep, LoadedThen
  <2>6. QED
    BY <1>i, <2>2, <2>3, <2>5, LoadedThen DEF CanonicalInv
<1>3. CASE ReadCapture
  <2>1. PICK r \in Captures :
          /\ working' = Indexed(working, r, Proven(r))
          /\ read' = Append(read, [record |-> r, proven |-> Proven(r)])
    BY <1>3 DEF ReadCapture
  <2> DEFINE get == Proven(r)
             e == [record |-> r, proven |-> get]
  <2>2. e \in Reads /\ e.record = r /\ get \in BOOLEAN
    BY DEF Reads, Captures, Proven
  <2>3. /\ phase = "loading" /\ index' = index /\ loaded' = loaded
        /\ working' = Indexed(working, r, get) /\ read' = Append(read, e)
    BY <1>3, <2>1 DEF ReadCapture
  <2> HIDE DEF e, get
  <2>4. \A p \in Payloads : working'.payloads[p] = PayloadAfter(working, e.record, p)
    BY <1>t, <2>2, <2>3, IndexedPayloads
  <2>5. CanonicalIn(working', Append(loaded \o read, e))
    BY <1>i, <2>2, <2>3, <2>4, CanonicalStep, LoadedThen
  <2>6. QED
    BY <1>i, <2>2, <2>3, <2>5, LoadedThen DEF CanonicalInv
<1>4. CASE Commit
  BY <1>4, <1>i DEF Commit, CanonicalInv
<1>5. CASE Abandon
  BY <1>5, <1>i DEF Abandon, CanonicalInv
<1>6. CASE IndexRecord
  <2>1. PICK r \in Captures, finished \in BOOLEAN :
          /\ index' = Indexed(index, r, finished)
          /\ loaded' = Append(loaded, [record |-> r, proven |-> finished])
    BY <1>6 DEF IndexRecord
  <2> DEFINE e == [record |-> r, proven |-> finished]
  <2>2. e \in Reads /\ e.record = r
    BY DEF Reads, Captures
  <2>3. loaded' = Append(loaded, e) /\ phase' = "idle"
    BY <1>6, <2>1 DEF IndexRecord
  <2> HIDE DEF e
  <2>4. \A p \in Payloads : index'.payloads[p] = PayloadAfter(index, e.record, p)
    BY <1>t, <2>1, <2>2, IndexedPayloads
  <2>5. CanonicalIn(index', loaded')
    BY <1>i, <1>t, <2>2, <2>3, <2>4, CanonicalStep
  <2>6. QED
    BY <2>3, <2>5 DEF CanonicalInv
<1>7. CASE UNCHANGED vars
  BY <1>7, <1>i DEF vars, CanonicalInv
<1>8. QED
  BY <1>1, <1>2, <1>3, <1>4, <1>5, <1>6, <1>7 DEF Next

\* And the rows'.
LEMMA NewestKept ==
  ASSUME \A r \in Records : Named(r), IInv, OrderInv, [Next]_vars
  PROVE  /\ NewestIn(index, loaded)'
         /\ (phase = "loading" => NewestIn(working, loaded \o read))'
<1>t. /\ TypeOK /\ index \in Indexes /\ working \in Indexes
      /\ read \in Seq(Reads) /\ loaded \in Seq(Reads)
      /\ Pointed(index) /\ Pointed(working)
  BY DEF IInv, TypeOK, IndexSound
<1>i. /\ NewestIn(index, loaded)
      /\ phase = "loading" => NewestIn(working, loaded \o read)
  BY DEF OrderInv
<1>1. CASE Begin
  <2>1. loaded \o <<>> = loaded
    BY <1>t, ConcatEmptySeq
  <2>2. QED
    BY <1>1, <1>i, <2>1 DEF Begin
<1>2. CASE ReadRequest
  <2>1. PICK q \in Records :
          q.kind = "request" /\ read' = Append(read, [record |-> q, proven |-> FALSE])
    BY <1>2 DEF ReadRequest
  <2> DEFINE e == [record |-> q, proven |-> FALSE]
  <2>2. e \in Reads /\ e.record.kind = "request"
    BY <2>1 DEF Reads
  <2>3. /\ phase = "loading" /\ index' = index /\ working' = working /\ loaded' = loaded
        /\ read' = Append(read, e)
    BY <1>2, <2>1 DEF ReadRequest
  <2> HIDE DEF e
  <2>4. NewestIn(working, Append(loaded \o read, e))
    BY <1>i, <1>t, <2>2, <2>3, NewestRequest, LoadedThen
  <2>5. QED
    BY <1>i, <1>t, <2>2, <2>3, <2>4, LoadedThen
<1>3. CASE ReadCapture
  <2>1. PICK r \in Captures :
          /\ working' = Indexed(working, r, Proven(r))
          /\ read' = Append(read, [record |-> r, proven |-> Proven(r)])
    BY <1>3 DEF ReadCapture
  <2> DEFINE get == Proven(r)
             e == [record |-> r, proven |-> get]
  <2>2. e \in Reads /\ get \in BOOLEAN /\ Named(r)
    BY DEF Reads, Captures, Proven
  <2>3. /\ phase = "loading" /\ index' = index /\ loaded' = loaded
        /\ working' = Indexed(working, r, get) /\ read' = Append(read, e)
    BY <1>3, <2>1 DEF ReadCapture
  <2> HIDE DEF get
  <2>4. RowsOrdered(working, working', r, get)
    BY <1>t, <2>2, <2>3, IndexedRows
  <2>5. loaded \o read \in Seq(Reads) /\ loaded \o Append(read, e) = Append(loaded \o read, e)
    <3> HIDE DEF e
    <3> QED
      BY <1>t, <2>2, LoadedThen
  <2>6. NewestIn(working', Append(loaded \o read, e))
    BY <1>i, <1>t, <2>2, <2>3, <2>4, <2>5, NewestStep
  <2>7. QED
    BY <1>i, <2>3, <2>5, <2>6
<1>4. CASE Commit
  BY <1>4, <1>i DEF Commit
<1>5. CASE Abandon
  BY <1>5, <1>i DEF Abandon
<1>6. CASE IndexRecord
  <2>1. PICK r \in Captures, finished \in BOOLEAN :
          /\ index' = Indexed(index, r, finished)
          /\ loaded' = Append(loaded, [record |-> r, proven |-> finished])
    BY <1>6 DEF IndexRecord
  <2>2. RowsOrdered(index, index', r, finished)
    BY <1>t, <2>1, IndexedRows DEF Captures
  <2>3. NewestIn(index', loaded')
    BY <1>i, <1>t, <2>1, <2>2, NewestStep
  <2>4. phase' = "idle"
    BY <1>6 DEF IndexRecord
  <2>5. QED
    BY <2>3, <2>4
<1>7. CASE UNCHANGED vars
  BY <1>7, <1>i DEF vars
<1>8. QED
  BY <1>1, <1>2, <1>3, <1>4, <1>5, <1>6, <1>7 DEF Next

LEMMA OrderInit == Init => OrderInv /\ CanonicalInv
<1> SUFFICES ASSUME Init PROVE OrderInv /\ CanonicalInv
  OBVIOUS
<1>1. /\ \A p \in Payloads : CopiesOf(<<>>, p) = {}
      /\ \A u \in Uris : CapturesOf(<<>>, u) = {}
  BY DEF CopiesOf, CapturesOf
<1>2. /\ \A p \in Payloads : EmptyIndex.payloads[p] = None
      /\ \A u \in Uris : EmptyIndex.resources[u] = None
  BY DEF EmptyIndex
<1>3. CanonicalIn(EmptyIndex, <<>>) /\ NewestIn(EmptyIndex, <<>>)
  BY <1>1, <1>2 DEF CanonicalIn, NewestIn
<1>4. QED
  BY <1>3 DEF Init, OrderInv, CanonicalInv

\* The canonical record of a payload is the first complete response with it among
\* the loads that committed, whatever loads were abandoned and whatever a
\* confirmation names (load_records, INSERT_PAYLOAD).
THEOREM IngestionPayloadsCanonical == Spec => []PayloadsCanonical
<1>1. Spec => []PairingInv
  BY PairingInit, PairingStep, PTL DEF Spec
<1>2. PairingInv /\ CanonicalInv /\ [Next]_vars => CanonicalInv'
  BY CanonicalKept DEF PairingInv
<1>3. CanonicalInv => PayloadsCanonical
  BY DEF CanonicalInv, PayloadsCanonical
<1>4. QED
  BY <1>1, <1>2, <1>3, OrderInit, PTL DEF Spec

\* Whatever archives are loaded, in whatever order, a payload's record is the first
\* and a URI's row the newest capture's (UPSERT_RESOURCE, update_resource).
THEOREM IngestionOrderRespected ==
  ASSUME \A r \in Records : Named(r)
  PROVE  Spec => []OrderRespected
<1>1. IInv /\ OrderInv /\ [Next]_vars => OrderInv'
  <2> SUFFICES ASSUME IInv, OrderInv, [Next]_vars PROVE OrderInv'
    OBVIOUS
  <2>1. TypeOK /\ CanonicalInv
    BY DEF IInv, OrderInv, CanonicalInv
  <2>2. CanonicalInv'
    BY <2>1, CanonicalKept
  <2>3. QED
    BY <2>2, NewestKept DEF OrderInv, CanonicalInv
<1>2. OrderInv => OrderRespected
  BY DEF OrderInv, OrderRespected, PayloadsCanonical, RowsNewest
<1>3. QED
  BY <1>1, <1>2, IngestionInvariant, OrderInit, PTL DEF Spec

=============================================================================
