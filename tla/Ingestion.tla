------------------------------ MODULE Ingestion ------------------------------
(***************************************************************************)
(* Loading WARC archives into the revisit index (ingest.rs): the pairing   *)
(* of captures with the requests that made them, and the transaction each  *)
(* load runs in.  Which archives are loaded, and in which order, is        *)
(* nobody's to choose: any record may come next.                           *)
(***************************************************************************)
EXTENDS RevisitIndex, Sequences, FiniteSets

CONSTANTS
    Content,        \* Content[u][t][v]: the payload of u's version t for variant v
    PayloadOf(_),   \* the payload of the full record an identifier names
    Records,        \* the records archives are made of
    Absent,         \* no entry in a map
    MaxRecords      \* bound: records loaded

Kinds == {"request", "response", "revisit", "notModified"}

\* What ingestion sees of a record, and what was served by the exchange it is of.
\* get is true of a complete GET request, and of a capture that one made; whole is
\* false of a truncated, segmented, malformed or wrongly digested capture.
RecordType ==
    [kind : Kinds, id : Ids, uri : Uris, links : SUBSET Ids, get : BOOLEAN,
     whole : BOOLEAN, ok : BOOLEAN, head : BOOLEAN, tag : Tags \cup {None},
     vary : BOOLEAN, digest : Payloads \cup {None}, refers : Ids \cup {None},
     dated : BOOLEAN, date : Dates, served : Payloads]

\* Either record may name the other in WARC-Concurrent-To.
Linked(q, r) == q.kind = "request" /\ (q.id \in r.links \/ r.id \in q.links)

\* A capture says what was served, and is not linked to a GET that did not make it.
Truthful(r) ==
    /\ r.digest \in {r.served, None}
    /\ r.refers # None => PayloadOf(r.refers) = r.served
    /\ r.kind = "response" /\ r.whole => PayloadOf(r.id) = r.served
    /\ r.kind = "revisit" /\ r.whole => r.digest # None
    /\ ~r.head => r.tag = None
    /\ r.get /\ r.whole /\ (r.ok \/ r.kind = "notModified") /\ r.tag # None /\ ~r.vary =>
          \A v \in Variants : Content[r.uri][r.tag][v] = r.served
    /\ ~r.get => \A q \in Records : Linked(q, r) => ~(q.get /\ q.uri = r.uri)

Captures == {r \in Records : r.kind # "request"}

ASSUME RecordsAssumption ==
    /\ Records \subseteq RecordType
    /\ \A r \in Captures : Truthful(r)
    /\ None \notin Uris /\ Absent \notin Uris \cup {None}
    /\ MaxRecords \in Nat

ASSUME IngestedContentAssumption ==
    Content \in [Uris -> [Tags -> [Variants -> Payloads]]]

\* The identifiers that requests bear and captures are named by.
RecordIds == {r.id : r \in Records} \cup UNION {r.links : r \in Records}

VARIABLES
    phase,      \* "idle", or "loading" within a transaction
    index,      \* what is committed
    working,    \* what the transaction sees
    byId,       \* requests.by_id: the target of a complete GET, None of any other
    byCapture,  \* requests.by_capture
    read,       \* the records of this load, each with what its pairing proved
    loaded      \* those of the loads that committed

vars == <<phase, index, working, byId, byCapture, read, loaded>>

Entries == Uris \cup {None, Absent}
Reads == [record : Records, proven : BOOLEAN]

TypeOK ==
    /\ phase \in {"idle", "loading"}
    /\ index \in Indexes
    /\ working \in Indexes
    /\ byId \in [RecordIds -> Entries]
    /\ byCapture \in [RecordIds -> Entries]
    /\ read \in Seq(Reads)
    /\ loaded \in Seq(Reads)

NoRequests == [i \in RecordIds |-> Absent]

Init ==
    /\ phase = "idle"
    /\ index = EmptyIndex
    /\ working = EmptyIndex
    /\ byId = NoRequests
    /\ byCapture = NoRequests
    /\ read = <<>>
    /\ loaded = <<>>

-----------------------------------------------------------------------------
(* Requests.                                                               *)

TargetOf(q) == IF q.get THEN q.uri ELSE None

\* Faulty: the first request of an identity speaks for all.
ObservedFirst(entries, ids, target) ==
    [i \in RecordIds |-> IF i \in ids /\ entries[i] = Absent THEN target ELSE entries[i]]

\* by_id: a repeated identity proves nothing.
ObservedId(entries, ids, target) ==
    [i \in RecordIds |-> IF i \notin ids THEN entries[i]
                         ELSE IF entries[i] = Absent THEN target ELSE None]

\* by_capture: requests that disagree prove nothing.
ObservedCapture(entries, ids, target) ==
    [i \in RecordIds |-> IF i \notin ids THEN entries[i]
                         ELSE IF entries[i] \in {Absent, target} THEN target ELSE None]

Candidates(r) == ({byId[i] : i \in r.links} \cup {byCapture[r.id]}) \ {Absent}

\* Requests::observe of a capture: every request linked to it was a complete GET
\* for its target, and there was one.
Proven(r) == Candidates(r) = {r.uri}

-----------------------------------------------------------------------------
(* load_records.                                                           *)

\* index_record: i with capture r, of which get says that a GET made it.
Indexed(i, r, get) ==
    IF ~r.whole THEN i
    ELSE IF r.kind = "response"
    THEN IndexResponse(i, r.uri, r.digest, r.id, r.date, get /\ r.ok, r.tag, r.vary)
    ELSE IF ~get THEN i
    ELSE IF r.kind = "notModified"
    THEN IndexConfirmation(i, r.uri, r.digest, r.refers, r.dated, r.date, r.tag, r.vary)
    ELSE IF r.head => r.ok
    THEN IndexRevisit(i, r.uri, r.digest, r.refers, r.date, r.head, r.tag, r.vary)
    ELSE i

Begin ==
    /\ phase = "idle"
    /\ phase' = "loading"
    /\ working' = index
    /\ byId' = NoRequests
    /\ byCapture' = NoRequests
    /\ read' = <<>>
    /\ UNCHANGED <<index, loaded>>

ReadRequest ==
    /\ phase = "loading"
    /\ Len(loaded) + Len(read) < MaxRecords
    /\ \E q \in Records :
          /\ q.kind = "request"
          /\ byId' = ObservedId(byId, {q.id}, TargetOf(q))
          /\ byCapture' = ObservedCapture(byCapture, q.links, TargetOf(q))
          /\ read' = Append(read, [record |-> q, proven |-> FALSE])
    /\ UNCHANGED <<phase, index, working, loaded>>

ReadCapture ==
    /\ phase = "loading"
    /\ Len(loaded) + Len(read) < MaxRecords
    /\ \E r \in Captures :
          /\ working' = Indexed(working, r, Proven(r))
          /\ read' = Append(read, [record |-> r, proven |-> Proven(r)])
    /\ UNCHANGED <<phase, index, byId, byCapture, loaded>>

Commit ==
    /\ phase = "loading"
    /\ phase' = "idle"
    /\ index' = working
    /\ loaded' = loaded \o read
    /\ read' = <<>>
    /\ UNCHANGED <<working, byId, byCapture>>

\* A record cannot be read, the index fails, or the process ends: the transaction
\* is dropped, and SQLite rolls it back.
Abandon ==
    /\ phase = "loading"
    /\ phase' = "idle"
    /\ working' = index
    /\ read' = <<>>
    /\ UNCHANGED <<index, byId, byCapture, loaded>>

\* Store::index_record on its own, of a capture that the caller knows a GET made:
\* each statement commits, so one that stops in between keeps the payload alone.
IndexRecord ==
    /\ phase = "idle"
    /\ Len(loaded) < MaxRecords
    /\ \E r \in Captures, finished \in BOOLEAN :
          /\ r.get
          /\ index' = Indexed(index, r, finished)
          /\ loaded' = Append(loaded, [record |-> r, proven |-> finished])
    /\ UNCHANGED <<phase, working, byId, byCapture, read>>

Next == Begin \/ ReadRequest \/ ReadCapture \/ Commit \/ Abandon \/ IndexRecord

Spec == Init /\ [][Next]_vars

-----------------------------------------------------------------------------
(* Properties.                                                             *)

\* The requests linked to a capture that came before it in the archive.
RequestsBefore(r) == {i \in 1 .. Len(read) : Linked(read[i].record, r)}

\* A capture counts as a GET's exactly if requests were linked to it in either
\* direction, each was a complete GET for its target, and no identity it names
\* was borne by two requests: by the maps of this load alone, in whatever order
\* requests came, repeated or contradicted one another.
PairingExact ==
    phase = "loading" => \A r \in Captures :
        Proven(r) <=>
            /\ RequestsBefore(r) # {}
            /\ \A i \in RequestsBefore(r) :
                  read[i].record.get /\ read[i].record.uri = r.uri
            /\ \A i, j \in RequestsBefore(r) :
                  read[i].record.id = read[j].record.id /\ i # j =>
                      read[i].record.id \notin r.links

\* Rows of the index never mix captures: a row's validator is one the server
\* gives the row's payload, for every request the row's variance admits, whatever
\* archives were loaded and in whatever order.
SoundRows(i) ==
    \A u \in Uris :
        LET state == i.resources[u] IN
        state # None /\ state.tag # None /\ state.digest # None =>
            \A v \in Variants : Matches(state.variance, v) =>
                Content[u][state.tag][v] = state.digest

RowsUnmixed == SoundRows(index)

\* The complete responses with a payload, among these reads.
CopiesOf(reads, p) ==
    {i \in 1 .. Len(reads) : /\ reads[i].record.kind = "response"
                             /\ reads[i].record.whole
                             /\ reads[i].record.digest = p}

\* The canonical record of a payload is the first complete response with it.
CanonicalIn(i, reads) ==
    \A p \in Payloads :
        LET copies == CopiesOf(reads, p) IN
        IF copies = {} THEN i.payloads[p] = None
        ELSE \E k \in copies : /\ \A j \in copies : k <= j
                               /\ i.payloads[p] = reads[k].record.id

\* It is so for the loads that committed, and there is no other: not of a load
\* rolled back, and not replaced by a later one.
PayloadsCanonical == CanonicalIn(index, loaded)

\* Captures that say what their URI's representation is.
Establishing(read_) ==
    LET r == read_.record IN
    /\ read_.proven /\ r.whole
    /\ \/ r.kind = "response" /\ r.ok
       \/ r.kind = "revisit" /\ (r.head => r.ok)
       \/ r.kind = "notModified" /\ r.refers # None /\ r.dated

CapturesOf(reads, u) ==
    {i \in 1 .. Len(reads) : reads[i].record.kind # "request" /\ reads[i].record.uri = u}

\* A row is of the newest of these captures of its URI, and its payload is what
\* was served then.
NewestIn(i, reads) ==
    \A u \in Uris :
        LET row == i.resources[u] IN
        /\ \A k \in CapturesOf(reads, u) : Establishing(reads[k]) =>
              row # None /\ row.observed >= reads[k].record.date
        /\ row # None /\ row.digest # None =>
              \E k \in CapturesOf(reads, u) :
                  /\ reads[k].proven
                  /\ reads[k].record.date = row.observed
                  /\ reads[k].record.served = row.digest

\* It is so for the loads that committed, whatever their order.
RowsNewest == NewestIn(index, loaded)

\* Whatever loads fail and in whatever order the others are made, a payload's
\* record is the first and a URI's row the newest.  (ingest.rs, load_records)
OrderRespected == PayloadsCanonical /\ RowsNewest

-----------------------------------------------------------------------------
(* The inductive invariant.                                                *)

\* A confirmation names the payload or the record that it confirms.
Named(r) == r.kind = "notModified" => r.digest # None \/ r.refers # None

\* The records an index points to hold the payloads it says they do.
Pointed(i) ==
    /\ \A p \in Payloads : i.payloads[p] # None => PayloadOf(i.payloads[p]) = p
    /\ \A u \in Uris :
          LET state == i.resources[u] IN
          state # None /\ state.digest # None /\ state.id # None =>
              PayloadOf(state.id) = state.digest

IndexSound(i) == SoundRows(i) /\ Pointed(i)

\* The requests read with an identity, and those linked to a capture.
Bearing(reads, id) ==
    {i \in 1 .. Len(reads) : reads[i].record.kind = "request" /\ reads[i].record.id = id}
Naming(reads, id) ==
    {i \in 1 .. Len(reads) : reads[i].record.kind = "request" /\ id \in reads[i].record.links}

\* What the maps hold of the requests of this load.
MapsExact(entries, captures, reads) ==
    \A id \in RecordIds :
        /\ entries[id] = Absent <=> Bearing(reads, id) = {}
        /\ \A u \in Uris : entries[id] = u <=>
              \E i \in Bearing(reads, id) : /\ Bearing(reads, id) = {i}
                                            /\ TargetOf(reads[i].record) = u
        /\ captures[id] = Absent <=> Naming(reads, id) = {}
        /\ \A u \in Uris : captures[id] = u <=>
              /\ Naming(reads, id) # {}
              /\ \A i \in Naming(reads, id) : TargetOf(reads[i].record) = u

IInv ==
    /\ TypeOK
    /\ IndexSound(index)
    /\ IndexSound(working)
    /\ phase = "loading" => MapsExact(byId, byCapture, read)

\* What the transaction sees is right for what it would commit.
OrderInv ==
    /\ CanonicalIn(index, loaded)
    /\ NewestIn(index, loaded)
    /\ phase = "loading" => /\ CanonicalIn(working, loaded \o read)
                            /\ NewestIn(working, loaded \o read)

=============================================================================
