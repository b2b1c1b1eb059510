----------------------------- MODULE Collection -----------------------------
(***************************************************************************)
(* The revisit state of one collection (client/collection.rs) and of the   *)
(* captures made for it (client/outcome.rs): conditional requests against  *)
(* earlier captures, and the records, full or revisit, the exchanges are   *)
(* written as.  The server, and an ingestion that adds other archives to   *)
(* the durable index meanwhile, are the environment.                       *)
(***************************************************************************)
EXTENDS RevisitIndex, Sequences, FiniteSets

CONSTANTS
    Content,        \* Content[u][t][v]: the payload of u's version t for variant v
    Varying,        \* the URIs whose responses declare Vary
    Short,          \* payloads below min_revisit_payload_length
    Empty,          \* the empty payload
    Methods,        \* bound: the methods of requests
    OtherPayloads,  \* bound: what redirects, challenges, errors and cut answers carry
    MaxLibrary,     \* bound: records in other archives
    MaxEvents       \* bound: those, and exchanges of the collection, together

\* The server tells variants apart only where it says so.
ASSUME ContentAssumption ==
    /\ Content \in [Uris -> [Tags -> [Variants -> Payloads]]]
    /\ Varying \subseteq Uris
    /\ \A u \in Uris \ Varying, t \in Tags, v, w \in Variants :
          Content[u][t][v] = Content[u][t][w]
    /\ Short \subseteq Payloads
    /\ Empty \in Payloads
    /\ Methods \subseteq {"GET", "HEAD", "POST"}
    /\ OtherPayloads \subseteq Payloads
    /\ MaxLibrary \in Nat /\ MaxEvents \in Nat

VARIABLES
    phase,          \* "idle", "sent", "recording" or "done"
    request,        \* the request being made, or None
    original,       \* the earlier capture it asks the server to confirm, or None
    pending,        \* exchanges captured and not yet recorded
    session,        \* session_index
    persistent,     \* persistent_index
    archive,        \* the response and revisit records written
    library,        \* the payloads of the full records in other archives
    mixed           \* auxiliary: the URIs whose row a late confirmation updated

vars == <<phase, request, original, pending, session, persistent, archive, library,
          mixed>>

Revalidatable(method) == method \in {"GET", "HEAD"}

Requests == [method : Methods, uri : Uris, variant : Variants]
Targets == [digest : Payloads, id : Ids]
Originals == [target : Targets, tag : Tags]
Statuses == {"ok", "notModified", "other"}

\* An exchange: whole is false of a payload that is truncated or undecodable.
\* The rest is auxiliary: served is the payload of the representation the answer
\* stands for, late a confirmation of a row that an earlier exchange of the same
\* capture replaces, doubtful one of a row that a late one has updated.
Exchanges == [request : Requests, status : Statuses, payload : Payloads,
              whole : BOOLEAN, tag : Tags \cup {None}, vary : BOOLEAN,
              date : Dates, revalidated : Targets \cup {None}, served : Payloads,
              late : BOOLEAN, doubtful : BOOLEAN]

\* A record: refers is None of a full response.
Records == [digest : Payloads, whole : BOOLEAN, refers : Ids \cup {None},
            served : Payloads, doubtful : BOOLEAN]

ASSUME NoTargetAssumption == None \notin Targets \cup Originals \cup Requests

TypeOK ==
    /\ phase \in {"idle", "sent", "recording", "done"}
    /\ request \in Requests \cup {None}
    /\ original \in Originals \cup {None}
    /\ pending \in Seq(Exchanges)
    /\ session \in Indexes
    /\ persistent \in Indexes
    /\ archive \in Seq(Records)
    /\ library \in Seq(Payloads)
    /\ mixed \subseteq Uris

Init ==
    /\ phase = "idle"
    /\ request = None
    /\ original = None
    /\ pending = <<>>
    /\ session = EmptyIndex
    /\ persistent = EmptyIndex
    /\ archive = <<>>
    /\ library = <<>>
    /\ mixed = {}

-----------------------------------------------------------------------------
(* CaptureObserver::prepare.                                               *)

\* A payload of this collection comes before one of earlier durable state.
Canonical(overlay, digest) ==
    IF LookupPayload(overlay, digest) # None
    THEN LookupPayload(overlay, digest)
    ELSE LookupPayload(persistent, digest)

\* Faulty: the request's variant is not looked at.
FromStateAnyVariant(state, id, variant) ==
    IF state.digest = None \/ state.tag = None \/ id = None THEN None
    ELSE [target |-> [digest |-> state.digest, id |-> id], tag |-> state.tag]

\* Original::from_state.
FromState(state, id, variant) ==
    IF \/ ~Matches(state.variance, variant)
       \/ state.digest = None
       \/ id = None
       \/ state.tag = None
    THEN None
    ELSE [target |-> [digest |-> state.digest, id |-> id], tag |-> state.tag]

\* original_from_state.
OriginalFromState(overlay, state, variant) ==
    LET canonical == IF state.digest = None THEN None
                     ELSE Canonical(overlay, state.digest)
    IN  FromState(state, IF canonical = None THEN state.id ELSE canonical, variant)

\* The session index, with the durable state of a URI it knows nothing of.
Overlaid(uri) ==
    LET durable == LookupResource(persistent, uri) IN
    IF LookupResource(session, uri) = None /\ durable # None
    THEN UpdateRepresentation(session, uri, durable)
    ELSE session

\* The first request of a capture, or one that follows what was captured so far:
\* a redirect or a challenge, or the start of a retry, also after a complete answer
\* that the time of the attempt ran out on.  Nothing of a capture is recorded
\* before its end, so a retry asks for the row its first attempt did.
Prepare ==
    /\ phase = "idle"
    /\ Len(archive) + Len(pending) + Len(library) < MaxEvents
    /\ \E r \in Requests :
          /\ request' = r
          /\ IF Revalidatable(r.method)
             THEN /\ session' = Overlaid(r.uri)
                  /\ LET state == LookupResource(session', r.uri) IN
                     original' = IF state = None THEN None
                                 ELSE OriginalFromState(session', state, r.variant)
             ELSE UNCHANGED session /\ original' = None
    /\ phase' = "sent"
    /\ UNCHANGED <<pending, persistent, archive, library, mixed>>

-----------------------------------------------------------------------------
(* The server's answer, and CaptureObserver::captured.                     *)

\* An answer, version being the version of the resource that is current.
Answers == [status : Statuses, payload : Payloads, whole : BOOLEAN,
            tag : Tags \cup {None}, vary : BOOLEAN, version : Tags]

Current(version) == Content[request.uri][version][request.variant]

\* The server confirms the version a validator names, without a body, whatever
\* variant is requested; it may ignore the condition, and leave the validator
\* out of any answer.
MayAnswer(a) ==
    /\ a.tag \in {a.version, None}
    /\ \/ /\ a.status = "ok"
          /\ a.vary = (request.uri \in Varying)
          /\ IF request.method = "HEAD" THEN a.payload = Empty
             ELSE a.payload \in IF a.whole THEN {Current(a.version)} ELSE OtherPayloads
       \/ /\ a.status = "notModified"
          /\ original # None /\ original.tag = a.version
          /\ a.vary => request.uri \in Varying
          /\ a.payload = Empty /\ a.whole
       \/ /\ a.status = "other"
          /\ a.payload \in OtherPayloads
          /\ ~a.vary /\ a.tag = None

\* Faulty: a truncated payload is a revisit key.
RevisitKeyOfAny(x) ==
    IF x.revalidated # None THEN x.revalidated.digest
    ELSE IF x.payload # Empty THEN x.payload ELSE None

\* Exchange::revisit_key.
RevisitKey(x) ==
    IF x.revalidated # None THEN x.revalidated.digest
    ELSE IF x.payload # Empty /\ x.whole THEN x.payload ELSE None

\* Whether recording the exchange replaces the row of its URI.
Replaces(x) ==
    Revalidatable(x.request.method) /\ x.status = "ok" /\ RevisitKey(x) # None

\* An exchange captured before this one replaces the row its request asks for.
Overtaken ==
    \E i \in 1 .. Len(pending) :
        pending[i].request.uri = request.uri /\ Replaces(pending[i])

Captured(a, date) ==
    LET confirms == original # None /\ a.status = "notModified" IN
    [request |-> request, status |-> a.status, payload |-> a.payload,
     whole |-> a.whole, tag |-> a.tag, vary |-> a.vary, date |-> date,
     revalidated |-> IF confirms THEN original.target ELSE None,
     served |-> IF a.status = "notModified" THEN Current(a.version) ELSE a.payload,
     late |-> confirms /\ Overtaken,
     doubtful |-> confirms /\ request.uri \in mixed]

Respond ==
    /\ phase = "sent"
    /\ \E a \in Answers, date \in Dates :
          MayAnswer(a) /\ pending' = Append(pending, Captured(a, date))
    /\ phase' = "idle"
    /\ request' = None
    /\ original' = None
    /\ UNCHANGED <<session, persistent, archive, library, mixed>>

\* The connection or its time ends before an answer does.
Lose ==
    /\ phase = "sent"
    /\ phase' = "idle"
    /\ request' = None
    /\ original' = None
    /\ UNCHANGED <<pending, session, persistent, archive, library, mixed>>

-----------------------------------------------------------------------------
(* record_exchanges, one exchange at a time.                               *)

\* Faulty: what this collection has written is not looked at.
LookedUpDurable(x) ==
    LET key == RevisitKey(x) IN
    IF x.revalidated # None \/ x.payload \in Short \/ key = None THEN None
    ELSE LookupPayload(persistent, key)

\* The earlier capture whose payload this exchange repeats.
LookedUp(x) ==
    LET key == RevisitKey(x) IN
    IF x.revalidated # None \/ x.payload \in Short \/ key = None THEN None
    ELSE Canonical(session, key)

NextId == <<"archive", Len(archive) + 1>>

\* The record write_exchange writes.
Written(x) ==
    [digest |-> IF x.revalidated # None THEN x.revalidated.digest ELSE x.payload,
     whole |-> x.whole,
     refers |-> IF x.revalidated # None THEN x.revalidated.id ELSE LookedUp(x),
     served |-> x.served,
     doubtful |-> x.doubtful]

\* The row of the representation an exchange captured.
Representation(x) ==
    [tag |-> x.tag, digest |-> RevisitKey(x),
     id |-> IF LookedUp(x) # None THEN LookedUp(x) ELSE NextId,
     observed |-> x.date, variance |-> Declared(x.vary, x.request.variant)]

\* The index once the exchange is written.
Indexed(x) ==
    LET key == RevisitKey(x)
        inserted == IF key # None /\ Written(x).refers = None
                    THEN InsertPayload(session, key, NextId) ELSE session
    IN
    IF Revalidatable(x.request.method) /\ x.revalidated # None
    THEN UpdateNotModified(inserted, x.request.uri, x.tag,
             IF x.vary THEN Declared(x.vary, x.request.variant) ELSE None, x.date)
    ELSE IF Replaces(x)
    THEN UpdateRepresentation(inserted, x.request.uri, Representation(x))
    ELSE inserted

\* A late confirmation may leave a row mixed, and a newer representation of the URI
\* replaces it.
Mixed(x) ==
    LET uri == x.request.uri IN
    IF x.late THEN mixed \cup {uri}
    ELSE IF Replaces(x) /\ Indexed(x).resources[uri] = Representation(x)
    THEN mixed \ {uri}
    ELSE mixed

Record ==
    /\ phase \in {"idle", "recording"}
    /\ pending # <<>>
    /\ archive' = Append(archive, Written(Head(pending)))
    /\ session' = Indexed(Head(pending))
    /\ mixed' = Mixed(Head(pending))
    /\ pending' = Tail(pending)
    /\ phase' = IF pending' = <<>> THEN "idle" ELSE "recording"
    /\ UNCHANGED <<request, original, persistent, library>>

\* A record cannot be written, or its state not indexed: the collection takes
\* no further exchange and is published as it stands.
RecordFails ==
    /\ phase \in {"idle", "recording"}
    /\ pending # <<>>
    /\ archive' \in {archive, Append(archive, Written(Head(pending)))}
    /\ pending' = Tail(pending)
    /\ phase' = "done"
    /\ UNCHANGED <<request, original, session, persistent, library, mixed>>

Finish ==
    /\ phase = "idle"
    /\ pending = <<>>
    /\ phase' = "done"
    /\ UNCHANGED <<request, original, pending, session, persistent, archive, library,
                   mixed>>

-----------------------------------------------------------------------------

\* Another process ingests a response record of another archive.
Ingest ==
    /\ phase # "done"
    /\ Len(library) < MaxLibrary
    /\ Len(archive) + Len(pending) + Len(library)
       + (IF phase = "sent" THEN 1 ELSE 0) < MaxEvents
    /\ \E u \in Uris, t \in Tags, v \in Variants, date \in Dates,
          tagged, digested, get \in BOOLEAN :
          LET payload == Content[u][t][v]
              id == <<"library", Len(library) + 1>>
          IN
          /\ library' = Append(library, payload)
          /\ persistent' = IndexResponse(persistent, u,
                               IF digested THEN payload ELSE None, id, date, get,
                               IF tagged THEN t ELSE None, u \in Varying)
    /\ UNCHANGED <<phase, request, original, pending, session, archive, mixed>>

Terminated == phase = "done" /\ UNCHANGED vars

Next == Prepare \/ Respond \/ Lose \/ Record \/ RecordFails \/ Finish
            \/ Ingest \/ Terminated

Spec == Init /\ [][Next]_vars

-----------------------------------------------------------------------------
(* Properties.                                                             *)

\* The full record that an identifier names holds this payload, and is in
\* another archive or among the first n records of this one.
Holds(lib, arch, id, payload, n) ==
    \/ id[1] = "library" /\ id[2] \in 1 .. Len(lib) /\ lib[id[2]] = payload
    \/ /\ id[1] = "archive" /\ id[2] \in 1 .. n
       /\ arch[id[2]].refers = None
       /\ arch[id[2]].whole
       /\ arch[id[2]].digest = payload

\* Reading a revisit record through the record it refers to gives the payload
\* that the server's answer stood for: what it refers to is a complete response
\* written before it, of the digest it states, whichever variant was requested and
\* whatever was captured or ingested since the request was prepared.  That digest
\* is of the payload served, unless the row the request was prepared from had been
\* updated by a late confirmation.  (collection.rs, prepare and record_exchanges)
RevisitsFaithful ==
    \A i \in 1 .. Len(archive) : archive[i].refers # None =>
        /\ Holds(library, archive, archive[i].refers, archive[i].digest, i - 1)
        /\ archive[i].doubtful \/ archive[i].digest = archive[i].served

\* The validator of a row is one the server gives the row's payload, for every
\* request the row's variance admits.
RowSound(index, uri) ==
    LET state == index.resources[uri] IN
    state # None /\ state.tag # None /\ state.digest # None =>
        \A v \in Variants : Matches(state.variance, v) =>
            Content[uri][state.tag][v] = state.digest

Sound(index) == \A u \in Uris : RowSound(index, u)

\* Rows of the index never mix captures, except where a confirmation comes late:
\* then, and until the next complete answer, the row of that URI alone may.
\* (collection.rs, record_exchanges)
RowsSound ==
    /\ \A u \in Uris \ mixed : RowSound(session, u)
    /\ Sound(persistent)

\* What the index says of a row: "The validators above describe this representation
\* alone" (resource.rs, variance).  A complete answer that the time of an attempt
\* ran out on and the retry's confirmation of the row before it are recorded
\* together, and the confirmation's validator goes to the new representation.
ValidatorsTheirOwn == Sound(session)

\* Complete copies of a payload in this archive.
FullCopies(payload) ==
    {i \in 1 .. Len(archive) : /\ archive[i].refers = None
                               /\ archive[i].whole
                               /\ archive[i].digest = payload}

\* A payload long enough to be referred to is stored in full at most once,
\* however often it is served, under any URI.
StoredOnce ==
    phase # "done" =>
        \A p \in Payloads \ (Short \cup {Empty}) : Cardinality(FullCopies(p)) <= 1

\* A revisit that refers to a record of its own archive refers to the first
\* complete copy of its payload there, also when later copies were too short
\* to be revisits themselves.
FirstCopyNamed ==
    \A i \in 1 .. Len(archive) :
        LET id == archive[i].refers IN
        id # None /\ id[1] = "archive" =>
            \A j \in FullCopies(archive[i].digest) : id[2] <= j

\* One copy of a payload stands for all of those in an archive.  (collection.rs,
\* record_exchanges and lookup_payload)
PayloadsStoredOnce == StoredOnce /\ FirstCopyNamed

-----------------------------------------------------------------------------
(* The inductive invariant.                                                *)

Kept(lib, arch, id, payload) == Holds(lib, arch, id, payload, Len(arch))

\* What an index points to is there to be referred to.
IndexKept(index, lib, arch) ==
    /\ \A p \in Payloads :
          index.payloads[p] # None => Kept(lib, arch, index.payloads[p], p)
    /\ \A u \in Uris :
          LET state == index.resources[u] IN
          state # None /\ state.digest # None /\ state.id # None =>
              Kept(lib, arch, state.id, state.digest)

\* The row an original was taken from is still the one of its URI.
RowStands(index, r, target) ==
    LET state == index.resources[r.uri] IN
    /\ state # None
    /\ state.digest = target.digest
    /\ state.tag # None

\* Its validator is the one of the payload, for the request's variant.
RowConfirms(index, r, target) ==
    Content[r.uri][index.resources[r.uri].tag][r.variant] = target.digest

OriginalSound ==
    original # None =>
        /\ phase = "sent"
        /\ Kept(library, archive, original.target.id, original.target.digest)
        /\ RowStands(session, request, original.target)
        /\ original.tag = session.resources[request.uri].tag
        /\ request.uri \notin mixed => RowConfirms(session, request, original.target)

\* What a pending exchange says of the representation it stands for.
ExchangeSound(index, lib, arch, mix, x) ==
    /\ x.revalidated = None => x.served = x.payload /\ ~x.late /\ ~x.doubtful
    /\ x.revalidated # None =>
          /\ x.status = "notModified"
          /\ ~x.doubtful => x.served = x.revalidated.digest
          /\ Kept(lib, arch, x.revalidated.id, x.revalidated.digest)
          /\ ~x.late =>
                /\ RowStands(index, x.request, x.revalidated)
                /\ x.tag \in {None, index.resources[x.request.uri].tag}
                /\ x.request.uri \notin mix => RowConfirms(index, x.request, x.revalidated)
    /\ x.status = "ok" /\ x.tag # None /\ RevisitKey(x) # None =>
          \A v \in Variants : Matches(Declared(x.vary, x.request.variant), v) =>
              Content[x.request.uri][x.tag][v] = x.payload

\* A confirmation that is not late follows no exchange that replaces its row, nor
\* a late one of it.
InTime(x, y) ==
    x.request.uri = y.request.uri /\ y.revalidated # None /\ ~y.late =>
        ~Replaces(x) /\ ~x.late

PendingSound ==
    /\ \A i \in 1 .. Len(pending) :
          ExchangeSound(session, library, archive, mixed, pending[i])
    /\ \A i, j \in 1 .. Len(pending) : i < j => InTime(pending[i], pending[j])
    /\ phase \in {"idle", "sent"} =>
          \A j \in 1 .. Len(pending) : pending[j].late =>
              \E i \in 1 .. j - 1 :
                  /\ pending[i].request.uri = pending[j].request.uri
                  /\ Replaces(pending[i])

IInv ==
    /\ TypeOK
    /\ phase = "sent" => request # None
    /\ IndexKept(session, library, archive)
    /\ IndexKept(persistent, library, archive)
    /\ RowsSound
    /\ OriginalSound
    /\ PendingSound
    /\ RevisitsFaithful

\* An identifier kept for a payload, if of this archive, is the index's for it.
Canonically(index, id, digest) ==
    id[1] = "archive" => id = index.payloads[digest]

\* The collection's index has an entry for every payload copied here.
CopiesIndexed ==
    phase # "done" =>
        \A p \in Payloads \ {Empty} : FullCopies(p) # {} => session.payloads[p] # None

\* An entry of this archive is its payload's first copy.
FirstIndexed ==
    \A p \in Payloads :
        LET id == session.payloads[p] IN
        id # None /\ id[1] = "archive" => \A j \in FullCopies(p) : id[2] <= j

\* A row may name a later copy, never one of a payload that has no entry.
RowsIndexed ==
    \A u \in Uris :
        LET state == session.resources[u] IN
        state # None /\ state.digest # None /\ state.id # None
           /\ state.id[1] = "archive" => session.payloads[state.digest] # None

\* The durable index knows of other archives only.
PersistentElsewhere ==
    /\ \A p \in Payloads :
          persistent.payloads[p] # None => persistent.payloads[p][1] = "library"
    /\ \A u \in Uris :
          LET state == persistent.resources[u] IN
          state # None /\ state.id # None => state.id[1] = "library"

TargetsCanonical ==
    /\ original # None =>
          Canonically(session, original.target.id, original.target.digest)
    /\ \A i \in 1 .. Len(pending) :
          LET target == pending[i].revalidated IN
          target # None => Canonically(session, target.id, target.digest)

CopiesInv ==
    /\ CopiesIndexed
    /\ FirstIndexed
    /\ RowsIndexed
    /\ PersistentElsewhere
    /\ TargetsCanonical
    /\ StoredOnce
    /\ FirstCopyNamed

=============================================================================
