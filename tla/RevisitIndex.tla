---------------------------- MODULE RevisitIndex ----------------------------
(***************************************************************************)
(* The revisit index (archivindex-warc-revisit-index, db/mod.rs) as        *)
(* operators on its two tables.  A payload stands for its digest; a record *)
(* identifier and its date go together.                                    *)
(***************************************************************************)
EXTENDS Integers

CONSTANTS
    Uris,
    Payloads,
    Tags,           \* validators, such as entity tags
    Variants,       \* values of the request fields a response may vary on
    Dates,          \* dates of observation
    None,           \* SQL's NULL, and no row
    Invariant,      \* variance of a response that declared no Vary
    Unselectable    \* variance of a Vary that no known request satisfies

\* A record's identifier: the archive it is in, this one or an earlier one, and
\* its place among the records there.
Ids == {"library", "archive"} \X Nat

Variances == Variants \cup {Invariant, Unselectable}

ASSUME IndexAssumption ==
    /\ Dates \subseteq Int
    /\ None \notin Payloads \cup Tags \cup Variances
    /\ {Invariant, Unselectable} \cap Variants = {}
    /\ Invariant # Unselectable

\* A row of resource_state.
States == [tag : Tags \cup {None}, digest : Payloads \cup {None},
           id : Ids \cup {None}, observed : Dates, variance : Variances]

ASSUME NoneAssumption == None \notin States /\ None \notin Ids

Indexes == [payloads : [Payloads -> Ids \cup {None}],
            resources : [Uris -> States \cup {None}]]

EmptyIndex == [payloads |-> [p \in Payloads |-> None],
               resources |-> [u \in Uris |-> None]]

-----------------------------------------------------------------------------
(* Variance (the http client's conditional module).                        *)

\* Variance::declared: the values this request gave the fields Vary names.
Declared(vary, variant) == IF vary THEN variant ELSE Invariant

\* Variance::declared_without_request.
DeclaredWithoutRequest(vary) == IF vary THEN Unselectable ELSE Invariant

\* Variance::matches: whether a request selects the stored representation.
Matches(variance, variant) == variance \in {Invariant, variant}

-----------------------------------------------------------------------------
(* Queries.                                                                *)

LookupPayload(index, digest) == index.payloads[digest]

\* INSERT_PAYLOAD: the first record of a payload stays its canonical one.
InsertPayload(index, digest, id) ==
    IF index.payloads[digest] = None
    THEN [index EXCEPT !.payloads[digest] = id] ELSE index

LookupResource(index, uri) == index.resources[uri]

\* Faulty: the last observation loaded is taken for the newest.
UpdateRepresentationAlways(index, uri, state) ==
    [index EXCEPT !.resources[uri] = state]

\* UPSERT_RESOURCE: an observation older than the stored one is ignored.
UpdateRepresentation(index, uri, state) ==
    LET stored == index.resources[uri] IN
    IF stored = None \/ state.observed >= stored.observed
    THEN [index EXCEPT !.resources[uri] = state] ELSE index

\* ResourceStateUpdate::NotModified: a stored row, unless it is newer, takes the
\* validator and variance of the confirmation where it has them.
UpdateNotModified(index, uri, tag, variance, observed) ==
    LET stored == index.resources[uri] IN
    IF stored # None /\ observed >= stored.observed
    THEN [index EXCEPT !.resources[uri] =
             [stored EXCEPT !.tag = IF tag = None THEN @ ELSE tag,
                            !.observed = observed,
                            !.variance = IF variance = None THEN @ ELSE variance]]
    ELSE index

-----------------------------------------------------------------------------
(* Ingestion of a complete response record (ingest.rs): its payload, and    *)
(* its representation when it is a 200 answer to a GET.                     *)

IndexResponse(index, uri, digest, id, date, get, tag, vary) ==
    LET inserted == IF digest = None THEN index
                    ELSE InsertPayload(index, digest, id)
    IN  IF get
        THEN UpdateRepresentation(inserted, uri,
                 [tag |-> tag, digest |-> digest, id |-> id, observed |-> date,
                  variance |-> DeclaredWithoutRequest(vary)])
        ELSE inserted

\* index_revisit of a GET's identical payload: refers is the record it names, or
\* None, and head is whether its block repeats the response's head.
IndexRevisit(index, uri, digest, refers, date, head, tag, vary) ==
    LET canonical == LookupPayload(index, digest)
        named == IF canonical # None THEN canonical ELSE refers
        stored == LookupResource(index, uri)
        same == stored # None /\ stored.digest = digest
        kept == same /\ ~head
    IN  UpdateRepresentation(index, uri,
            [tag |-> IF kept THEN stored.tag ELSE tag,
             digest |-> digest,
             id |-> IF named = None /\ same THEN stored.id ELSE named,
             observed |-> date,
             variance |-> IF kept THEN stored.variance
                          ELSE DeclaredWithoutRequest(vary)])

\* Whether a confirmation is one of the stored row: all it names agrees.
Confirms(stored, digest, refers) ==
    /\ stored # None
    /\ digest \in {None, stored.digest}
    /\ refers \in {None, stored.id}

\* Faulty: the confirmation of any record is one of the stored row.
IndexConfirmationOfAny(index, uri, digest, refers, dated, date, tag, vary) ==
    UpdateNotModified(index, uri, tag, IF vary THEN Unselectable ELSE None, date)

\* index_confirmation: dated is whether the revisit also gives the date of the
\* record it names.
IndexConfirmation(index, uri, digest, refers, dated, date, tag, vary) ==
    IF Confirms(LookupResource(index, uri), digest, refers)
    THEN UpdateNotModified(index, uri, tag,
             IF vary THEN DeclaredWithoutRequest(vary) ELSE None, date)
    ELSE IF refers # None /\ dated
    THEN UpdateRepresentation(index, uri,
             [tag |-> tag, digest |-> digest, id |-> refers, observed |-> date,
              variance |-> DeclaredWithoutRequest(vary)])
    ELSE index

=============================================================================
