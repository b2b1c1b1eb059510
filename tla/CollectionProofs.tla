-------------------------- MODULE CollectionProofs --------------------------
(***************************************************************************)
(* Proofs about Collection, for any URIs, payloads, validators, variants   *)
(* and dates, and any behaviour of the server within ContentAssumption.    *)
(*                                                                         *)
(* The inductive invariant IInv says of every place a record identifier or *)
(* a validator is kept (the rows and payloads of the two indexes, the      *)
(* request in flight, the exchanges not yet recorded) what makes it safe   *)
(* to write a revisit from it.  The delicate part is the row a conditional *)
(* request was made from: it stands until the 304 that answers it is       *)
(* recorded, unless an exchange before it in the same capture replaces the *)
(* row; such a late 304 leaves the row mixed, until it is replaced again.  *)
(***************************************************************************)
EXTENDS Collection, RevisitIndexProofs, FiniteSetTheorems, TLAPS

USE IndexAssumption, NoneAssumption, ContentAssumption, NoTargetAssumption

\* What a record identifier names stays there: archives only grow.
LEMMA HoldsGrows ==
  ASSUME NEW lib \in Seq(Payloads), NEW arch \in Seq(Records), NEW lib1, NEW arch1,
         lib1 = lib \/ \E e \in Payloads : lib1 = Append(lib, e),
         arch1 = arch \/ \E r \in Records : arch1 = Append(arch, r),
         NEW id, NEW p, NEW n \in 0 .. Len(arch), Holds(lib, arch, id, p, n)
  PROVE  /\ Holds(lib1, arch1, id, p, n)
         /\ Holds(lib1, arch1, id, p, Len(arch1))
<1>a. /\ Len(lib) \in Nat /\ Len(lib1) \in Nat /\ Len(lib1) >= Len(lib)
      /\ \A k \in 1 .. Len(lib) : lib1[k] = lib[k]
  <2>1. CASE lib1 = lib
    BY <2>1
  <2>2. ASSUME NEW e \in Payloads, lib1 = Append(lib, e) PROVE  /\ Len(lib) \in Nat /\ Len(lib1) \in Nat /\ Len(lib1) >= Len(lib)
               /\ \A k \in 1 .. Len(lib) : lib1[k] = lib[k]
    BY <2>2
  <2>3. QED
    BY <2>1, <2>2
<1>b. /\ Len(arch) \in Nat /\ Len(arch1) \in Nat /\ Len(arch1) >= Len(arch)
      /\ \A k \in 1 .. Len(arch) : arch1[k] = arch[k]
  <2>1. CASE arch1 = arch
    BY <2>1
  <2>2. ASSUME NEW r \in Records, arch1 = Append(arch, r)
        PROVE  /\ Len(arch) \in Nat /\ Len(arch1) \in Nat /\ Len(arch1) >= Len(arch)
               /\ \A k \in 1 .. Len(arch) : arch1[k] = arch[k]
    BY <2>2
  <2>3. QED
    BY <2>1, <2>2
<1>2. CASE id[1] = "library" /\ id[2] \in 1 .. Len(lib) /\ lib[id[2]] = p
  BY <1>a, <1>b, <1>2 DEF Holds
<1>3. CASE /\ id[1] = "archive" /\ id[2] \in 1 .. n
           /\ arch[id[2]].refers = None /\ arch[id[2]].whole
           /\ arch[id[2]].digest = p
  BY <1>a, <1>b, <1>3 DEF Holds
<1>4. QED
  BY <1>2, <1>3 DEF Holds

(***************************************************************************)
(* What prepare finds, and what record writes.                             *)
(***************************************************************************)

\* An original is a row's, for a request its variance admits, and names a record
\* that an index holds for the row's payload.
LEMMA OriginalEffect ==
  ASSUME NEW overlay \in Indexes, persistent \in Indexes,
         NEW state \in States, NEW variant \in Variants,
         OriginalFromState(overlay, state, variant) # None
  PROVE  LET o == OriginalFromState(overlay, state, variant)
             d == state.digest
         IN
         /\ d \in Payloads
         /\ state.tag \in Tags
         /\ Matches(state.variance, variant)
         /\ o \in Originals
         /\ o.target.digest = d
         /\ o.tag = state.tag
         /\ \/ o.target.id = overlay.payloads[d] /\ overlay.payloads[d] # None
            \/ o.target.id = persistent.payloads[d] /\ persistent.payloads[d] # None
            \/ /\ o.target.id = state.id /\ state.id # None
               /\ overlay.payloads[d] = None
<1> DEFINE o == OriginalFromState(overlay, state, variant)
           d == state.digest
           canonical == IF d = None THEN None ELSE Canonical(overlay, d)
           id == IF canonical = None THEN state.id ELSE canonical
<1>1. o = FromState(state, id, variant)
  BY DEF OriginalFromState
<1>2. /\ Matches(state.variance, variant)
      /\ d # None /\ id # None /\ state.tag # None
      /\ o = [target |-> [digest |-> d, id |-> id], tag |-> state.tag]
  <2> HIDE DEF id, o
  <2> QED
    BY <1>1 DEF FromState, o
<1>3. d \in Payloads /\ state.tag \in Tags /\ state.id \in Ids \cup {None}
  BY <1>2 DEF States
<1>4. /\ overlay.payloads[d] \in Ids \cup {None}
      /\ persistent.payloads[d] \in Ids \cup {None}
  BY <1>3 DEF Indexes
<1>5. \/ id = overlay.payloads[d] /\ overlay.payloads[d] # None
      \/ id = persistent.payloads[d] /\ persistent.payloads[d] # None
      \/ id = state.id /\ state.id # None /\ overlay.payloads[d] = None
  BY <1>2, <1>3 DEF Canonical, LookupPayload
<1>6. id \in Ids
  BY <1>3, <1>4, <1>5
<1> HIDE DEF id
<1>7. o \in Originals /\ o.target.digest = d /\ o.tag = state.tag /\ o.target.id = id
  BY <1>2, <1>3, <1>6 DEF Originals, Targets
<1>8. QED
  BY <1>2, <1>3, <1>5, <1>7

\* The earlier capture an exchange repeats is one an index holds for its payload.
LEMMA LookedUpEffect ==
  ASSUME session \in Indexes, persistent \in Indexes, NEW x \in Exchanges
  PROVE  /\ LookedUp(x) \in Ids \cup {None}
         /\ LookedUp(x) # None =>
              /\ x.revalidated = None
              /\ RevisitKey(x) = x.payload
              /\ \/ LookedUp(x) = session.payloads[x.payload]
                 \/ LookedUp(x) = persistent.payloads[x.payload]
<1>1. x.payload \in Payloads
  BY DEF Exchanges
<1>2. /\ session.payloads[x.payload] \in Ids \cup {None}
      /\ persistent.payloads[x.payload] \in Ids \cup {None}
  BY <1>1 DEF Indexes
<1>3. CASE x.revalidated # None
  BY <1>3 DEF LookedUp
<1>4. CASE x.revalidated = None
  <2>1. RevisitKey(x) \in {None, x.payload}
    BY <1>4 DEF RevisitKey
  <2>2. LookedUp(x) # None =>
          /\ RevisitKey(x) = x.payload
          /\ LookedUp(x) = Canonical(session, x.payload)
    BY <1>4, <2>1 DEF LookedUp
  <2>3. QED
    BY <1>2, <1>4, <2>2 DEF Canonical, LookupPayload
<1>5. QED
  BY <1>3, <1>4

\* A key is the payload confirmed, or a complete payload of the exchange's own.
LEMMA KeyEffect ==
  ASSUME NEW x \in Exchanges
  PROVE  /\ RevisitKey(x) \in Payloads \cup {None}
         /\ x.revalidated # None => RevisitKey(x) = x.revalidated.digest
         /\ x.revalidated = None /\ RevisitKey(x) # None =>
               RevisitKey(x) = x.payload /\ x.payload # Empty /\ x.whole
<1>1. x.payload \in Payloads /\ x.whole \in BOOLEAN
      /\ (x.revalidated # None => x.revalidated.digest \in Payloads)
  BY DEF Exchanges, Targets
<1>2. QED
  BY <1>1 DEF RevisitKey

\* The record written for an exchange.
LEMMA WrittenEffect ==
  ASSUME session \in Indexes, persistent \in Indexes, NEW x \in Exchanges
  PROVE  /\ Written(x) \in Records
         /\ x.revalidated # None => /\ Written(x).refers = x.revalidated.id
                                   /\ Written(x).digest = x.revalidated.digest
         /\ x.revalidated = None => /\ Written(x).refers = LookedUp(x)
                                   /\ Written(x).digest = x.payload
         /\ Written(x).whole = x.whole
         /\ Written(x).served = x.served
         /\ Written(x).doubtful = x.doubtful
<1>1. /\ x.doubtful \in BOOLEAN
      /\ x.payload \in Payloads /\ x.whole \in BOOLEAN /\ x.served \in Payloads
      /\ x.revalidated # None =>
            x.revalidated.digest \in Payloads /\ x.revalidated.id \in Ids
  BY DEF Exchanges, Targets
<1>2. LookedUp(x) \in Ids \cup {None}
  BY LookedUpEffect
<1>3. QED
  BY <1>1, <1>2 DEF Written, Records

\* The index after an exchange is recorded: at most its payload is added, and at
\* most the row of its URI replaced, by a complete 200 answer, or confirmed.
LEMMA IndexedEffect ==
  ASSUME session \in Indexes, persistent \in Indexes, archive \in Seq(Records),
         NEW x \in Exchanges
  PROVE  LET new == Indexed(x)
             u == x.request.uri
             key == RevisitKey(x)
             row == session.resources[u]
             newRow == new.resources[u]
         IN
         /\ new \in Indexes
         /\ \A q \in Payloads :
               \/ new.payloads[q] = session.payloads[q]
               \/ /\ q = key /\ Written(x).refers = None
                  /\ session.payloads[q] = None
                  /\ new.payloads[q] = NextId
         /\ key # None /\ Written(x).refers = None => new.payloads[key] # None
         /\ \A w \in Uris \ {u} : new.resources[w] = session.resources[w]
         /\ \/ newRow = row
            \/ /\ Replaces(x) /\ x.status = "ok" /\ key # None
               /\ newRow = Representation(x)
               /\ newRow # None
               /\ newRow.digest = key
               /\ newRow.id = IF LookedUp(x) # None THEN LookedUp(x) ELSE NextId
               /\ newRow.tag = x.tag
               /\ newRow.variance = Declared(x.vary, x.request.variant)
            \/ /\ x.revalidated # None
               /\ row # None /\ newRow # None
               /\ newRow.digest = row.digest
               /\ newRow.id = row.id
               /\ newRow.tag = IF x.tag = None THEN row.tag ELSE x.tag
               /\ newRow.variance = IF x.vary THEN x.request.variant ELSE row.variance
<1> DEFINE u == x.request.uri
           key == RevisitKey(x)
           row == session.resources[u]
           new == Indexed(x)
           inserted == IF key # None /\ Written(x).refers = None
                       THEN InsertPayload(session, key, NextId) ELSE session
           variance == Declared(x.vary, x.request.variant)
           state == Representation(x)
<1>1. NextId \in Ids
  BY DEF NextId, Ids
<1>2. /\ u \in Uris /\ x.request.variant \in Variants
      /\ x.tag \in Tags \cup {None} /\ x.date \in Dates
      /\ x.vary \in BOOLEAN /\ x.whole \in BOOLEAN
      /\ key \in Payloads \cup {None}
      /\ LookedUp(x) \in Ids \cup {None}
  BY KeyEffect, LookedUpEffect DEF Exchanges, Requests
<1>3. variance \in Variances /\ (x.vary => variance = x.request.variant)
  BY <1>2 DEF Declared, Variances
<1>4. /\ inserted \in Indexes
      /\ inserted.resources = session.resources
      /\ \A q \in Payloads :
            \/ inserted.payloads[q] = session.payloads[q]
            \/ /\ q = key /\ Written(x).refers = None
               /\ session.payloads[q] = None
               /\ inserted.payloads[q] = NextId
      /\ key # None /\ Written(x).refers = None => inserted.payloads[key] # None
  <2>1. CASE key # None /\ Written(x).refers = None
    BY <1>1, <1>2, <2>1, InsertEffect
  <2>2. CASE ~(key # None /\ Written(x).refers = None)
    BY <2>2
  <2>3. QED
    BY <2>1, <2>2
<1>5. CASE ~(Revalidatable(x.request.method) /\ x.revalidated # None) /\ ~Replaces(x)
  <2>1. new = inserted
    BY <1>5 DEF Indexed
  <2> HIDE DEF inserted
  <2>2. QED
    BY <1>4, <2>1
<1>6. CASE Revalidatable(x.request.method) /\ x.revalidated # None
  <2> DEFINE v == IF x.vary THEN variance ELSE None
  <2>1. new = UpdateNotModified(inserted, u, x.tag, v, x.date)
    BY <1>6 DEF Indexed
  <2>2. v \in Variances \cup {None}
    BY <1>3
  <2>4. x.vary => v = x.request.variant
    BY <1>3
  <2>5. ~x.vary => v = None
    OBVIOUS
  <2>a. None \notin Variances
    OBVIOUS
  <2> HIDE DEF inserted, v
  <2>6. LET newRow == new.resources[u]
            oldRow == inserted.resources[u]
        IN
        /\ new \in Indexes
        /\ new.payloads = inserted.payloads
        /\ \A w \in Uris \ {u} : new.resources[w] = inserted.resources[w]
        /\ \/ newRow = oldRow
           \/ /\ oldRow # None /\ newRow # None
              /\ newRow.digest = oldRow.digest
              /\ newRow.id = oldRow.id
              /\ newRow.tag = IF x.tag = None THEN oldRow.tag ELSE x.tag
              /\ newRow.variance = IF v = None THEN oldRow.variance ELSE v
    <3> DEFINE tag == x.tag
               date == x.date
    <3>1. /\ inserted \in Indexes /\ u \in Uris /\ tag \in Tags \cup {None}
          /\ v \in Variances \cup {None} /\ date \in Dates
          /\ new = UpdateNotModified(inserted, u, tag, v, date)
      BY <1>2, <1>4, <2>1, <2>2
    <3> HIDE DEF u, tag, date, new
    <3>2. LET after == UpdateNotModified(inserted, u, tag, v, date)
              newRow == after.resources[u]
              oldRow == inserted.resources[u]
          IN
          /\ after \in Indexes
          /\ after.payloads = inserted.payloads
          /\ \A w \in Uris \ {u} : after.resources[w] = inserted.resources[w]
          /\ \/ newRow = oldRow
             \/ /\ oldRow # None /\ newRow # None
                /\ newRow.digest = oldRow.digest
                /\ newRow.id = oldRow.id
                /\ newRow.tag = IF tag = None THEN oldRow.tag ELSE tag
                /\ newRow.variance = IF v = None THEN oldRow.variance ELSE v
      BY <3>1, NotModifiedEffect, SMTT(60)
    <3>3. QED
      BY <3>1, <3>2 DEF tag
  <2>7. v = None <=> ~x.vary
    BY <1>3, <2>2, <2>4, <2>5, <2>a, <1>2 DEF Variances
  <2>8. QED
    BY <1>4, <1>6, <2>4, <2>6, <2>7
<1>7. CASE ~(Revalidatable(x.request.method) /\ x.revalidated # None) /\ Replaces(x)
  <2>1. new = UpdateRepresentation(inserted, u, state)
    BY <1>7 DEF Indexed
  <2>2. state \in States
    BY <1>1, <1>2, <1>3, <1>7 DEF States, Representation, Replaces
  <2>3. x.status = "ok" /\ key # None
    BY <1>7 DEF Replaces
  <2>4. state # None
    BY <2>2
  <2>5. /\ state.digest = key /\ state.tag = x.tag /\ state.variance = variance
        /\ state.id = IF LookedUp(x) # None THEN LookedUp(x) ELSE NextId
    BY DEF Representation
  <2>b. state = Representation(x)
    OBVIOUS
  <2> HIDE DEF inserted, state
  <2>6. /\ new \in Indexes
        /\ new.payloads = inserted.payloads
        /\ \A w \in Uris \ {u} : new.resources[w] = inserted.resources[w]
        /\ \/ new.resources[u] = state
           \/ new.resources[u] = inserted.resources[u]
    <3> HIDE DEF u, new
    <3>1. QED
      BY <1>2, <1>4, <2>1, <2>2, RepresentationEffect, SMTT(60)
  <2>7. QED
    BY <1>4, <1>7, <2>3, <2>4, <2>5, <2>6, <2>b
<1>8. QED
  BY <1>5, <1>6, <1>7

(***************************************************************************)
(* The initial state.                                                      *)
(***************************************************************************)

\* The empty index has no payload and no row.
LEMMA EmptyIndexEffect ==
  /\ EmptyIndex \in Indexes
  /\ \A p \in Payloads : EmptyIndex.payloads[p] = None
  /\ \A u \in Uris : EmptyIndex.resources[u] = None
BY DEF EmptyIndex, Indexes

\* The invariant holds before anything was requested.
LEMMA InitIInv == Init => IInv
<1> SUFFICES ASSUME Init PROVE IInv
  OBVIOUS
<1>1. TypeOK
  BY EmptyIndexEffect DEF Init, TypeOK
<1>2. IndexKept(EmptyIndex, library, archive) /\ Sound(EmptyIndex)
  BY EmptyIndexEffect DEF IndexKept, Sound, RowSound
<1>3. RowsSound
  BY <1>2 DEF Init, RowsSound, Sound
<1>4. OriginalSound /\ PendingSound /\ RevisitsFaithful
  BY DEF Init, OriginalSound, PendingSound, RevisitsFaithful
<1>5. QED
  BY <1>1, <1>2, <1>3, <1>4 DEF Init, IInv

(***************************************************************************)
(* What a step that only adds records leaves true.                         *)
(***************************************************************************)

\* The step adds at most one record here and one elsewhere.
Grown ==
    /\ library' = library \/ \E e \in Payloads : library' = Append(library, e)
    /\ archive' = archive \/ \E r \in Records : archive' = Append(archive, r)

\* What an identifier names before such a step it names after it.
LEMMA Grows ==
  ASSUME TypeOK, Grown
  PROVE  /\ \A id, p : \A n \in 0 .. Len(archive) :
               Holds(library, archive, id, p, n) =>
                   /\ Holds(library', archive', id, p, n)
                   /\ Kept(library', archive', id, p)
         /\ \A id, p : Kept(library, archive, id, p) => Kept(library', archive', id, p)
<1>3. library \in Seq(Payloads) /\ archive \in Seq(Records)
  BY DEF TypeOK
<1>4. ASSUME NEW id, NEW p, NEW n \in 0 .. Len(archive),
             Holds(library, archive, id, p, n)
      PROVE  Holds(library', archive', id, p, n) /\ Kept(library', archive', id, p)
  <2>1. /\ Holds(library', archive', id, p, n)
        /\ Holds(library', archive', id, p, Len(archive'))
    BY <1>3, <1>4, HoldsGrows DEF Grown
  <2>2. QED
    BY <2>1 DEF Kept
<1>5. Len(archive) \in 0 .. Len(archive)
  BY <1>3
<1>6. QED
  BY <1>4, <1>5 DEF Kept

\* An index kept before the step is kept after it.
LEMMA IndexStaysKept ==
  ASSUME TypeOK, Grown, NEW index, IndexKept(index, library, archive)
  PROVE  IndexKept(index, library', archive')
<1>1. \A id, p : Kept(library, archive, id, p) => Kept(library', archive', id, p)
  BY Grows
<1>2. QED
  BY <1>1 DEF IndexKept

\* So is what an exchange says, if the row it was confirmed from stays.
LEMMA ExchangeStaysSound ==
  ASSUME TypeOK, Grown, NEW x \in Exchanges,
         ExchangeSound(session, library, archive, mixed, x), mixed' = mixed,
         x.revalidated # None /\ ~x.late =>
             session'.resources[x.request.uri] = session.resources[x.request.uri]
  PROVE  ExchangeSound(session', library', archive', mixed', x)
<1>1. \A id, p : Kept(library, archive, id, p) => Kept(library', archive', id, p)
  BY Grows
<1>2. QED
  BY <1>1 DEF ExchangeSound, RowStands, RowConfirms

\* The revisit records written before the step stay faithful.
LEMMA StaysFaithful ==
  ASSUME TypeOK, Grown, RevisitsFaithful
  PROVE  \A i \in 1 .. Len(archive) : archive'[i].refers # None =>
            /\ Holds(library', archive', archive'[i].refers, archive'[i].digest, i - 1)
            /\ archive'[i].doubtful \/ archive'[i].digest = archive'[i].served
<1>1. \A id, p : \A n \in 0 .. Len(archive) :
        Holds(library, archive, id, p, n) => Holds(library', archive', id, p, n)
  BY Grows
<1>2. Len(archive) \in Nat
  BY DEF TypeOK
<1>3. \A i \in 1 .. Len(archive) : archive'[i] = archive[i]
  <2>1. CASE archive' = archive
    BY <2>1
  <2>2. ASSUME NEW r \in Records, archive' = Append(archive, r)
        PROVE  \A i \in 1 .. Len(archive) : archive'[i] = archive[i]
    BY <2>2 DEF TypeOK
  <2>3. QED
    BY <2>1, <2>2 DEF Grown
<1>4. SUFFICES ASSUME NEW i \in 1 .. Len(archive), archive[i].refers # None
               PROVE  /\ Holds(library', archive', archive[i].refers, archive[i].digest, i - 1)
                      /\ archive[i].doubtful \/ archive[i].digest = archive[i].served
  BY <1>3
<1>5. i - 1 \in 0 .. Len(archive)
  BY <1>2
<1>6. QED
  BY <1>1, <1>4, <1>5 DEF RevisitsFaithful

\* A step that writes no record keeps them all faithful.
LEMMA UnwrittenFaithful ==
  ASSUME TypeOK, Grown, archive' = archive, RevisitsFaithful
  PROVE  RevisitsFaithful'
BY StaysFaithful DEF RevisitsFaithful

\* What pending exchanges say stays so, if the rows they were confirmed from stay.
LEMMA PendingStaysSound ==
  ASSUME TypeOK, Grown, pending' = pending, mixed' = mixed,
         \A i \in 1 .. Len(pending) :
             ExchangeSound(session, library, archive, mixed, pending[i]),
         \A u \in Uris : session.resources[u] # None =>
             session'.resources[u] = session.resources[u]
  PROVE  \A i \in 1 .. Len(pending') :
             ExchangeSound(session', library', archive', mixed', pending'[i])
<1>1. SUFFICES ASSUME NEW i \in 1 .. Len(pending)
               PROVE  ExchangeSound(session', library', archive', mixed', pending[i])
  OBVIOUS
<1>2. pending[i] \in Exchanges
  BY DEF TypeOK
<1>3. pending[i].request.uri \in Uris
  BY <1>2 DEF Exchanges, Requests
<1>4. pending[i].revalidated # None /\ ~pending[i].late =>
        session'.resources[pending[i].request.uri] = session.resources[pending[i].request.uri]
  BY <1>3 DEF ExchangeSound, RowStands
<1>5. QED
  BY <1>2, <1>4, ExchangeStaysSound

(***************************************************************************)
(* Preparing a request.                                                    *)
(***************************************************************************)

\* The overlay takes rows of the durable index where it has none.
LEMMA OverlaidEffect ==
  ASSUME session \in Indexes, persistent \in Indexes, NEW u \in Uris
  PROVE  /\ Overlaid(u) \in Indexes
         /\ Overlaid(u).payloads = session.payloads
         /\ \A w \in Uris :
               \/ Overlaid(u).resources[w] = session.resources[w]
               \/ /\ session.resources[w] = None
                  /\ Overlaid(u).resources[w] = persistent.resources[w]
<1> DEFINE durable == persistent.resources[u]
<1>1. CASE session.resources[u] = None /\ durable # None
  <2>1. durable \in States
    BY <1>1 DEF Indexes
  <2>2. Overlaid(u) = UpdateRepresentation(session, u, durable)
    BY <1>1 DEF Overlaid, LookupResource
  <2>3. /\ Overlaid(u) \in Indexes
        /\ Overlaid(u).payloads = session.payloads
        /\ \A w \in Uris \ {u} : Overlaid(u).resources[w] = session.resources[w]
        /\ Overlaid(u).resources[u] = durable
    <3> HIDE DEF durable
    <3> QED
      BY <1>1, <2>1, <2>2, RepresentationEffect
  <2>4. QED
    BY <1>1, <2>3
<1>2. CASE ~(session.resources[u] = None /\ durable # None)
  <2>1. Overlaid(u) = session
    BY <1>2 DEF Overlaid, LookupResource
  <2>2. QED
    BY <2>1
<1>3. QED
  BY <1>1, <1>2

\* Taking rows from a sound index leaves a sound one.
LEMMA OverlaidSound ==
  ASSUME session \in Indexes, persistent \in Indexes, NEW u \in Uris,
         IndexKept(session, library, archive), IndexKept(persistent, library, archive),
         RowsSound
  PROVE  /\ IndexKept(Overlaid(u), library, archive)
         /\ \A w \in Uris \ mixed : RowSound(Overlaid(u), w)
<1> DEFINE new == Overlaid(u)
<1>1. /\ new.payloads = session.payloads
      /\ \A w \in Uris :
            \/ new.resources[w] = session.resources[w]
            \/ new.resources[w] = persistent.resources[w]
  BY OverlaidEffect
<1> HIDE DEF new
<1>2. IndexKept(new, library, archive)
  BY <1>1 DEF IndexKept
<1>3. ASSUME NEW w \in Uris \ mixed PROVE RowSound(new, w)
  <2>1. RowSound(session, w) /\ RowSound(persistent, w)
    BY DEF RowsSound, Sound
  <2>2. QED
    BY <1>1, <2>1 DEF RowSound
<1>4. QED
  BY <1>2, <1>3 DEF new

\* An original names a record that is there, and its row, unless mixed, confirms it.
LEMMA OriginalIsSound ==
  ASSUME persistent \in Indexes, NEW overlay \in Indexes, NEW r \in Requests,
         IndexKept(overlay, library, archive), IndexKept(persistent, library, archive),
         \A w \in Uris \ mixed : RowSound(overlay, w), overlay.resources[r.uri] # None,
         NEW o, o = OriginalFromState(overlay, overlay.resources[r.uri], r.variant),
         o # None
  PROVE  /\ o \in Originals
         /\ Kept(library, archive, o.target.id, o.target.digest)
         /\ RowStands(overlay, r, o.target)
         /\ o.tag = overlay.resources[r.uri].tag
         /\ r.uri \notin mixed => RowConfirms(overlay, r, o.target)
<1> DEFINE row == overlay.resources[r.uri]
<1>1. r.uri \in Uris /\ r.variant \in Variants
  BY DEF Requests
<1>2. row \in States /\ row # None
  BY <1>1 DEF Indexes
<1> DEFINE d == row.digest
           variant == r.variant
<1>3. /\ d \in Payloads
      /\ row.tag \in Tags
      /\ Matches(row.variance, variant)
      /\ o \in Originals
      /\ o.target.digest = d
      /\ o.tag = row.tag
      /\ \/ o.target.id = overlay.payloads[d] /\ overlay.payloads[d] # None
         \/ o.target.id = persistent.payloads[d] /\ persistent.payloads[d] # None
         \/ o.target.id = row.id /\ row.id # None
  <2>1. o = OriginalFromState(overlay, row, variant) /\ variant \in Variants
    BY <1>1
  <2> HIDE DEF row, variant
  <2>2. QED
    BY <1>2, <2>1, OriginalEffect DEF d
<1>4. None \notin Payloads \cup Tags
  OBVIOUS
<1>5. Kept(library, archive, o.target.id, d)
  BY <1>1, <1>2, <1>3, <1>4 DEF IndexKept
<1>6. r.uri \notin mixed => Content[r.uri][row.tag][variant] = d
  BY <1>1, <1>2, <1>3, <1>4 DEF RowSound
<1>7. QED
  BY <1>2, <1>3, <1>4, <1>5, <1>6 DEF RowStands, RowConfirms

\* Preparing a request preserves the invariant.
LEMMA PrepareStep == IInv /\ Prepare => IInv'
<1> SUFFICES ASSUME IInv, Prepare PROVE IInv'
  OBVIOUS
<1>i. /\ TypeOK
      /\ IndexKept(session, library, archive) /\ IndexKept(persistent, library, archive)
      /\ RowsSound /\ OriginalSound /\ PendingSound /\ RevisitsFaithful
  BY DEF IInv
<1>p. /\ phase = "idle" /\ phase' = "sent"
      /\ pending' = pending /\ persistent' = persistent
      /\ archive' = archive /\ library' = library /\ mixed' = mixed
  BY DEF Prepare
<1>t. /\ session \in Indexes /\ persistent \in Indexes
      /\ pending \in Seq(Exchanges) /\ archive \in Seq(Records)
      /\ library \in Seq(Payloads)
  BY <1>i DEF TypeOK
<1>1. PICK r \in Requests :
        /\ request' = r
        /\ IF Revalidatable(r.method)
           THEN /\ session' = Overlaid(r.uri)
                /\ LET state == LookupResource(session', r.uri) IN
                   original' = IF state = None THEN None
                               ELSE OriginalFromState(session', state, r.variant)
           ELSE UNCHANGED session /\ original' = None
  BY DEF Prepare
<1>2. r.uri \in Uris /\ r # None
  BY DEF Requests
<1>g. Grown
  BY <1>p DEF Grown
<1>3. /\ session' \in Indexes
      /\ IndexKept(session', library, archive)
      /\ \A w \in Uris \ mixed : RowSound(session', w)
      /\ \A u \in Uris : session.resources[u] # None =>
             session'.resources[u] = session.resources[u]
  <2>1. CASE Revalidatable(r.method)
    <3>1. session' = Overlaid(r.uri)
      BY <1>1, <2>1
    <3>2. QED
      BY <1>2, <1>i, <1>t, <3>1, OverlaidEffect, OverlaidSound
  <2>2. CASE ~Revalidatable(r.method)
    BY <1>1, <1>i, <1>t, <2>2 DEF RowsSound
  <2>3. QED
    BY <2>1, <2>2
<1>4. original' # None =>
        /\ original' \in Originals
        /\ Kept(library, archive, original'.target.id, original'.target.digest)
        /\ RowStands(session', r, original'.target)
        /\ original'.tag = session'.resources[r.uri].tag
        /\ r.uri \notin mixed => RowConfirms(session', r, original'.target)
  <2>1. SUFFICES ASSUME original' # None
                 PROVE  /\ original' \in Originals
                        /\ Kept(library, archive, original'.target.id, original'.target.digest)
                        /\ RowStands(session', r, original'.target)
                        /\ original'.tag = session'.resources[r.uri].tag
                        /\ r.uri \notin mixed => RowConfirms(session', r, original'.target)
    OBVIOUS
  <2>2. /\ session'.resources[r.uri] # None
        /\ original' = OriginalFromState(session', session'.resources[r.uri], r.variant)
    BY <1>1, <2>1 DEF LookupResource
  <2>3. QED
    BY <1>3, <1>i, <1>t, <2>1, <2>2, OriginalIsSound
<1>5. TypeOK'
  BY <1>1, <1>3, <1>4, <1>i, <1>p, <1>t DEF TypeOK
<1>6. RowsSound'
  BY <1>3, <1>i, <1>p DEF RowsSound
<1>7. OriginalSound'
  BY <1>1, <1>4, <1>p DEF OriginalSound
<1>8. PendingSound'
  <2>1. \A i \in 1 .. Len(pending') :
          ExchangeSound(session', library', archive', mixed', pending'[i])
    BY <1>3, <1>g, <1>i, <1>p, PendingStaysSound DEF PendingSound
  <2>2. QED
    BY <1>i, <1>p, <2>1 DEF PendingSound
<1>9. RevisitsFaithful'
  BY <1>g, <1>i, <1>p, UnwrittenFaithful
<1>10. QED
  BY <1>1, <1>2, <1>3, <1>5, <1>6, <1>7, <1>8, <1>9, <1>i, <1>p DEF IInv

(***************************************************************************)
(* The answer.                                                             *)
(***************************************************************************)

\* An answer within what the server does makes a sound exchange.
LEMMA AnswerSound ==
  ASSUME IInv, phase = "sent", NEW a \in Answers, NEW date \in Dates, MayAnswer(a),
         NEW x, x = Captured(a, date)
  PROVE  /\ x \in Exchanges /\ ExchangeSound(session, library, archive, mixed, x)
         /\ \A i \in 1 .. Len(pending) :
               pending[i].request.uri = x.request.uri /\ x.revalidated # None /\ ~x.late =>
                   ~Replaces(pending[i])
         /\ x.late => \E i \in 1 .. Len(pending) :
               pending[i].request.uri = x.request.uri /\ Replaces(pending[i])
<1>i. TypeOK /\ OriginalSound /\ request # None
  BY DEF IInv
<1>1. /\ request \in Requests /\ request.uri \in Uris /\ request.variant \in Variants
      /\ original \in Originals \cup {None}
  BY <1>i DEF TypeOK, Requests
<1>2. /\ a.status \in Statuses /\ a.payload \in Payloads /\ a.whole \in BOOLEAN
      /\ a.tag \in Tags \cup {None} /\ a.vary \in BOOLEAN /\ a.version \in Tags
  BY DEF Answers
<1>3. Content[request.uri][a.version][request.variant] \in Payloads
  BY <1>1, <1>2
<1>x. /\ x.request = request /\ x.status = a.status /\ x.payload = a.payload
      /\ x.whole = a.whole /\ x.tag = a.tag /\ x.vary = a.vary /\ x.date = date
      /\ x.revalidated = IF original # None /\ a.status = "notModified"
                         THEN original.target ELSE None
      /\ x.served = IF a.status = "notModified" THEN Current(a.version) ELSE a.payload
      /\ x.late = (original # None /\ a.status = "notModified" /\ Overtaken)
      /\ x.doubtful =
            (original # None /\ a.status = "notModified" /\ request.uri \in mixed)
  BY DEF Captured
<1>4. original # None => original.target \in Targets /\ original.target # None
  BY <1>1 DEF Originals
<1>5. x.revalidated \in Targets \cup {None} /\ x.served \in Payloads
  BY <1>2, <1>3, <1>4, <1>x DEF Current
<1>6. x \in Exchanges
  BY <1>1, <1>2, <1>5, <1>x DEF Exchanges, Captured
<1>7. a.status = "notModified" =>
        original # None /\ original.tag = a.version /\ a.payload = Empty /\ a.whole
  BY DEF MayAnswer
<1>8. x.revalidated = None => x.served = x.payload /\ ~x.late /\ ~x.doubtful
  BY <1>4, <1>7, <1>x
<1>9. ASSUME x.revalidated # None
      PROVE  /\ x.status = "notModified"
             /\ ~x.doubtful => x.served = x.revalidated.digest
             /\ Kept(library, archive, x.revalidated.id, x.revalidated.digest)
             /\ RowStands(session, x.request, x.revalidated)
             /\ x.request.uri \notin mixed =>
                   RowConfirms(session, x.request, x.revalidated)
             /\ x.tag \in {None, session.resources[x.request.uri].tag}
  <2>1. /\ original # None /\ a.status = "notModified" /\ original.tag = a.version
        /\ x.revalidated = original.target /\ x.served = Current(a.version)
    BY <1>7, <1>9, <1>x
  <2>2. /\ Kept(library, archive, original.target.id, original.target.digest)
        /\ RowStands(session, request, original.target)
        /\ request.uri \notin mixed => RowConfirms(session, request, original.target)
        /\ a.version = session.resources[request.uri].tag
    BY <1>i, <2>1 DEF OriginalSound
  <2>3. a.tag \in {a.version, None}
    BY DEF MayAnswer
  <2>4. ~x.doubtful => x.served = x.revalidated.digest
    BY <1>x, <2>1, <2>2 DEF RowConfirms, Current
  <2>5. QED
    BY <1>x, <2>1, <2>2, <2>3, <2>4
<1>10. ASSUME x.status = "ok", x.tag # None, RevisitKey(x) # None,
              NEW v \in Variants, Matches(Declared(x.vary, x.request.variant), v)
       PROVE  Content[x.request.uri][x.tag][v] = x.payload
  <2>1. x.revalidated = None
    BY <1>10, <1>x
  <2>2. x.payload # Empty /\ x.whole
    BY <1>10, <2>1 DEF RevisitKey
  <2>3. /\ x.tag = a.version
        /\ a.vary = (request.uri \in Varying)
        /\ a.payload = Content[request.uri][a.version][request.variant]
    BY <1>10, <1>x, <2>2 DEF MayAnswer, Current
  <2>4. CASE a.vary
    <3>1. v = request.variant
      BY <1>1, <1>10, <1>x, <2>4 DEF Matches, Declared
    <3>2. QED
      BY <1>x, <2>3, <3>1
  <2>5. CASE ~a.vary
    <3>1. request.uri \in Uris \ Varying
      BY <1>1, <2>3, <2>5
    <3>2. Content[request.uri][a.version][v] =
            Content[request.uri][a.version][request.variant]
      BY <1>1, <1>2, <3>1
    <3>3. QED
      BY <1>x, <2>3, <3>2
  <2>6. QED
    BY <1>2, <2>4, <2>5
<1>11. ExchangeSound(session, library, archive, mixed, x)
  BY <1>8, <1>9, <1>10 DEF ExchangeSound
<1>12. x.revalidated # None => (x.late <=> Overtaken)
  BY <1>4, <1>x
<1>13. x.late => Overtaken
  BY <1>x
<1>14. QED
  BY <1>6, <1>11, <1>12, <1>13, <1>x DEF Overtaken

\* An answer, once captured, preserves the invariant.
LEMMA RespondStep == IInv /\ Respond => IInv'
<1> SUFFICES ASSUME IInv, Respond PROVE IInv'
  OBVIOUS
<1>i. /\ TypeOK
      /\ IndexKept(session, library, archive) /\ IndexKept(persistent, library, archive)
      /\ RowsSound /\ OriginalSound /\ PendingSound /\ RevisitsFaithful
  BY DEF IInv
<1>p. /\ phase = "sent" /\ phase' = "idle" /\ request' = None /\ original' = None
      /\ session' = session /\ persistent' = persistent
      /\ archive' = archive /\ library' = library /\ mixed' = mixed
  BY DEF Respond
<1>t. pending \in Seq(Exchanges)
  BY <1>i DEF TypeOK
<1>1. PICK x \in Exchanges :
        /\ pending' = Append(pending, x)
        /\ ExchangeSound(session, library, archive, mixed, x)
        /\ \A i \in 1 .. Len(pending) :
              pending[i].request.uri = x.request.uri /\ x.revalidated # None /\ ~x.late =>
                  ~Replaces(pending[i])
        /\ x.late => \E i \in 1 .. Len(pending) :
              pending[i].request.uri = x.request.uri /\ Replaces(pending[i])
  <2>1. PICK a \in Answers, date \in Dates :
          MayAnswer(a) /\ pending' = Append(pending, Captured(a, date))
    BY DEF Respond
  <2>2. QED
    BY <1>p, <2>1, AnswerSound
<1>2. /\ Len(pending) \in Nat
      /\ Len(pending') = Len(pending) + 1
      /\ \A i \in 1 .. Len(pending) : pending'[i] = pending[i]
      /\ pending'[Len(pending) + 1] = x
      /\ pending' \in Seq(Exchanges)
  BY <1>1, <1>t
<1>3. TypeOK'
  BY <1>2, <1>i, <1>p DEF TypeOK
<1>4. PendingSound'
  <2>1. \A i \in 1 .. Len(pending') :
          ExchangeSound(session, library, archive, mixed, pending'[i])
    <3>1. SUFFICES ASSUME NEW i \in 1 .. Len(pending')
                   PROVE  ExchangeSound(session, library, archive, mixed, pending'[i])
      OBVIOUS
    <3>2. CASE i \in 1 .. Len(pending)
      BY <1>2, <1>i, <3>2 DEF PendingSound
    <3>3. CASE i = Len(pending) + 1
      BY <1>1, <1>2, <3>3
    <3>4. QED
      BY <1>2, <3>2, <3>3
  <2>2. ASSUME NEW j \in 1 .. Len(pending'), pending'[j].late
        PROVE  \E i \in 1 .. j - 1 : /\ pending'[i].request.uri = pending'[j].request.uri
                                    /\ Replaces(pending'[i])
    <3>1. CASE j \in 1 .. Len(pending)
      <4>1. PICK i \in 1 .. j - 1 : /\ pending[i].request.uri = pending[j].request.uri
                                    /\ Replaces(pending[i])
        BY <1>2, <1>i, <1>p, <2>2, <3>1 DEF PendingSound
      <4>2. pending'[i] = pending[i] /\ pending'[j] = pending[j]
        BY <1>2, <3>1
      <4>3. QED
        BY <4>1, <4>2
    <3>2. CASE j = Len(pending) + 1
      <4>1. PICK i \in 1 .. Len(pending) : /\ pending[i].request.uri = x.request.uri
                                           /\ Replaces(pending[i])
        BY <1>1, <1>2, <2>2, <3>2
      <4>2. pending'[i] = pending[i] /\ pending'[j] = x /\ i \in 1 .. j - 1
        BY <1>2, <3>2
      <4>3. QED
        BY <4>1, <4>2
    <3>3. QED
      BY <1>2, <3>1, <3>2
  <2>3. ASSUME NEW i \in 1 .. Len(pending'), NEW j \in 1 .. Len(pending'), i < j
        PROVE  InTime(pending'[i], pending'[j])
    <3>1. CASE j \in 1 .. Len(pending)
      <4>1. i \in 1 .. Len(pending)
        BY <1>2, <2>3, <3>1
      <4>2. pending'[i] = pending[i] /\ pending'[j] = pending[j]
        BY <1>2, <3>1, <4>1
      <4>3. QED
        BY <1>i, <2>3, <3>1, <4>1, <4>2 DEF PendingSound
    <3>2. CASE j = Len(pending) + 1
      <4>1. i \in 1 .. Len(pending) /\ pending'[i] = pending[i] /\ pending'[j] = x
        BY <1>2, <2>3, <3>2
      <4>2. ASSUME pending[i].request.uri = x.request.uri, x.revalidated # None, ~x.late,
                   pending[i].late
            PROVE  FALSE
        <5>1. PICK k \in 1 .. i - 1 : /\ pending[k].request.uri = pending[i].request.uri
                                      /\ Replaces(pending[k])
          BY <1>i, <1>p, <4>1, <4>2 DEF PendingSound
        <5>2. k \in 1 .. Len(pending)
          BY <1>2, <4>1
        <5>3. QED
          BY <1>1, <4>2, <5>1, <5>2
      <4>3. QED
        BY <1>1, <4>1, <4>2 DEF InTime
    <3>3. QED
      BY <1>2, <3>1, <3>2
  <2>4. QED
    BY <1>p, <2>1, <2>2, <2>3 DEF PendingSound
<1>5. RowsSound' /\ RevisitsFaithful'
  BY <1>i, <1>p DEF RowsSound, RevisitsFaithful
<1>6. QED
  BY <1>3, <1>4, <1>5, <1>i, <1>p DEF IInv, OriginalSound

\* So does losing the request.
LEMMA LoseStep == IInv /\ Lose => IInv'
<1> SUFFICES ASSUME IInv, Lose PROVE IInv'
  OBVIOUS
<1>i. /\ TypeOK
      /\ IndexKept(session, library, archive) /\ IndexKept(persistent, library, archive)
      /\ RowsSound /\ PendingSound /\ RevisitsFaithful
  BY DEF IInv
<1>p. /\ phase = "sent" /\ phase' = "idle" /\ request' = None /\ original' = None
      /\ session' = session /\ persistent' = persistent /\ pending' = pending
      /\ archive' = archive /\ library' = library /\ mixed' = mixed
  BY DEF Lose
<1>1. TypeOK'
  BY <1>i, <1>p DEF TypeOK
<1>2. PendingSound'
  BY <1>i, <1>p DEF PendingSound
<1>3. RowsSound' /\ RevisitsFaithful'
  BY <1>i, <1>p DEF RowsSound, RevisitsFaithful
<1>4. QED
  BY <1>1, <1>2, <1>3, <1>i, <1>p DEF IInv, OriginalSound

(***************************************************************************)
(* Recording an exchange.                                                  *)
(***************************************************************************)

\* The record of a sound exchange is faithful: what it refers to, if anything, is
\* already there.
LEMMA WrittenFaithful ==
  ASSUME TypeOK, IndexKept(session, library, archive),
         IndexKept(persistent, library, archive),
         NEW x \in Exchanges, ExchangeSound(session, library, archive, mixed, x),
         Written(x).refers # None
  PROVE  /\ Holds(library, archive, Written(x).refers, Written(x).digest, Len(archive))
         /\ Written(x).doubtful \/ Written(x).digest = Written(x).served
<1>1. session \in Indexes /\ persistent \in Indexes
  BY DEF TypeOK
<1>2. CASE x.revalidated # None
  BY <1>1, <1>2, WrittenEffect DEF ExchangeSound, Kept
<1>3. CASE x.revalidated = None
  <2>1. /\ Written(x).refers = LookedUp(x) /\ LookedUp(x) # None
        /\ Written(x).digest = x.payload /\ Written(x).served = x.served
    BY <1>1, <1>3, WrittenEffect
  <2>2. x.served = x.payload /\ x.payload \in Payloads
    BY <1>3 DEF ExchangeSound, Exchanges
  <2>3. \/ LookedUp(x) = session.payloads[x.payload]
        \/ LookedUp(x) = persistent.payloads[x.payload]
    BY <1>1, <2>1, LookedUpEffect
  <2>4. Kept(library, archive, LookedUp(x), x.payload)
    BY <2>1, <2>2, <2>3 DEF IndexKept
  <2>5. QED
    BY <2>1, <2>2, <2>4 DEF Kept
<1>4. QED
  BY <1>2, <1>3

\* Appending it keeps the archive faithful.
LEMMA AppendFaithful ==
  ASSUME TypeOK, RevisitsFaithful, NEW x \in Exchanges,
         IndexKept(session, library, archive), IndexKept(persistent, library, archive),
         ExchangeSound(session, library, archive, mixed, x),
         archive' = Append(archive, Written(x)), library' = library
  PROVE  RevisitsFaithful'
<1>1. /\ session \in Indexes /\ persistent \in Indexes
      /\ archive \in Seq(Records) /\ Len(archive) \in Nat
  BY DEF TypeOK
<1>2. Written(x) \in Records
  BY <1>1, WrittenEffect
<1>3. Grown
  BY <1>2 DEF Grown
<1>4. /\ Len(archive') = Len(archive) + 1
      /\ archive'[Len(archive) + 1] = Written(x)
  BY <1>1, <1>2
<1>5. SUFFICES ASSUME NEW i \in 1 .. Len(archive'), archive'[i].refers # None
               PROVE  /\ Holds(library', archive', archive'[i].refers, archive'[i].digest, i - 1)
                      /\ archive'[i].doubtful \/ archive'[i].digest = archive'[i].served
  BY DEF RevisitsFaithful
<1>6. CASE i \in 1 .. Len(archive)
  BY <1>3, <1>5, <1>6, StaysFaithful
<1>7. CASE i = Len(archive) + 1
  <2>1. /\ Holds(library, archive, Written(x).refers, Written(x).digest, Len(archive))
        /\ Written(x).doubtful \/ Written(x).digest = Written(x).served
    BY <1>4, <1>5, <1>7, WrittenFaithful
  <2>2. Len(archive) \in 0 .. Len(archive)
    BY <1>1
  <2>3. Holds(library', archive', Written(x).refers, Written(x).digest, Len(archive))
    BY <1>3, <2>1, <2>2, Grows
  <2>4. i - 1 = Len(archive)
    BY <1>1, <1>7
  <2>5. QED
    BY <1>4, <1>7, <2>1, <2>3, <2>4
<1>8. QED
  BY <1>1, <1>4, <1>5, <1>6, <1>7

\* The index is still kept and sound after it.
LEMMA IndexedSound ==
  ASSUME IInv, NEW x \in Exchanges, ExchangeSound(session, library, archive, mixed, x),
         archive' = Append(archive, Written(x)), library' = library,
         session' = Indexed(x), mixed' = Mixed(x)
  PROVE  /\ session' \in Indexes
         /\ IndexKept(session', library', archive')
         /\ \A w \in Uris \ mixed' : RowSound(session', w)
<1>i. /\ TypeOK /\ RowsSound
      /\ IndexKept(session, library, archive) /\ IndexKept(persistent, library, archive)
  BY DEF IInv
<1>t. /\ session \in Indexes /\ persistent \in Indexes
      /\ archive \in Seq(Records) /\ Len(archive) \in Nat
  BY <1>i DEF TypeOK
<1> DEFINE u == x.request.uri
           key == RevisitKey(x)
           row == session.resources[u]
           newRow == session'.resources[u]
<1>1. /\ session' \in Indexes
      /\ \A q \in Payloads :
            \/ session'.payloads[q] = session.payloads[q]
            \/ /\ q = key /\ Written(x).refers = None
               /\ session'.payloads[q] = NextId
      /\ \A w \in Uris \ {u} : session'.resources[w] = session.resources[w]
      /\ \/ newRow = row
         \/ /\ Replaces(x) /\ x.status = "ok" /\ key # None
            /\ newRow = Representation(x)
            /\ newRow # None
            /\ newRow.digest = key
            /\ newRow.id = IF LookedUp(x) # None THEN LookedUp(x) ELSE NextId
            /\ newRow.tag = x.tag
            /\ newRow.variance = Declared(x.vary, x.request.variant)
         \/ /\ x.revalidated # None
            /\ row # None /\ newRow # None
            /\ newRow.digest = row.digest
            /\ newRow.id = row.id
            /\ newRow.tag = IF x.tag = None THEN row.tag ELSE x.tag
            /\ newRow.variance = IF x.vary THEN x.request.variant ELSE row.variance
  BY <1>t, IndexedEffect
<1>2. /\ Written(x) \in Records
      /\ x.revalidated # None => Written(x).refers = x.revalidated.id
      /\ x.revalidated = None => /\ Written(x).refers = LookedUp(x)
                                /\ Written(x).digest = x.payload
      /\ Written(x).whole = x.whole
  BY <1>t, WrittenEffect
<1>3. /\ u \in Uris /\ x.request.variant \in Variants
      /\ x.payload \in Payloads /\ x.tag \in Tags \cup {None}
      /\ x.revalidated # None => x.revalidated.id # None
  BY DEF Exchanges, Requests, Targets
<1>4. Grown
  BY <1>2 DEF Grown
<1>5. \A id, p : Kept(library, archive, id, p) => Kept(library', archive', id, p)
  BY <1>4, <1>i, Grows
<1>6. Written(x).refers = None /\ key # None =>
        key = x.payload /\ Kept(library', archive', NextId, key)
  <2>1. SUFFICES ASSUME Written(x).refers = None, key # None
                 PROVE  key = x.payload /\ Kept(library', archive', NextId, key)
    OBVIOUS
  <2>2. x.revalidated = None
    BY <1>2, <1>3, <2>1
  <2>3. key = x.payload /\ x.whole
    BY <2>1, <2>2, KeyEffect
  <2>4. /\ Len(archive') = Len(archive) + 1
        /\ archive'[Len(archive) + 1] = Written(x)
        /\ Len(archive) + 1 \in 1 .. Len(archive')
    BY <1>2, <1>t
  <2>5. NextId[1] = "archive" /\ NextId[2] = Len(archive) + 1
    BY DEF NextId
  <2>6. /\ archive'[NextId[2]].refers = None
        /\ archive'[NextId[2]].whole
        /\ archive'[NextId[2]].digest = key
    BY <1>2, <2>1, <2>2, <2>3, <2>4, <2>5
  <2>7. QED
    BY <2>3, <2>4, <2>5, <2>6 DEF Kept, Holds
<1>7. ASSUME x.status = "ok", key # None
      PROVE  /\ key = x.payload
             /\ LET id == IF LookedUp(x) # None THEN LookedUp(x) ELSE NextId
                IN  Kept(library', archive', id, key)
  <2>1. x.revalidated = None
    BY <1>7 DEF ExchangeSound
  <2>2. key = x.payload /\ Written(x).refers = LookedUp(x)
    BY <1>2, <1>7, <2>1, KeyEffect
  <2>3. CASE LookedUp(x) = None
    BY <1>6, <1>7, <2>2, <2>3
  <2>4. CASE LookedUp(x) # None
    <3>1. \/ LookedUp(x) = session.payloads[x.payload]
          \/ LookedUp(x) = persistent.payloads[x.payload]
      BY <1>t, <2>4, LookedUpEffect
    <3>2. Kept(library, archive, LookedUp(x), x.payload)
      BY <1>3, <1>i, <2>4, <3>1 DEF IndexKept
    <3>3. QED
      BY <1>5, <2>2, <2>4, <3>2
  <2>5. QED
    BY <2>3, <2>4
<1>8. IndexKept(session', library', archive')
  <2>1. ASSUME NEW p \in Payloads, session'.payloads[p] # None
        PROVE  Kept(library', archive', session'.payloads[p], p)
    <3>1. CASE session'.payloads[p] = session.payloads[p]
      BY <1>5, <1>i, <2>1, <3>1 DEF IndexKept
    <3>2. CASE p = key /\ Written(x).refers = None /\ session'.payloads[p] = NextId
      <4>1. key # None
        BY <2>1, <3>2
      <4>2. QED
        BY <1>6, <3>2, <4>1
    <3>3. QED
      BY <1>1, <2>1, <3>1, <3>2
  <2>2. ASSUME NEW w \in Uris,
               session'.resources[w] # None, session'.resources[w].digest # None,
               session'.resources[w].id # None
        PROVE  Kept(library', archive', session'.resources[w].id,
                    session'.resources[w].digest)
    <3>1. CASE session'.resources[w] = session.resources[w]
      BY <1>5, <1>i, <2>2, <3>1 DEF IndexKept
    <3>2. CASE /\ w = u /\ x.status = "ok" /\ key # None
               /\ newRow.digest = key
               /\ newRow.id = IF LookedUp(x) # None THEN LookedUp(x) ELSE NextId
      BY <1>7, <3>2
    <3>3. CASE /\ w = u /\ row # None /\ newRow.digest = row.digest /\ newRow.id = row.id
      BY <1>3, <1>5, <1>i, <2>2, <3>3 DEF IndexKept
    <3>4. QED
      BY <1>1, <3>1, <3>2, <3>3
  <2>3. QED
    BY <2>1, <2>2 DEF IndexKept
<1>9. ASSUME NEW w \in Uris \ mixed' PROVE RowSound(session', w)
  <2>1. SUFFICES ASSUME session'.resources[w] # None, session'.resources[w].tag # None,
                        session'.resources[w].digest # None,
                        NEW v \in Variants, Matches(session'.resources[w].variance, v)
                 PROVE  Content[w][session'.resources[w].tag][v] = session'.resources[w].digest
    BY DEF RowSound
  <2>2. CASE w # u
    <3>1. w \notin mixed /\ session'.resources[w] = session.resources[w]
      BY <1>1, <2>2 DEF Mixed
    <3>2. QED
      BY <1>i, <2>1, <3>1 DEF RowsSound, RowSound
  <2>3. CASE w = u /\ Replaces(x) /\ newRow = Representation(x)
    <3>1. x.status = "ok" /\ key # None
      BY <2>3 DEF Replaces
    <3>2. /\ newRow.digest = key /\ newRow.tag = x.tag
          /\ newRow.variance = Declared(x.vary, x.request.variant)
      BY <2>3 DEF Representation
    <3>3. QED
      BY <1>7, <2>1, <2>3, <3>1, <3>2 DEF ExchangeSound
  <2>4. CASE w = u /\ ~(Replaces(x) /\ newRow = Representation(x))
    <3>1. u \notin mixed /\ ~x.late
      BY <2>4 DEF Mixed
    <3>2. RowSound(session, u)
      BY <1>3, <1>i, <3>1 DEF RowsSound
    <3>3. CASE newRow = row
      BY <2>1, <2>4, <3>2, <3>3 DEF RowSound
    <3>4. CASE /\ x.revalidated # None
               /\ row # None /\ newRow.digest = row.digest
               /\ newRow.tag = IF x.tag = None THEN row.tag ELSE x.tag
               /\ newRow.variance = IF x.vary THEN x.request.variant ELSE row.variance
      <4>1. /\ row.tag # None
            /\ row.digest = x.revalidated.digest
            /\ Content[u][row.tag][x.request.variant] = row.digest
            /\ x.tag \in {None, row.tag}
        BY <3>1, <3>4 DEF ExchangeSound, RowStands, RowConfirms
      <4>2. newRow.tag = row.tag
        BY <3>4, <4>1
      <4>3. CASE x.vary
        <5>1. v = x.request.variant
          BY <1>3, <2>1, <2>4, <3>4, <4>3 DEF Matches
        <5>2. QED
          BY <2>4, <3>4, <4>1, <4>2, <5>1
      <4>4. CASE ~x.vary
        <5>1. newRow.variance = row.variance
          BY <3>4, <4>4
        <5>2. Content[u][row.tag][v] = row.digest
          BY <1>3, <2>1, <2>4, <3>2, <3>4, <4>1, <5>1 DEF RowSound
        <5>3. QED
          BY <2>4, <3>4, <4>2, <5>2
      <4>5. QED
        BY <4>3, <4>4
    <3>5. QED
      BY <1>1, <2>4, <3>3, <3>4
  <2>5. QED
    BY <2>2, <2>3, <2>4
<1>10. QED
  BY <1>1, <1>8, <1>9

\* What a later exchange of the capture says stays so once an earlier one is recorded.
LEMMA FollowingSound ==
  ASSUME TypeOK, Grown, NEW x \in Exchanges, NEW y \in Exchanges,
         ExchangeSound(session, library, archive, mixed, x),
         ExchangeSound(session, library, archive, mixed, y),
         InTime(x, y), session' = Indexed(x), mixed' = Mixed(x)
  PROVE  ExchangeSound(session', library', archive', mixed', y)
<1>1. \A id, p : Kept(library, archive, id, p) => Kept(library', archive', id, p)
  BY Grows
<1>2. /\ session \in Indexes /\ persistent \in Indexes /\ archive \in Seq(Records)
  BY DEF TypeOK
<1>3. x.request.uri \in Uris /\ y.request.uri \in Uris
  BY DEF Exchanges, Requests
<1>4. ASSUME y.revalidated # None, ~y.late
      PROVE  /\ RowStands(session', y.request, y.revalidated)
             /\ y.tag \in {None, session'.resources[y.request.uri].tag}
             /\ y.request.uri \notin mixed' =>
                   RowConfirms(session', y.request, y.revalidated)
  <2> DEFINE u == y.request.uri
             row == session.resources[u]
             newRow == session'.resources[u]
  <2>1. /\ row # None /\ row.digest = y.revalidated.digest /\ row.tag # None
        /\ y.tag \in {None, row.tag}
        /\ u \notin mixed => Content[u][row.tag][y.request.variant] = y.revalidated.digest
    BY <1>4 DEF ExchangeSound, RowStands, RowConfirms
  <2>2. /\ newRow # None /\ newRow.digest = row.digest /\ newRow.tag = row.tag
        /\ u \notin mixed' => u \notin mixed
    <3>1. CASE u # x.request.uri
      <4>1. newRow = row
        BY <1>2, <1>3, <3>1, IndexedEffect
      <4>2. QED
        BY <2>1, <3>1, <4>1 DEF Mixed
    <3>2. CASE u = x.request.uri
      <4>1. ~Replaces(x) /\ ~x.late
        BY <1>4, <3>2 DEF InTime
      <4>2. mixed' = mixed
        BY <4>1 DEF Mixed
      <4>3. \/ newRow = row
            \/ /\ x.revalidated # None /\ newRow # None
               /\ newRow.digest = row.digest
               /\ newRow.tag = IF x.tag = None THEN row.tag ELSE x.tag
        BY <1>2, <3>2, <4>1, IndexedEffect
      <4>4. x.revalidated # None => x.tag \in {None, row.tag}
        BY <3>2, <4>1 DEF ExchangeSound
      <4>5. QED
        BY <2>1, <4>2, <4>3, <4>4
    <3>3. QED
      BY <3>1, <3>2
  <2>3. QED
    BY <2>1, <2>2 DEF RowStands, RowConfirms
<1>5. QED
  BY <1>1, <1>4 DEF ExchangeSound

\* The exchanges left after the first stay sound if each of them does.
LEMMA TailSound ==
  ASSUME IInv, pending # <<>>, pending' = Tail(pending),
         pending' # <<>> => phase' \notin {"idle", "sent"},
         \A i \in 2 .. Len(pending) :
             ExchangeSound(session', library', archive', mixed', pending[i])
  PROVE  PendingSound'
<1>i. TypeOK /\ PendingSound
  BY DEF IInv
<1>1. /\ pending \in Seq(Exchanges) /\ Len(pending) \in Nat \ {0}
      /\ Len(pending') = Len(pending) - 1
      /\ \A i \in 1 .. Len(pending') : pending'[i] = pending[i + 1]
  BY <1>i DEF TypeOK
<1>2. \A i \in 1 .. Len(pending') :
         ExchangeSound(session', library', archive', mixed', pending'[i])
  BY <1>1
<1>3. ASSUME NEW i \in 1 .. Len(pending'), NEW j \in 1 .. Len(pending'), i < j
      PROVE  InTime(pending'[i], pending'[j])
  <2>1. i + 1 \in 1 .. Len(pending) /\ j + 1 \in 1 .. Len(pending) /\ i + 1 < j + 1
    BY <1>1, <1>3
  <2>2. InTime(pending[i + 1], pending[j + 1])
    BY <1>i, <2>1 DEF PendingSound
  <2>3. QED
    BY <1>1, <2>2
<1>4. phase' \in {"idle", "sent"} => Len(pending') = 0
  BY <1>1
<1>5. QED
  BY <1>2, <1>3, <1>4 DEF PendingSound

\* Recording an exchange preserves the invariant.
LEMMA RecordStep == IInv /\ Record => IInv'
<1> SUFFICES ASSUME IInv, Record PROVE IInv'
  OBVIOUS
<1> DEFINE x == Head(pending)
<1>i. /\ TypeOK
      /\ IndexKept(session, library, archive) /\ IndexKept(persistent, library, archive)
      /\ RowsSound /\ OriginalSound /\ PendingSound /\ RevisitsFaithful
  BY DEF IInv
<1>p. /\ phase \in {"idle", "recording"} /\ phase' \in {"idle", "recording"}
      /\ pending # <<>> /\ pending' = Tail(pending)
      /\ archive' = Append(archive, Written(x)) /\ session' = Indexed(x)
      /\ mixed' = Mixed(x)
      /\ pending' # <<>> => phase' = "recording"
      /\ request' = request /\ original' = original
      /\ persistent' = persistent /\ library' = library
  BY DEF Record
<1>t. /\ session \in Indexes /\ persistent \in Indexes
      /\ pending \in Seq(Exchanges) /\ Len(pending) \in Nat \ {0}
      /\ archive \in Seq(Records)
  BY <1>i, <1>p DEF TypeOK
<1>1. /\ x \in Exchanges /\ ExchangeSound(session, library, archive, mixed, x)
      /\ \A i \in 2 .. Len(pending) : InTime(x, pending[i])
  <2>1. x = pending[1] /\ 1 \in 1 .. Len(pending)
    BY <1>p, <1>t
  <2>2. QED
    BY <1>i, <1>t, <2>1 DEF PendingSound
<1>2. Written(x) \in Records
  BY <1>1, <1>t, WrittenEffect
<1>g. Grown
  BY <1>2, <1>p DEF Grown
<1>3. ASSUME NEW i \in 2 .. Len(pending)
      PROVE  ExchangeSound(session', library', archive', mixed', pending[i])
  <2>1. pending[i] \in Exchanges /\ ExchangeSound(session, library, archive, mixed, pending[i])
    BY <1>i, <1>t DEF PendingSound
  <2> HIDE DEF x
  <2>2. QED
    BY <1>1, <1>g, <1>i, <1>p, <2>1, FollowingSound
<1>4. /\ session' \in Indexes
      /\ IndexKept(session', library', archive')
      /\ \A w \in Uris \ mixed' : RowSound(session', w)
  <2> HIDE DEF x
  <2>1. QED
    BY <1>1, <1>p, IndexedSound
<1>5. RevisitsFaithful'
  <2> HIDE DEF x
  <2>1. QED
    BY <1>1, <1>i, <1>p, AppendFaithful
<1>6. IndexKept(persistent', library', archive')
  BY <1>g, <1>i, <1>p, IndexStaysKept
<1>7. TypeOK'
  <2>1. archive' \in Seq(Records) /\ pending' \in Seq(Exchanges)
    BY <1>2, <1>p, <1>t
  <2>2. mixed' \subseteq Uris
    BY <1>1, <1>i, <1>p DEF TypeOK, Mixed, Exchanges, Requests
  <2>3. QED
    BY <1>4, <1>i, <1>p, <2>1, <2>2 DEF TypeOK
<1>8. RowsSound'
  BY <1>4, <1>i, <1>p DEF RowsSound
<1>9. original' = None
  BY <1>i, <1>p DEF OriginalSound
<1>10. PendingSound'
  BY <1>3, <1>p, TailSound
<1>11. QED
  BY <1>4, <1>5, <1>6, <1>7, <1>8, <1>9, <1>10, <1>p DEF IInv, OriginalSound

\* So does failing to, with or without the record in the archive.
LEMMA RecordFailsStep == IInv /\ RecordFails => IInv'
<1> SUFFICES ASSUME IInv, RecordFails PROVE IInv'
  OBVIOUS
<1> DEFINE x == Head(pending)
<1>i. /\ TypeOK
      /\ IndexKept(session, library, archive) /\ IndexKept(persistent, library, archive)
      /\ RowsSound /\ OriginalSound /\ PendingSound /\ RevisitsFaithful
  BY DEF IInv
<1>p. /\ phase \in {"idle", "recording"} /\ phase' = "done"
      /\ pending # <<>> /\ pending' = Tail(pending)
      /\ archive' = archive \/ archive' = Append(archive, Written(x))
      /\ session' = session /\ request' = request /\ original' = original
      /\ persistent' = persistent /\ library' = library
      /\ mixed' = mixed
  BY DEF RecordFails
<1>t. /\ session \in Indexes /\ persistent \in Indexes
      /\ pending \in Seq(Exchanges) /\ Len(pending) \in Nat \ {0}
      /\ archive \in Seq(Records)
  BY <1>i, <1>p DEF TypeOK
<1>1. x \in Exchanges /\ ExchangeSound(session, library, archive, mixed, x)
  <2>1. x = pending[1] /\ 1 \in 1 .. Len(pending)
    BY <1>p, <1>t
  <2>2. QED
    BY <1>i, <1>t, <2>1 DEF PendingSound
<1>2. Written(x) \in Records
  BY <1>1, <1>t, WrittenEffect
<1>g. Grown
  BY <1>2, <1>p DEF Grown
<1>3. RevisitsFaithful'
  <2>1. CASE archive' = archive
    BY <1>g, <1>i, <2>1, UnwrittenFaithful
  <2>2. CASE archive' = Append(archive, Written(x))
    <3>1. library' = library
      BY <1>p
    <3> HIDE DEF x
    <3>2. QED
      BY <1>1, <1>i, <2>2, <3>1, AppendFaithful
  <2>3. QED
    BY <1>p, <2>1, <2>2
<1>4. /\ IndexKept(session', library', archive')
      /\ IndexKept(persistent', library', archive')
  BY <1>g, <1>i, <1>p, IndexStaysKept
<1>5. TypeOK'
  <2>1. archive' \in Seq(Records)
    <3>1. CASE archive' = archive
      BY <1>t, <3>1
    <3>2. CASE archive' = Append(archive, Written(x))
      <4> HIDE DEF x
      <4> QED
        BY <1>2, <1>t, <3>2
    <3>3. QED
      BY <1>p, <3>1, <3>2
  <2>2. pending' \in Seq(Exchanges)
    BY <1>p, <1>t
  <2>3. QED
    BY <1>i, <1>p, <2>1, <2>2 DEF TypeOK
<1>6. RowsSound'
  BY <1>i, <1>p DEF RowsSound
<1>7. original' = None
  BY <1>i, <1>p DEF OriginalSound
<1>8. PendingSound'
  <2>1. ASSUME NEW i \in 2 .. Len(pending)
        PROVE  ExchangeSound(session', library', archive', mixed', pending[i])
    <3>1. pending[i] \in Exchanges /\ ExchangeSound(session, library, archive, mixed, pending[i])
      BY <1>i, <1>t DEF PendingSound
    <3>2. QED
      BY <1>g, <1>i, <1>p, <3>1, ExchangeStaysSound
  <2>2. QED
    BY <1>p, <2>1, TailSound
<1>9. QED
  BY <1>3, <1>4, <1>5, <1>6, <1>7, <1>8, <1>p DEF IInv, OriginalSound

\* So does the end of the collection.
LEMMA FinishStep == IInv /\ Finish => IInv'
<1> SUFFICES ASSUME IInv, Finish PROVE IInv'
  OBVIOUS
<1>p. /\ phase = "idle" /\ phase' = "done" /\ request' = request
      /\ original' = original /\ pending' = pending /\ session' = session
      /\ persistent' = persistent /\ archive' = archive /\ library' = library
      /\ mixed' = mixed
  BY DEF Finish
<1>i. TypeOK /\ RowsSound /\ OriginalSound /\ PendingSound /\ RevisitsFaithful
  BY DEF IInv
<1>1. TypeOK' /\ RowsSound' /\ RevisitsFaithful'
  BY <1>i, <1>p DEF TypeOK, RowsSound, RevisitsFaithful
<1>2. OriginalSound' /\ PendingSound'
  BY <1>i, <1>p DEF OriginalSound, PendingSound
<1>3. QED
  BY <1>1, <1>2, <1>p DEF IInv

(***************************************************************************)
(* Ingestion.                                                              *)
(***************************************************************************)

\* Another process's ingestion preserves the invariant.
LEMMA IngestStep == IInv /\ Ingest => IInv'
<1> SUFFICES ASSUME IInv, Ingest PROVE IInv'
  OBVIOUS
<1>i. /\ TypeOK
      /\ IndexKept(session, library, archive) /\ IndexKept(persistent, library, archive)
      /\ RowsSound /\ OriginalSound /\ PendingSound /\ RevisitsFaithful
  BY DEF IInv
<1>p. /\ phase' = phase /\ request' = request /\ original' = original
      /\ pending' = pending /\ session' = session /\ archive' = archive
      /\ mixed' = mixed
  BY DEF Ingest
<1>t. /\ persistent \in Indexes /\ library \in Seq(Payloads) /\ Len(library) \in Nat
  BY <1>i DEF TypeOK
<1>1. PICK u \in Uris, t \in Tags, v \in Variants, date \in Dates,
           tagged \in BOOLEAN, digested \in BOOLEAN, get \in BOOLEAN :
        /\ library' = Append(library, Content[u][t][v])
        /\ persistent' = IndexResponse(persistent, u,
                             IF digested THEN Content[u][t][v] ELSE None,
                             <<"library", Len(library) + 1>>, date, get,
                             IF tagged THEN t ELSE None, u \in Varying)
  BY DEF Ingest
<1> DEFINE payload == Content[u][t][v]
           digest == IF digested THEN payload ELSE None
           tag == IF tagged THEN t ELSE None
           id == <<"library", Len(library) + 1>>
           vary == u \in Varying
<1>2. /\ payload \in Payloads /\ digest \in Payloads \cup {None}
      /\ tag \in Tags \cup {None} /\ id \in Ids /\ vary \in BOOLEAN
  BY <1>t DEF Ids
<1>3. /\ persistent' \in Indexes
      /\ \A q \in Payloads :
            \/ persistent'.payloads[q] = persistent.payloads[q]
            \/ q = digest /\ persistent'.payloads[q] = id
      /\ \A w \in Uris :
            \/ persistent'.resources[w] = persistent.resources[w]
            \/ /\ w = u
               /\ persistent'.resources[w].tag = tag
               /\ persistent'.resources[w].digest = digest
               /\ persistent'.resources[w].id = id
               /\ persistent'.resources[w].variance = DeclaredWithoutRequest(vary)
  <2> DEFINE inserted == IF digest = None THEN persistent
                         ELSE InsertPayload(persistent, digest, id)
             variance == DeclaredWithoutRequest(vary)
             state == [tag |-> tag, digest |-> digest, id |-> id, observed |-> date,
                       variance |-> variance]
  <2>1. persistent' = IF get THEN UpdateRepresentation(inserted, u, state) ELSE inserted
    BY <1>1 DEF IndexResponse
  <2>2. variance \in Variances
    BY DEF DeclaredWithoutRequest, Variances
  <2> HIDE DEF digest, id, tag, variance
  <2>3. /\ inserted \in Indexes
        /\ inserted.resources = persistent.resources
        /\ \A q \in Payloads : \/ inserted.payloads[q] = persistent.payloads[q]
                               \/ q = digest /\ inserted.payloads[q] = id
    <3>1. CASE digest = None
      BY <1>t, <3>1
    <3>2. CASE digest # None
      BY <1>2, <1>t, <3>2, InsertEffect
    <3>3. QED
      BY <3>1, <3>2
  <2>4. /\ state \in States
        /\ state.tag = tag /\ state.digest = digest /\ state.id = id
        /\ state.variance = variance
    BY <1>2, <2>2 DEF States
  <2> HIDE DEF inserted, state
  <2>5. CASE get
    <3>1. persistent' = UpdateRepresentation(inserted, u, state)
      BY <2>1, <2>5
    <3>2. /\ persistent' \in Indexes
          /\ persistent'.payloads = inserted.payloads
          /\ \A w \in Uris \ {u} : persistent'.resources[w] = inserted.resources[w]
          /\ \/ persistent'.resources[u] = state
             \/ persistent'.resources[u] = inserted.resources[u]
      BY <2>3, <2>4, <3>1, RepresentationEffect
    <3>3. QED
      BY <2>3, <2>4, <3>2 DEF variance
  <2>6. CASE ~get
    BY <2>1, <2>3, <2>6
  <2>7. QED
    BY <2>5, <2>6
<1>g. Grown
  BY <1>1, <1>2, <1>p DEF Grown
<1>4. digest # None => Kept(library', archive', id, digest)
  <2>1. id[1] = "library" /\ id[2] = Len(library) + 1
    OBVIOUS
  <2>a. library' = Append(library, payload)
    BY <1>1
  <2> HIDE DEF payload
  <2>2. id[2] \in 1 .. Len(library') /\ library'[id[2]] = payload
    BY <1>2, <1>t, <2>1, <2>a
  <2>3. digest # None => digest = payload
    OBVIOUS
  <2> HIDE DEF id, digest
  <2>4. QED
    BY <2>1, <2>2, <2>3 DEF Kept, Holds
<1>5. IndexKept(persistent', library', archive')
  <2>1. IndexKept(persistent, library', archive')
    BY <1>g, <1>i, IndexStaysKept
  <2> HIDE DEF id, digest, tag, vary
  <2>2. ASSUME NEW q \in Payloads, persistent'.payloads[q] # None
        PROVE  Kept(library', archive', persistent'.payloads[q], q)
    <3>1. CASE persistent'.payloads[q] = persistent.payloads[q]
      BY <2>1, <2>2, <3>1 DEF IndexKept
    <3>2. CASE q = digest /\ persistent'.payloads[q] = id
      BY <1>4, <3>2
    <3>3. QED
      BY <1>3, <2>2, <3>1, <3>2
  <2>3. ASSUME NEW w \in Uris,
               persistent'.resources[w] # None, persistent'.resources[w].digest # None,
               persistent'.resources[w].id # None
        PROVE  Kept(library', archive', persistent'.resources[w].id,
                    persistent'.resources[w].digest)
    <3>1. CASE persistent'.resources[w] = persistent.resources[w]
      BY <2>1, <2>3, <3>1 DEF IndexKept
    <3>2. CASE persistent'.resources[w].digest = digest /\ persistent'.resources[w].id = id
      BY <1>4, <2>3, <3>2
    <3>3. QED
      BY <1>3, <2>3, <3>1, <3>2
  <2>4. QED
    BY <2>2, <2>3 DEF IndexKept
<1>6. Sound(persistent')
  <2>1. SUFFICES ASSUME NEW w \in Uris,
                        persistent'.resources[w] # None,
                        persistent'.resources[w].tag # None,
                        persistent'.resources[w].digest # None,
                        NEW z \in Variants, Matches(persistent'.resources[w].variance, z)
                 PROVE  Content[w][persistent'.resources[w].tag][z] =
                          persistent'.resources[w].digest
    BY DEF Sound, RowSound
  <2>2. CASE persistent'.resources[w] = persistent.resources[w]
    BY <1>i, <2>1, <2>2 DEF RowsSound, Sound, RowSound
  <2>3. CASE /\ w = u
             /\ persistent'.resources[w].tag = tag
             /\ persistent'.resources[w].digest = digest
             /\ persistent'.resources[w].variance = DeclaredWithoutRequest(vary)
    <3>1. tag = t /\ digest = payload
      BY <2>1, <2>3
    <3>2. Matches(DeclaredWithoutRequest(vary), z)
      BY <2>1, <2>3
    <3>3. u \in Uris \ Varying
      BY <3>2 DEF Matches, DeclaredWithoutRequest
    <3>4. Content[u][t][z] = Content[u][t][v]
      BY <3>3
    <3>5. QED
      BY <2>3, <3>1, <3>4
  <2>4. QED
    BY <1>3, <2>2, <2>3
<1>7. IndexKept(session', library', archive')
  BY <1>g, <1>i, <1>p, IndexStaysKept
<1>8. TypeOK'
  <2>1. library' \in Seq(Payloads)
    BY <1>1, <1>2, <1>t
  <2>2. QED
    BY <1>3, <1>i, <1>p, <2>1 DEF TypeOK
<1>9. RowsSound'
  BY <1>6, <1>i, <1>p DEF RowsSound
<1>10. OriginalSound'
  <2>1. \A k, q : Kept(library, archive, k, q) => Kept(library', archive', k, q)
    BY <1>g, <1>i, Grows
  <2>2. QED
    BY <1>i, <1>p, <2>1 DEF OriginalSound
<1>11. PendingSound'
  <2>1. \A i \in 1 .. Len(pending') :
          ExchangeSound(session', library', archive', mixed', pending'[i])
    BY <1>g, <1>i, <1>p, PendingStaysSound DEF PendingSound
  <2>2. QED
    BY <1>i, <1>p, <2>1 DEF PendingSound
<1>12. RevisitsFaithful'
  BY <1>g, <1>i, <1>p, UnwrittenFaithful
<1>13. phase' = "sent" => request' # None
  BY <1>p DEF IInv
<1>14. QED
  BY <1>5, <1>7, <1>8, <1>9, <1>10, <1>11, <1>12, <1>13 DEF IInv

\* A step that changes nothing preserves the invariant.
LEMMA StutterStep == IInv /\ UNCHANGED vars => IInv'
<1> SUFFICES ASSUME IInv, UNCHANGED vars PROVE IInv'
  OBVIOUS
<1>p. /\ phase' = phase /\ request' = request /\ original' = original
      /\ pending' = pending /\ session' = session /\ persistent' = persistent
      /\ archive' = archive /\ library' = library /\ mixed' = mixed
  BY DEF vars
<1>i. TypeOK /\ RowsSound /\ OriginalSound /\ PendingSound /\ RevisitsFaithful
  BY DEF IInv
<1>1. TypeOK' /\ RowsSound' /\ RevisitsFaithful'
  BY <1>i, <1>p DEF TypeOK, RowsSound, RevisitsFaithful
<1>2. OriginalSound' /\ PendingSound'
  BY <1>i, <1>p DEF OriginalSound, PendingSound
<1>3. QED
  BY <1>1, <1>2, <1>p DEF IInv

(***************************************************************************)
(* One copy of each payload.                                               *)
(***************************************************************************)

\* The invariant holds before anything was written.
LEMMA InitCopiesInv == Init => CopiesInv
<1> SUFFICES ASSUME Init PROVE CopiesInv
  OBVIOUS
<1>1. \A p : FullCopies(p) = {}
  BY DEF Init, FullCopies
<1>2. StoredOnce /\ FirstCopyNamed
  <2>1. Cardinality({}) = 0
    BY FS_EmptySet
  <2>2. StoredOnce
    <3>1. \A p : Cardinality(FullCopies(p)) <= 1
      <4>1. TAKE p
      <4>2. Cardinality(FullCopies(p)) = 0
        BY <1>1, <2>1, Zenon
      <4>3. QED
        BY <4>2
    <3>2. QED
      BY <3>1 DEF StoredOnce
  <2>3. FirstCopyNamed
    BY <1>1 DEF FirstCopyNamed
  <2>4. QED
    BY <2>2, <2>3
<1>3. CopiesIndexed /\ FirstIndexed /\ RowsIndexed
  BY <1>1, EmptyIndexEffect DEF Init, CopiesIndexed, FirstIndexed, RowsIndexed
<1>4. PersistentElsewhere /\ TargetsCanonical
  BY EmptyIndexEffect DEF Init, PersistentElsewhere, TargetsCanonical
<1>5. QED
  BY <1>2, <1>3, <1>4 DEF CopiesInv

\* A step that writes nothing and sets no entry changes nothing about copies.
LEMMA UnwrittenCopies ==
  ASSUME CopiesInv, archive' = archive, session'.payloads = session.payloads,
         phase = "done" => phase' = "done"
  PROVE  CopiesIndexed' /\ FirstIndexed' /\ StoredOnce' /\ FirstCopyNamed'
<1>1. \A p : FullCopies(p)' = FullCopies(p)
  BY DEF FullCopies
<1>2. CopiesIndexed' /\ FirstIndexed'
  BY <1>1 DEF CopiesInv, CopiesIndexed, FirstIndexed
<1>3. StoredOnce'
  BY <1>1 DEF CopiesInv, StoredOnce
<1>4. FirstCopyNamed'
  BY <1>1 DEF CopiesInv, FirstCopyNamed
<1>5. QED
  BY <1>2, <1>3, <1>4

\* An original names another archive's record or its payload's entry: canonical
\* lookups come before the identifier of a row.
LEMMA OriginalIsCanonical ==
  ASSUME persistent \in Indexes, PersistentElsewhere,
         NEW overlay \in Indexes, NEW u \in Uris, NEW variant \in Variants,
         overlay.resources[u] # None,
         LET state == overlay.resources[u] IN
         state.digest # None /\ state.id # None
           /\ state.id[1] = "archive" => overlay.payloads[state.digest] # None,
         NEW o, o = OriginalFromState(overlay, overlay.resources[u], variant),
         o # None
  PROVE  Canonically(overlay, o.target.id, o.target.digest)
<1> DEFINE row == overlay.resources[u]
           d == row.digest
<1>1. row \in States
  BY DEF Indexes
<1>2. /\ d \in Payloads
      /\ o.target.digest = d
      /\ \/ o.target.id = overlay.payloads[d] /\ overlay.payloads[d] # None
         \/ o.target.id = persistent.payloads[d] /\ persistent.payloads[d] # None
         \/ o.target.id = row.id /\ row.id # None /\ overlay.payloads[d] = None
  <2>1. o = OriginalFromState(overlay, row, variant)
    OBVIOUS
  <2> HIDE DEF row
  <2>2. QED
    BY <1>1, <2>1, OriginalEffect DEF d
<1>3. None \notin Payloads
  OBVIOUS
<1>4. QED
  BY <1>2, <1>3 DEF PersistentElsewhere, Canonically

\* Preparing a request.
LEMMA PrepareCopies == IInv /\ CopiesInv /\ Prepare => CopiesInv'
<1> SUFFICES ASSUME IInv, CopiesInv, Prepare PROVE CopiesInv'
  OBVIOUS
<1>t. /\ session \in Indexes /\ persistent \in Indexes
      /\ RowsIndexed /\ PersistentElsewhere /\ TargetsCanonical
  BY DEF IInv, TypeOK, CopiesInv
<1>p. /\ phase = "idle" /\ phase' = "sent" /\ pending' = pending
      /\ persistent' = persistent /\ archive' = archive
  BY DEF Prepare
<1>1. PICK r \in Requests :
        IF Revalidatable(r.method)
        THEN /\ session' = Overlaid(r.uri)
             /\ LET state == LookupResource(session', r.uri) IN
                original' = IF state = None THEN None
                            ELSE OriginalFromState(session', state, r.variant)
        ELSE UNCHANGED session /\ original' = None
  BY DEF Prepare
<1>2. r.uri \in Uris /\ r.variant \in Variants
  BY DEF Requests
<1>3. /\ session' \in Indexes
      /\ session'.payloads = session.payloads
      /\ \A w \in Uris : \/ session'.resources[w] = session.resources[w]
                         \/ session'.resources[w] = persistent.resources[w]
  BY <1>1, <1>2, <1>t, OverlaidEffect
<1>4. CopiesIndexed' /\ FirstIndexed' /\ StoredOnce' /\ FirstCopyNamed'
  BY <1>3, <1>p, UnwrittenCopies
<1>5. RowsIndexed'
  <2>1. SUFFICES ASSUME NEW u \in Uris,
                        session'.resources[u] # None,
                        session'.resources[u].digest # None,
                        session'.resources[u].id # None,
                        session'.resources[u].id[1] = "archive"
                 PROVE  session'.payloads[session'.resources[u].digest] # None
    BY DEF RowsIndexed
  <2>2. session'.resources[u] = session.resources[u]
    BY <1>3, <1>t, <2>1 DEF PersistentElsewhere
  <2>3. QED
    BY <1>3, <1>t, <2>1, <2>2 DEF RowsIndexed
<1>6. PersistentElsewhere'
  BY <1>p, <1>t DEF PersistentElsewhere
<1>7. original' # None =>
        Canonically(session', original'.target.id, original'.target.digest)
  <2>1. SUFFICES ASSUME original' # None
                 PROVE  Canonically(session', original'.target.id,
                                    original'.target.digest)
    OBVIOUS
  <2>2. /\ session'.resources[r.uri] # None
        /\ original' = OriginalFromState(session', session'.resources[r.uri], r.variant)
    BY <1>1, <2>1 DEF LookupResource
  <2>3. LET state == session'.resources[r.uri] IN
        state.digest # None /\ state.id # None
          /\ state.id[1] = "archive" => session'.payloads[state.digest] # None
    BY <1>2, <1>5, <2>2 DEF RowsIndexed
  <2>4. QED
    BY <1>2, <1>3, <1>t, <2>1, <2>2, <2>3, OriginalIsCanonical
<1>8. TargetsCanonical'
  BY <1>3, <1>7, <1>p, <1>t DEF TargetsCanonical, Canonically
<1>9. QED
  BY <1>4, <1>5, <1>6, <1>8 DEF CopiesInv

\* The server's answer confirms the original that was asked about, or none.
LEMMA RespondCopies == IInv /\ CopiesInv /\ Respond => CopiesInv'
<1> SUFFICES ASSUME IInv, CopiesInv, Respond PROVE CopiesInv'
  OBVIOUS
<1>t. pending \in Seq(Exchanges) /\ TargetsCanonical /\ RowsIndexed /\ PersistentElsewhere
  BY DEF IInv, TypeOK, CopiesInv
<1>p. /\ phase = "sent" /\ phase' = "idle" /\ original' = None
      /\ session' = session /\ persistent' = persistent /\ archive' = archive
  BY DEF Respond
<1>1. PICK x : /\ x.revalidated # None => original # None /\ x.revalidated = original.target
               /\ pending' = Append(pending, x)
  <2>1. PICK a \in Answers, date \in Dates :
          pending' = Append(pending, Captured(a, date))
    BY DEF Respond
  <2>2. Captured(a, date).revalidated =
            IF original # None /\ a.status = "notModified" THEN original.target ELSE None
    BY DEF Captured
  <2>3. QED
    BY <2>1, <2>2
<1>2. /\ Len(pending) \in Nat
      /\ Len(pending') = Len(pending) + 1
      /\ pending'[Len(pending')] = x
      /\ \A i \in 1 .. Len(pending) : pending'[i] = pending[i]
  BY <1>1, <1>t
<1>3. TargetsCanonical'
  <2>1. SUFFICES ASSUME NEW i \in 1 .. Len(pending'), pending'[i].revalidated # None
                 PROVE  Canonically(session, pending'[i].revalidated.id,
                                    pending'[i].revalidated.digest)
    BY <1>p DEF TargetsCanonical, Canonically
  <2>2. CASE i \in 1 .. Len(pending)
    BY <1>2, <1>t, <2>1, <2>2 DEF TargetsCanonical
  <2>3. CASE i = Len(pending')
    BY <1>1, <1>2, <1>t, <2>1, <2>3 DEF TargetsCanonical
  <2>4. QED
    BY <1>2, <2>2, <2>3
<1>4. CopiesIndexed' /\ FirstIndexed' /\ StoredOnce' /\ FirstCopyNamed'
  BY <1>p, UnwrittenCopies
<1>5. QED
  BY <1>3, <1>4, <1>p, <1>t DEF CopiesInv, RowsIndexed, PersistentElsewhere

\* So do a lost connection, the end of the collection, and no step at all.
LEMMA QuietCopies ==
  IInv /\ CopiesInv /\ (Lose \/ Finish \/ UNCHANGED vars) => CopiesInv'
<1> SUFFICES ASSUME IInv, CopiesInv, Lose \/ Finish \/ UNCHANGED vars PROVE CopiesInv'
  OBVIOUS
<1>1. /\ phase = "done" => phase' = "done"
      /\ original' \in {original, None} /\ pending' = pending
      /\ session' = session /\ persistent' = persistent /\ archive' = archive
  BY DEF Lose, Finish, vars
<1>2. CopiesIndexed' /\ FirstIndexed' /\ StoredOnce' /\ FirstCopyNamed'
  BY <1>1, UnwrittenCopies
<1>3. RowsIndexed /\ PersistentElsewhere /\ TargetsCanonical
  BY DEF CopiesInv
<1>4. RowsIndexed' /\ PersistentElsewhere' /\ TargetsCanonical'
  BY <1>1, <1>3 DEF RowsIndexed, PersistentElsewhere, TargetsCanonical, Canonically
<1>5. QED
  BY <1>2, <1>4 DEF CopiesInv

\* Of an archive's copies of a payload, a new record is at most one more.
LEMMA AppendCopies ==
  ASSUME NEW w \in Records, archive \in Seq(Records), archive' = Append(archive, w),
         NEW q
  PROVE  /\ FullCopies(q) \subseteq 1 .. Len(archive)
         /\ FullCopies(q)' = IF w.refers = None /\ w.whole /\ w.digest = q
                             THEN FullCopies(q) \cup {Len(archive) + 1}
                             ELSE FullCopies(q)
<1>1. /\ Len(archive) \in Nat /\ Len(archive') = Len(archive) + 1
      /\ archive'[Len(archive) + 1] = w
      /\ \A j \in 1 .. Len(archive) : archive'[j] = archive[j]
  OBVIOUS
<1>2. 1 .. Len(archive') = (1 .. Len(archive)) \cup {Len(archive) + 1}
  BY <1>1
<1>3. QED
  BY <1>1, <1>2 DEF FullCopies

\* What a full record's payload is, and what is known of it before it is written.
LEMMA FullWritten ==
  ASSUME session \in Indexes, persistent \in Indexes, NEW x \in Exchanges,
         Written(x).refers = None, Written(x).whole, Written(x).digest # Empty
  PROVE  /\ RevisitKey(x) = Written(x).digest
         /\ Written(x).digest \notin Short =>
               session.payloads[Written(x).digest] = None
<1>1. x.revalidated = None
  <2>1. x.revalidated # None => x.revalidated.id \in Ids
    BY DEF Exchanges, Targets
  <2>2. QED
    BY <2>1, WrittenEffect
<1>2. /\ Written(x).digest = x.payload /\ x.whole
      /\ LookedUp(x) = None
  BY <1>1, WrittenEffect
<1>3. x.payload \in Payloads /\ None \notin Payloads
  BY DEF Exchanges
<1>4. RevisitKey(x) = x.payload
  BY <1>1, <1>2 DEF RevisitKey
<1>5. x.payload \notin Short => LookedUp(x) = Canonical(session, x.payload)
  BY <1>1, <1>3, <1>4 DEF LookedUp
<1>6. x.payload \notin Short => session.payloads[x.payload] = None
  BY <1>2, <1>5 DEF Canonical, LookupPayload
<1>7. QED
  BY <1>2, <1>4, <1>6

\* A revisit written now, of a record of this archive, names the entry of its
\* payload.
LEMMA RevisitWritten ==
  ASSUME session \in Indexes, persistent \in Indexes, PersistentElsewhere,
         NEW x \in Exchanges,
         x.revalidated # None =>
             Canonically(session, x.revalidated.id, x.revalidated.digest),
         Written(x).refers # None, Written(x).refers[1] = "archive"
  PROVE  /\ Written(x).digest \in Payloads
         /\ Written(x).refers = session.payloads[Written(x).digest]
<1>1. CASE x.revalidated # None
  <2>1. x.revalidated.digest \in Payloads
    BY <1>1 DEF Exchanges, Targets
  <2>2. QED
    BY <1>1, <2>1, WrittenEffect DEF Canonically
<1>2. CASE x.revalidated = None
  <2>1. x.payload \in Payloads
    BY DEF Exchanges
  <2>2. Written(x).refers = LookedUp(x) /\ Written(x).digest = x.payload
    BY <1>2, WrittenEffect
  <2>3. \/ LookedUp(x) = session.payloads[x.payload]
        \/ LookedUp(x) = persistent.payloads[x.payload]
    BY <2>2, LookedUpEffect
  <2>4. QED
    BY <2>1, <2>2, <2>3 DEF PersistentElsewhere
<1>3. QED
  BY <1>1, <1>2

\* The entries for this archive's payloads are of records already there.
LEMMA EntriesWithin ==
  ASSUME IInv, NEW q \in Payloads, session.payloads[q] # None,
         session.payloads[q][1] = "archive"
  PROVE  session.payloads[q][2] \in 1 .. Len(archive)
BY DEF IInv, IndexKept, Kept, Holds

\* A record written now leaves the first copies named.
LEMMA AppendNamed ==
  ASSUME IInv, CopiesInv, NEW x \in Exchanges,
         x.revalidated # None =>
             Canonically(session, x.revalidated.id, x.revalidated.digest),
         archive' = Append(archive, Written(x))
  PROVE  FirstCopyNamed'
<1> DEFINE n == Len(archive) + 1
           w == Written(x)
<1>1. /\ session \in Indexes /\ persistent \in Indexes /\ archive \in Seq(Records)
      /\ RevisitsFaithful /\ PersistentElsewhere /\ FirstIndexed /\ FirstCopyNamed
  BY DEF IInv, TypeOK, CopiesInv
<1>2. w \in Records
  BY <1>1, WrittenEffect
<1>3. /\ Len(archive) \in Nat /\ Len(archive') = n /\ archive'[n] = w
      /\ \A j \in 1 .. Len(archive) : archive'[j] = archive[j]
  <2> HIDE DEF w
  <2>1. QED
    BY <1>1, <1>2 DEF w
<1>4. \A q : /\ FullCopies(q) \subseteq 1 .. Len(archive)
             /\ FullCopies(q)' = IF w.refers = None /\ w.whole /\ w.digest = q
                                 THEN FullCopies(q) \cup {n} ELSE FullCopies(q)
  <2>0. archive' = Append(archive, w)
    OBVIOUS
  <2> HIDE DEF w
  <2>1. QED
    BY <1>1, <1>2, <2>0, AppendCopies
<1>5. w.refers # None /\ w.refers[1] = "archive" =>
        w.digest \in Payloads /\ w.refers = session.payloads[w.digest]
  BY <1>1, RevisitWritten
<1> HIDE DEF w
<1>6. SUFFICES ASSUME NEW i \in 1 .. Len(archive'),
                      archive'[i].refers # None, archive'[i].refers[1] = "archive",
                      NEW j \in FullCopies(archive[i].digest)'
               PROVE  archive'[i].refers[2] <= j
  BY DEF FirstCopyNamed
<1>7. CASE i \in 1 .. Len(archive)
  <2>1. archive'[i] = archive[i]
    BY <1>3, <1>7
  <2>2. archive[i].refers[2] \in 1 .. (i - 1)
    BY <1>1, <1>6, <1>7, <2>1 DEF RevisitsFaithful, Holds
  <2>3. j \in FullCopies(archive[i].digest) \/ j = n
    BY <1>4, <1>6, <2>1
  <2>4. CASE j = n
    BY <1>3, <1>7, <2>1, <2>2, <2>4
  <2>5. CASE j \in FullCopies(archive[i].digest)
    BY <1>1, <1>6, <1>7, <2>1, <2>5 DEF FirstCopyNamed
  <2>6. QED
    BY <2>3, <2>4, <2>5
<1>8. CASE i = n
  <2>1. archive'[i] = w
    BY <1>3, <1>8
  <2>2. j \in FullCopies(w.digest)
    BY <1>4, <1>6, <2>1
  <2>3. QED
    BY <1>1, <1>5, <1>6, <2>1, <2>2 DEF FirstIndexed
<1>9. QED
  BY <1>3, <1>7, <1>8

\* Recording an exchange.
LEMMA RecordCopies == IInv /\ CopiesInv /\ Record => CopiesInv'
<1> SUFFICES ASSUME IInv, CopiesInv, Record PROVE CopiesInv'
  OBVIOUS
<1> DEFINE x == Head(pending)
           w == Written(x)
           n == Len(archive) + 1
           key == RevisitKey(x)
<1>i. /\ session \in Indexes /\ persistent \in Indexes /\ archive \in Seq(Records)
      /\ pending \in Seq(Exchanges)
      /\ OriginalSound /\ PendingSound
      /\ CopiesIndexed /\ FirstIndexed /\ RowsIndexed /\ PersistentElsewhere
      /\ TargetsCanonical /\ StoredOnce
  BY DEF IInv, TypeOK, CopiesInv
<1>p. /\ phase \in {"idle", "recording"} /\ phase' \in {"idle", "recording"}
      /\ pending # <<>> /\ pending' = Tail(pending)
      /\ archive' = Append(archive, w) /\ session' = Indexed(x)
      /\ original' = original /\ persistent' = persistent
  BY DEF Record
<1>1. /\ x \in Exchanges /\ ExchangeSound(session, library, archive, mixed, x)
      /\ x.revalidated # None =>
            Canonically(session, x.revalidated.id, x.revalidated.digest)
  <2>1. x = pending[1] /\ 1 \in 1 .. Len(pending) /\ pending[1] \in Exchanges
    BY <1>i, <1>p
  <2>2. QED
    BY <1>i, <2>1 DEF PendingSound, TargetsCanonical
<1>2. w \in Records
  BY <1>1, <1>i, WrittenEffect
<1>3. \A q : /\ FullCopies(q) \subseteq 1 .. Len(archive)
             /\ FullCopies(q)' = IF w.refers = None /\ w.whole /\ w.digest = q
                                 THEN FullCopies(q) \cup {n} ELSE FullCopies(q)
  <2> HIDE DEF w
  <2>1. QED
    BY <1>2, <1>i, <1>p, AppendCopies
<1>4. /\ session' \in Indexes
      /\ \A q \in Payloads :
            \/ session'.payloads[q] = session.payloads[q]
            \/ /\ q = key /\ w.refers = None
               /\ session.payloads[q] = None
               /\ session'.payloads[q] = NextId
      /\ key # None /\ w.refers = None => session'.payloads[key] # None
  <2> HIDE DEF x
  <2>1. QED
    BY <1>1, <1>i, <1>p, IndexedEffect
<1>5. w.refers = None /\ w.whole /\ w.digest # Empty =>
        /\ key = w.digest
        /\ w.digest \notin Short => session.payloads[w.digest] = None
  BY <1>1, <1>i, FullWritten
<1>6. key # None /\ w.refers = None =>
        key \in Payloads \ {Empty}
  <2>1. CASE x.revalidated = None
    BY <1>1, <2>1, KeyEffect
  <2>2. CASE x.revalidated # None
    <3>1. w.refers = x.revalidated.id /\ x.revalidated.id \in Ids
      BY <1>1, <1>i, <2>2, WrittenEffect DEF Exchanges, Targets
    <3>2. QED
      BY <3>1
  <2>3. QED
    BY <2>1, <2>2
<1>7. w.digest \in Payloads /\ w.whole \in BOOLEAN
  BY <1>2 DEF Records
<1>8. None \notin Payloads /\ Len(archive) \in Nat
  BY <1>i
<1>9. FirstCopyNamed'
  <2> HIDE DEF x
  <2>1. QED
    BY <1>1, <1>p, AppendNamed
<1>10. RowsIndexed'
  <2>1. SUFFICES ASSUME NEW u \in Uris,
                        session'.resources[u] # None,
                        session'.resources[u].digest # None,
                        session'.resources[u].id # None,
                        session'.resources[u].id[1] = "archive"
                 PROVE  session'.payloads[session'.resources[u].digest] # None
    BY DEF RowsIndexed
  <2>2. ASSUME session.resources[u] # None,
               session'.resources[u].digest = session.resources[u].digest,
               session'.resources[u].id = session.resources[u].id
        PROVE  session'.payloads[session'.resources[u].digest] # None
    <3>1. session.resources[u] \in States
      BY <1>i, <2>2 DEF Indexes
    <3>2. session.resources[u].digest \in Payloads
      BY <2>1, <2>2, <3>1 DEF States
    <3>3. session.payloads[session.resources[u].digest] # None
      BY <1>i, <2>1, <2>2 DEF RowsIndexed
    <3>4. QED
      BY <1>4, <2>2, <3>2, <3>3
  <2>3. ASSUME x.status = "ok", key # None,
               session'.resources[u].digest = key,
               session'.resources[u].id =
                   IF LookedUp(x) # None THEN LookedUp(x) ELSE NextId
        PROVE  session'.payloads[session'.resources[u].digest] # None
    <3>1. x.revalidated = None
      BY <1>1, <2>3 DEF ExchangeSound
    <3>2. w.refers = LookedUp(x)
      BY <1>1, <1>i, <3>1, WrittenEffect
    <3>3. CASE LookedUp(x) = None
      BY <1>4, <2>3, <3>2, <3>3
    <3>4. CASE LookedUp(x) # None
      <4>1. /\ key = x.payload /\ x.payload \in Payloads
            /\ \/ LookedUp(x) = session.payloads[key]
               \/ LookedUp(x) = persistent.payloads[key]
        BY <1>1, <1>i, <3>4, LookedUpEffect DEF Exchanges
      <4>2. session.payloads[key] # None
        BY <1>i, <2>1, <2>3, <3>4, <4>1 DEF PersistentElsewhere
      <4>3. QED
        BY <1>4, <2>3, <4>1, <4>2
    <3>5. QED
      BY <3>3, <3>4
  <2>4. CASE session'.resources[u] = session.resources[u]
    BY <2>1, <2>2, <2>4
  <2>5. \/ session'.resources[u] = session.resources[u]
        \/ /\ x.status = "ok" /\ key # None
           /\ session'.resources[u].digest = key
           /\ session'.resources[u].id =
                   IF LookedUp(x) # None THEN LookedUp(x) ELSE NextId
        \/ /\ session.resources[u] # None
           /\ session'.resources[u].digest = session.resources[u].digest
           /\ session'.resources[u].id = session.resources[u].id
    <3> HIDE DEF x
    <3>1. CASE u # x.request.uri
      BY <1>1, <1>i, <1>p, <3>1, IndexedEffect
    <3>2. CASE u = x.request.uri
      BY <1>1, <1>i, <1>p, <3>2, IndexedEffect, SMTT(60)
    <3>3. QED
      BY <3>1, <3>2
  <2>6. QED
    BY <2>2, <2>3, <2>4, <2>5
<1>11. original' = None
  BY <1>i, <1>p DEF OriginalSound
<1>12. PersistentElsewhere'
  BY <1>i, <1>p DEF PersistentElsewhere
<1> HIDE DEF x, w, key
<1>13. CopiesIndexed'
  <2>1. SUFFICES ASSUME NEW q \in Payloads \ {Empty}, FullCopies(q)' # {}
                 PROVE  session'.payloads[q] # None
    BY DEF CopiesIndexed
  <2>2. CASE FullCopies(q) # {}
    <3>1. session.payloads[q] # None
      BY <1>i, <1>p, <2>2 DEF CopiesIndexed
    <3>2. QED
      BY <1>4, <3>1
  <2>3. CASE w.refers = None /\ w.whole /\ w.digest = q
    BY <1>4, <1>5, <1>8, <2>3
  <2>4. QED
    BY <1>3, <2>1, <2>2, <2>3
<1>14. FirstIndexed'
  <2>1. SUFFICES ASSUME NEW q \in Payloads,
                        session'.payloads[q] # None,
                        session'.payloads[q][1] = "archive",
                        NEW j \in FullCopies(q)'
                 PROVE  session'.payloads[q][2] <= j
    BY DEF FirstIndexed
  <2>2. j \in FullCopies(q) \/ j = n
    BY <1>3, <2>1
  <2>3. CASE session'.payloads[q] = session.payloads[q]
    <3>1. session.payloads[q][2] \in 1 .. Len(archive)
      BY <2>1, <2>3, EntriesWithin
    <3>2. CASE j = n
      BY <1>8, <2>3, <3>1, <3>2
    <3>3. CASE j \in FullCopies(q)
      BY <1>i, <2>1, <2>3, <3>3 DEF FirstIndexed
    <3>4. QED
      BY <2>2, <3>2, <3>3
  <2>4. CASE /\ q = key /\ w.refers = None
             /\ session.payloads[q] = None /\ session'.payloads[q] = NextId
    <3>1. q \in Payloads \ {Empty}
      BY <1>6, <1>8, <2>4
    <3>2. FullCopies(q) = {}
      BY <1>i, <1>p, <2>4, <3>1 DEF CopiesIndexed
    <3>3. j = n
      BY <2>2, <3>2
    <3>4. session'.payloads[q][2] = n
      BY <2>4 DEF NextId
    <3>5. QED
      BY <1>8, <3>3, <3>4
  <2>5. QED
    BY <1>4, <2>3, <2>4
<1>15. TargetsCanonical'
  <2>1. SUFFICES ASSUME NEW i \in 1 .. Len(pending'), pending'[i].revalidated # None,
                        pending'[i].revalidated.id[1] = "archive"
                 PROVE  pending'[i].revalidated.id =
                            session'.payloads[pending'[i].revalidated.digest]
    BY <1>11 DEF TargetsCanonical, Canonically
  <2>2. /\ i + 1 \in 1 .. Len(pending)
        /\ pending'[i] = pending[i + 1]
        /\ pending[i + 1] \in Exchanges
    BY <1>i, <1>p, <2>1
  <2> DEFINE target == pending[i + 1].revalidated
  <2>3. /\ target # None /\ target.id[1] = "archive"
        /\ pending'[i].revalidated = target
    BY <2>1, <2>2
  <2>4. target \in Targets
    BY <2>2, <2>3 DEF Exchanges
  <2>5. target.id = session.payloads[target.digest]
    BY <1>i, <2>2, <2>3 DEF TargetsCanonical, Canonically
  <2> HIDE DEF target
  <2>6. target.digest \in Payloads /\ target.id # None
    BY <2>4 DEF Targets
  <2>7. session'.payloads[target.digest] = session.payloads[target.digest]
    BY <1>4, <2>5, <2>6
  <2>8. QED
    BY <2>3, <2>5, <2>7
<1>16. StoredOnce'
  <2>1. SUFFICES ASSUME NEW q \in Payloads \ (Short \cup {Empty})
                 PROVE  Cardinality(FullCopies(q)') <= 1
    BY DEF StoredOnce
  <2>2. CASE w.refers = None /\ w.whole /\ w.digest = q
    <3>1. session.payloads[q] = None
      BY <1>5, <2>1, <2>2
    <3>2. FullCopies(q) = {}
      BY <1>i, <1>p, <2>1, <3>1 DEF CopiesIndexed
    <3>3. FullCopies(q)' = {n}
      BY <1>3, <2>2, <3>2
    <3>4. Cardinality({n}) = 1
      BY FS_Singleton
    <3>5. QED
      BY <3>3, <3>4
  <2>3. CASE ~(w.refers = None /\ w.whole /\ w.digest = q)
    <3>1. FullCopies(q)' = FullCopies(q)
      BY <1>3, <2>3
    <3>2. QED
      BY <1>i, <1>p, <3>1 DEF StoredOnce
  <2>4. QED
    BY <2>2, <2>3
<1>17. QED
  BY <1>9, <1>10, <1>12, <1>13, <1>14, <1>15, <1>16 DEF CopiesInv

\* Failing to, which ends the collection.
LEMMA RecordFailsCopies == IInv /\ CopiesInv /\ RecordFails => CopiesInv'
<1> SUFFICES ASSUME IInv, CopiesInv, RecordFails PROVE CopiesInv'
  OBVIOUS
<1> DEFINE x == Head(pending)
<1>i. /\ session \in Indexes /\ persistent \in Indexes /\ archive \in Seq(Records)
      /\ pending \in Seq(Exchanges)
      /\ FirstIndexed /\ RowsIndexed /\ PersistentElsewhere
      /\ OriginalSound /\ TargetsCanonical /\ FirstCopyNamed
  BY DEF IInv, TypeOK, CopiesInv
<1>p. /\ phase \in {"idle", "recording"} /\ phase' = "done"
      /\ pending # <<>> /\ pending' = Tail(pending)
      /\ archive' = archive \/ archive' = Append(archive, Written(x))
      /\ session' = session /\ original' = original /\ persistent' = persistent
  BY DEF RecordFails
<1>1. /\ x \in Exchanges
      /\ x.revalidated # None =>
            Canonically(session, x.revalidated.id, x.revalidated.digest)
  <2>1. x = pending[1] /\ 1 \in 1 .. Len(pending) /\ pending[1] \in Exchanges
    BY <1>i, <1>p
  <2>2. QED
    BY <1>i, <2>1 DEF TargetsCanonical
<1>2. FirstCopyNamed' /\ FirstIndexed'
  <2>1. CASE archive' = archive
    BY <1>i, <1>p, <2>1 DEF FirstCopyNamed, FirstIndexed, FullCopies
  <2>2. CASE archive' = Append(archive, Written(x))
    <3> DEFINE w == Written(x)
    <3>1. w \in Records
      BY <1>1, <1>i, WrittenEffect
    <3>2. FirstCopyNamed'
      <4> HIDE DEF x
      <4>1. QED
        BY <1>1, <2>2, AppendNamed
    <3>3. ASSUME NEW q \in Payloads,
                 session.payloads[q] # None,
                 session.payloads[q][1] = "archive",
                 NEW j \in FullCopies(q)'
          PROVE  session.payloads[q][2] <= j
      <4>1. archive' = Append(archive, w)
        BY <2>2
      <4> HIDE DEF w
      <4>2. j \in FullCopies(q) \/ j = Len(archive) + 1
        BY <1>i, <3>1, <3>3, <4>1, AppendCopies
      <4>3. session.payloads[q][2] \in 1 .. Len(archive)
        BY <3>3, EntriesWithin
      <4>4. Len(archive) \in Nat
        BY <1>i
      <4>5. CASE j \in FullCopies(q)
        BY <1>i, <3>3, <4>5 DEF FirstIndexed
      <4>6. QED
        BY <4>2, <4>3, <4>4, <4>5
    <3>4. FirstIndexed'
      BY <1>p, <3>3 DEF FirstIndexed
    <3>5. QED
      BY <3>2, <3>4
  <2>3. QED
    BY <1>p, <2>1, <2>2
<1>3. CopiesIndexed' /\ StoredOnce'
  BY <1>p DEF CopiesIndexed, StoredOnce
<1>4. RowsIndexed' /\ PersistentElsewhere'
  BY <1>i, <1>p DEF RowsIndexed, PersistentElsewhere
<1>5. TargetsCanonical'
  <2>1. original' = None
    BY <1>i, <1>p DEF OriginalSound
  <2>2. \A i \in 1 .. Len(pending') :
          i + 1 \in 1 .. Len(pending) /\ pending'[i] = pending[i + 1]
    BY <1>i, <1>p
  <2>3. QED
    BY <1>i, <1>p, <2>1, <2>2 DEF TargetsCanonical, Canonically
<1>6. QED
  BY <1>2, <1>3, <1>4, <1>5 DEF CopiesInv

\* Ingesting a record of another archive.
LEMMA IngestCopies == IInv /\ CopiesInv /\ Ingest => CopiesInv'
<1> SUFFICES ASSUME IInv, CopiesInv, Ingest PROVE CopiesInv'
  OBVIOUS
<1>i. persistent \in Indexes /\ Len(library) \in Nat
      /\ RowsIndexed /\ PersistentElsewhere /\ TargetsCanonical
  BY DEF IInv, TypeOK, CopiesInv
<1>p. /\ phase' = phase /\ original' = original /\ pending' = pending
      /\ session' = session /\ archive' = archive
  BY DEF Ingest
<1>1. PICK u \in Uris, digest \in Payloads \cup {None}, date \in Dates,
           get \in BOOLEAN, tag \in Tags \cup {None}, vary \in BOOLEAN :
        persistent' = IndexResponse(persistent, u, digest,
                          <<"library", Len(library) + 1>>, date, get, tag, vary)
  <2>1. PICK u \in Uris, t \in Tags, v \in Variants, date \in Dates,
             tagged \in BOOLEAN, digested \in BOOLEAN, get \in BOOLEAN :
          persistent' = IndexResponse(persistent, u,
                             IF digested THEN Content[u][t][v] ELSE None,
                             <<"library", Len(library) + 1>>, date, get,
                             IF tagged THEN t ELSE None, u \in Varying)
    BY DEF Ingest
  <2> DEFINE digest == IF digested THEN Content[u][t][v] ELSE None
             tag == IF tagged THEN t ELSE None
             vary == u \in Varying
  <2>2. digest \in Payloads \cup {None} /\ tag \in Tags \cup {None} /\ vary \in BOOLEAN
    OBVIOUS
  <2>3. persistent' = IndexResponse(persistent, u, digest,
                          <<"library", Len(library) + 1>>, date, get, tag, vary)
    BY <2>1
  <2> HIDE DEF digest, tag, vary
  <2>4. QED
    BY <2>2, <2>3
<1> DEFINE id == <<"library", Len(library) + 1>>
           inserted == IF digest = None THEN persistent
                       ELSE InsertPayload(persistent, digest, id)
           variance == DeclaredWithoutRequest(vary)
           state == [tag |-> tag, digest |-> digest, id |-> id, observed |-> date,
                     variance |-> variance]
<1>2. persistent' = IF get THEN UpdateRepresentation(inserted, u, state) ELSE inserted
  BY <1>1 DEF IndexResponse
<1>3. id \in Ids /\ id[1] = "library" /\ id # None
  BY <1>i DEF Ids
<1>4. state \in States /\ state.id = id
  <2>1. variance \in Variances
    BY DEF DeclaredWithoutRequest, Variances
  <2> HIDE DEF variance, id
  <2>2. QED
    BY <1>3, <2>1 DEF States
<1> HIDE DEF id
<1>5. /\ inserted \in Indexes
      /\ inserted.resources = persistent.resources
      /\ \A q \in Payloads : \/ inserted.payloads[q] = persistent.payloads[q]
                             \/ inserted.payloads[q] = id
  <2>1. CASE digest = None
    BY <1>i, <2>1
  <2>2. CASE digest # None
    BY <1>3, <1>i, <2>2, InsertEffect
  <2>3. QED
    BY <2>1, <2>2
<1> HIDE DEF inserted, state
<1>6. /\ persistent'.payloads = inserted.payloads
      /\ \A w \in Uris : \/ persistent'.resources[w] = persistent.resources[w]
                         \/ persistent'.resources[w] = state
  <2>1. CASE get
    <3>1. persistent' = UpdateRepresentation(inserted, u, state)
      BY <1>2, <2>1
    <3>2. QED
      BY <1>4, <1>5, <3>1, RepresentationEffect, SMTT(60)
  <2>2. CASE ~get
    BY <1>2, <1>5, <2>2
  <2>3. QED
    BY <2>1, <2>2
<1>7. PersistentElsewhere'
  <2>1. \A q \in Payloads :
          persistent'.payloads[q] # None => persistent'.payloads[q][1] = "library"
    BY <1>3, <1>5, <1>6, <1>i DEF PersistentElsewhere
  <2>2. \A w \in Uris :
          persistent'.resources[w] # None /\ persistent'.resources[w].id # None =>
              persistent'.resources[w].id[1] = "library"
    BY <1>3, <1>4, <1>6, <1>i DEF PersistentElsewhere
  <2>3. QED
    BY <2>1, <2>2 DEF PersistentElsewhere
<1>8. CopiesIndexed' /\ FirstIndexed' /\ StoredOnce' /\ FirstCopyNamed'
  BY <1>p, UnwrittenCopies
<1>9. RowsIndexed' /\ TargetsCanonical'
  BY <1>i, <1>p DEF RowsIndexed, TargetsCanonical, Canonically
<1>10. QED
  BY <1>7, <1>8, <1>9 DEF CopiesInv

(***************************************************************************)
(* The theorems.                                                           *)
(***************************************************************************)

\* IInv holds in every reachable state: what the indexes, the request in flight
\* and the exchanges not yet recorded (client/collection.rs, db/mod.rs) refer to
\* is stored, and their validators belong to their payloads.
THEOREM CollectionInvariant == Spec => []IInv
<1>1. IInv /\ [Next]_vars => IInv'
  BY PrepareStep, RespondStep, LoseStep, RecordStep, RecordFailsStep, FinishStep,
     IngestStep, StutterStep DEF Next, Terminated
<1>2. QED
  BY <1>1, InitIInv, PTL DEF Spec

\* The types of the collection's state; in particular every original has a
\* payload and an identifier (Original::from_state).
THEOREM CollectionTypeCorrect == Spec => []TypeOK
<1>1. IInv => TypeOK
  BY DEF IInv
<1>2. QED
  BY <1>1, CollectionInvariant, PTL

\* Every revisit record that write_exchange writes refers to a complete record of
\* the digest it states, stored before it; and that digest is of what the server's
\* answer stood for, except in a revisit prepared from a row that a late
\* confirmation had updated.
THEOREM CollectionRevisitsFaithful == Spec => []RevisitsFaithful
<1>1. IInv => RevisitsFaithful
  BY DEF IInv
<1>2. QED
  BY <1>1, CollectionInvariant, PTL

\* No row of resource_state mixes the validator of one representation with the
\* payload of another (UPSERT_RESOURCE, update_resource, update_session_index): none
\* of the durable index ever, and of the session's only one that a late confirmation
\* updated, until it is replaced.
THEOREM CollectionRowsSound == Spec => []RowsSound
<1>1. IInv => RowsSound
  BY DEF IInv
<1>2. QED
  BY <1>1, CollectionInvariant, PTL

\* CopiesInv holds in every reachable state: what the session index
\* (client/collection.rs) says of this archive's copies is up to date, and every
\* identifier kept for later names the first of them.
THEOREM CollectionCopies == Spec => []CopiesInv
<1>1. IInv /\ CopiesInv /\ [Next]_vars => CopiesInv'
  BY PrepareCopies, RespondCopies, QuietCopies, RecordCopies, RecordFailsCopies,
     IngestCopies DEF Next, Terminated
<1>2. QED
  BY <1>1, InitCopiesInv, CollectionInvariant, PTL DEF Spec

\* A payload long enough to be referred to is written in full once while the
\* collection records, and a revisit of this archive names the first copy
\* (record_exchanges, lookup_payload).
THEOREM CollectionPayloadsStoredOnce == Spec => []PayloadsStoredOnce
<1>1. CopiesInv => PayloadsStoredOnce
  BY DEF CopiesInv, PayloadsStoredOnce
<1>2. QED
  BY <1>1, CollectionCopies, PTL

=============================================================================
