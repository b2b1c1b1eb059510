------------------------- MODULE RevisitIndexProofs -------------------------
(***************************************************************************)
(* What the operations of the revisit index do to its two tables.          *)
(***************************************************************************)
EXTENDS RevisitIndex, TLAPS

USE IndexAssumption, NoneAssumption

\* INSERT_PAYLOAD adds at most the given identifier, for the given payload,
\* which has one afterwards.
LEMMA InsertEffect ==
  ASSUME NEW index \in Indexes, NEW p \in Payloads, NEW id \in Ids
  PROVE  /\ InsertPayload(index, p, id) \in Indexes
         /\ InsertPayload(index, p, id).resources = index.resources
         /\ \A q \in Payloads :
              \/ InsertPayload(index, p, id).payloads[q] = index.payloads[q]
              \/ /\ q = p /\ index.payloads[q] = None
                 /\ InsertPayload(index, p, id).payloads[q] = id
         /\ InsertPayload(index, p, id).payloads[p] # None
<1>1. CASE index.payloads[p] = None
  BY <1>1 DEF InsertPayload, Indexes
<1>2. CASE index.payloads[p] # None
  BY <1>2 DEF InsertPayload, Indexes
<1>3. QED
  BY <1>1, <1>2

\* Setting a row leaves the other rows and the payloads as they are.
LEMMA RowSet ==
  ASSUME NEW index \in Indexes, NEW u \in Uris, NEW state \in States
  PROVE  LET new == [index EXCEPT !.resources[u] = state] IN
         /\ new \in Indexes
         /\ new.payloads = index.payloads
         /\ new.resources[u] = state
         /\ \A w \in Uris \ {u} : new.resources[w] = index.resources[w]
<1> DEFINE new == [index EXCEPT !.resources[u] = state]
<1>1. new \in Indexes
  BY DEF Indexes
<1>2. new.payloads = index.payloads
  BY DEF Indexes
<1>3. new.resources[u] = state
  BY DEF Indexes
<1>4. \A w \in Uris \ {u} : new.resources[w] = index.resources[w]
  BY DEF Indexes
<1>5. QED
  BY <1>1, <1>2, <1>3, <1>4

\* UPSERT_RESOURCE keeps a newer row or replaces it, and never leaves none.
LEMMA RepresentationEffect ==
  ASSUME NEW index \in Indexes, NEW u \in Uris, NEW state \in States
  PROVE  LET new == UpdateRepresentation(index, u, state) IN
         /\ new \in Indexes
         /\ new.payloads = index.payloads
         /\ \A w \in Uris \ {u} : new.resources[w] = index.resources[w]
         /\ \/ /\ new.resources[u] = state
               /\ index.resources[u] # None =>
                     state.observed >= index.resources[u].observed
            \/ /\ new.resources[u] = index.resources[u] /\ index.resources[u] # None
               /\ ~(state.observed >= index.resources[u].observed)
         /\ index.resources[u] = None => new.resources[u] = state
<1>1. CASE index.resources[u] = None \/ state.observed >= index.resources[u].observed
  <2>1. UpdateRepresentation(index, u, state) =
          [index EXCEPT !.resources[u] = state]
    BY <1>1 DEF UpdateRepresentation
  <2>2. LET new == UpdateRepresentation(index, u, state) IN
        /\ new \in Indexes
        /\ new.payloads = index.payloads
        /\ new.resources[u] = state
        /\ \A w \in Uris \ {u} : new.resources[w] = index.resources[w]
    BY <2>1, RowSet
  <2>3. QED
    BY <1>1, <2>2
<1>2. CASE ~(index.resources[u] = None \/ state.observed >= index.resources[u].observed)
  <2>1. UpdateRepresentation(index, u, state) = index
    BY <1>2 DEF UpdateRepresentation
  <2>2. QED
    BY <1>2, <2>1
<1>3. QED
  BY <1>1, <1>2

\* A confirmation keeps the payload a row names, and gives the row a validator
\* or variance only where the confirmation has one.
LEMMA NotModifiedEffect ==
  ASSUME NEW index \in Indexes, NEW u \in Uris, NEW tag \in Tags \cup {None},
         NEW variance \in Variances \cup {None}, NEW date \in Dates
  PROVE  LET new == UpdateNotModified(index, u, tag, variance, date)
             row == index.resources[u]
             newRow == new.resources[u]
         IN
         /\ new \in Indexes
         /\ new.payloads = index.payloads
         /\ \A w \in Uris \ {u} : new.resources[w] = index.resources[w]
         /\ \/ newRow = row /\ ~(row # None /\ date >= row.observed)
            \/ /\ row # None /\ newRow # None
               /\ newRow.observed = date /\ date >= row.observed
               /\ newRow.digest = row.digest
               /\ newRow.id = row.id
               /\ newRow.tag = IF tag = None THEN row.tag ELSE tag
               /\ newRow.variance = IF variance = None THEN row.variance ELSE variance
<1> DEFINE row == index.resources[u]
           new == UpdateNotModified(index, u, tag, variance, date)
<1>1. CASE row # None /\ date >= row.observed
  <2> DEFINE merged == [row EXCEPT !.tag = IF tag = None THEN @ ELSE tag,
                                   !.observed = date,
                                   !.variance = IF variance = None THEN @ ELSE variance]
  <2>1. new = [index EXCEPT !.resources[u] = merged]
    BY <1>1 DEF UpdateNotModified
  <2>2. row \in States
    BY <1>1 DEF Indexes
  <2>3. merged \in States
    BY <2>2 DEF States
  <2>4. /\ merged.observed = date
        /\ merged.digest = row.digest
        /\ merged.id = row.id
        /\ merged.tag = IF tag = None THEN row.tag ELSE tag
        /\ merged.variance = IF variance = None THEN row.variance ELSE variance
    BY <2>2 DEF States
  <2>5. /\ new \in Indexes
        /\ new.payloads = index.payloads
        /\ \A w \in Uris \ {u} : new.resources[w] = index.resources[w]
        /\ new.resources[u] = merged
    <3> HIDE DEF merged
    <3> QED
      BY <2>1, <2>3, RowSet
  <2>6. merged # None
    BY <2>3
  <2>7. QED
    BY <1>1, <2>4, <2>5, <2>6
<1>2. CASE ~(row # None /\ date >= row.observed)
  <2>1. new = index
    BY <1>2 DEF UpdateNotModified
  <2>2. QED
    BY <1>2, <2>1
<1>3. QED
  BY <1>1, <1>2

=============================================================================
