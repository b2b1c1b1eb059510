---------------------------- MODULE RemoveProofs ----------------------------
(* Theorems about Remove and about Operations, for any file. *)
EXTENDS Remove, Operations, FiniteSetTheorems, SequenceTheorems, TLAPS

LEMMA RecordFields ==
  ASSUME input \in Seq(Records), NEW n \in DOMAIN input
  PROVE  /\ input[n] \in Records
         /\ input[n].type \in {"response", "revisit", "other"}
         /\ input[n].id \in Ids \cup {None}
         /\ input[n].uri \in Uris \cup {None}
         /\ input[n].refers \in Ids \cup {None}
         /\ input[n].links \subseteq Ids
         /\ n \in Nat /\ n >= 1 /\ n <= Len(input)
<1>1. input[n] \in Records /\ n \in Nat /\ n >= 1 /\ n <= Len(input)
  OBVIOUS
<1>2. QED
  BY <1>1 DEF Records

\* A capture holds its revisit.
LEMMA CaptureOfRevisit ==
  ASSUME NEW n \in SameTarget
  PROVE  InCapture(input[n].id)
BY DEF InCapture

\* A capture holds both ends of a link or neither.
LEMMA CaptureLinked ==
  ASSUME NEW n \in DOMAIN input, NEW k \in input[n].links, input[n].id # None
  PROVE  InCapture(input[n].id) <=> InCapture(k)
BY DEF InCapture, Closed

\* A capture is a matter of the file alone.
LEMMA FileUnchanged ==
  ASSUME input' = input
  PROVE  /\ SameTarget' = SameTarget
         /\ \A id : InCapture(id)' <=> InCapture(id)
         /\ \A r : Belongs(r)' <=> Belongs(r)
<1>1. SameTarget' = SameTarget
  BY DEF SameTarget, Original
<1>2. \A S : Closed(S)' <=> Closed(S)
  BY DEF Closed
<1>3. \A id : InCapture(id)' <=> InCapture(id)
  BY <1>1, <1>2 DEF InCapture
<1>4. QED
  BY <1>1, <1>3 DEF Belongs

\* Which pairs a record links.
LEMMA LinkedPairs ==
  ASSUME input \in Seq(Records), NEW n \in DOMAIN input, NEW x, NEW y
  PROVE  <<x, y>> \in Linked(input[n]) <=>
            /\ input[n].id # None
            /\ \/ x = input[n].id /\ y \in input[n].links
               \/ y = input[n].id /\ x \in input[n].links
BY RecordFields DEF Linked

LEMMA LinkedInIds ==
  ASSUME input \in Seq(Records), NEW n \in DOMAIN input
  PROVE  Linked(input[n]) \subseteq Ids \X Ids
BY RecordFields DEF Linked

\* What the collected links say once the whole file is read.
LEMMA LinksRead ==
  ASSUME TypeOK, Collected, phase \in {"walk", "write", "done"}, NEW x, NEW y
  PROVE  <<x, y>> \in links <=>
            \E n \in DOMAIN input : /\ input[n].id # None
                                    /\ \/ x = input[n].id /\ y \in input[n].links
                                       \/ y = input[n].id /\ x \in input[n].links
<1>1. links = UNION {Linked(input[n]) : n \in DOMAIN input}
  BY DEF Collected
<1>2. input \in Seq(Records)
  BY DEF TypeOK
<1>3. <<x, y>> \in links <=> \E n \in DOMAIN input : <<x, y>> \in Linked(input[n])
  BY <1>1
<1>4. QED
  BY <1>2, <1>3, LinkedPairs

\* Identifiers joined by a link are in the same captures.
LEMMA NeighbourInCapture ==
  ASSUME TypeOK, Collected, phase = "walk", NEW id, NEW k \in Neighbours(id), InCapture(id)
  PROVE  InCapture(k)
<1>1. PICK n \in DOMAIN input : /\ input[n].id # None
                                /\ \/ id = input[n].id /\ k \in input[n].links
                                   \/ k = input[n].id /\ id \in input[n].links
  BY LinksRead DEF Neighbours
<1>2. QED
  BY <1>1, CaptureLinked

\* When nothing is left to walk from, what was walked from are the captures.
LEMMA WalkComplete ==
  ASSUME TypeOK, Collected, Walked, phase = "walk", pending = {}
  PROVE  \A id \in Ids : id \in removed <=> InCapture(id)
<1>1. \A id \in removed : InCapture(id)
  BY DEF Walked
<1>2. removed \in SUBSET Ids
  BY DEF TypeOK
<1>3. {input[n].id : n \in SameTarget} \subseteq removed
  BY DEF Walked
<1>4. \A id \in removed : Neighbours(id) \subseteq removed
  BY DEF Walked
<1>5. Closed(removed)
  <2>1. SUFFICES ASSUME NEW n \in DOMAIN input, NEW k \in input[n].links, input[n].id # None
                 PROVE  input[n].id \in removed <=> k \in removed
    BY DEF Closed
  <2>2. input[n].id \in Ids /\ k \in Ids
    BY <2>1, RecordFields DEF TypeOK
  <2>3. <<input[n].id, k>> \in links /\ <<k, input[n].id>> \in links
    BY <2>1, LinksRead
  <2>4. k \in Neighbours(input[n].id) /\ input[n].id \in Neighbours(k)
    BY <2>2, <2>3 DEF Neighbours
  <2>5. QED
    BY <1>4, <2>4
<1>6. QED
  BY <1>1, <1>2, <1>3, <1>5 DEF InCapture

\* What the second pass asks of a record.
LEMMA RemovedBelongs ==
  ASSUME TypeOK, NEW n \in DOMAIN input, \A id \in Ids : id \in removed <=> InCapture(id)
  PROVE  IsRemoved(input[n]) <=> Belongs(input[n])
<1>1. /\ input[n].id \in Ids \cup {None}
      /\ input[n].links \subseteq Ids
  BY RecordFields DEF TypeOK
<1>2. None \notin removed /\ removed \subseteq Ids
  BY NoneAssumption DEF TypeOK
<1>3. input[n].id \in removed <=> input[n].id # None /\ InCapture(input[n].id)
  BY <1>1, <1>2
<1>4. input[n].links \cap removed # {} <=> \E k \in input[n].links : InCapture(k)
  BY <1>1
<1>5. QED
  BY <1>3, <1>4 DEF IsRemoved, Belongs

-----------------------------------------------------------------------------
LEMMA InitInv == Init => IInv
<1>1. SUFFICES ASSUME Init PROVE IInv
  OBVIOUS
<1>2. input \in Seq(Records) /\ Len(input) \in Nat /\ 1 .. at = {}
  BY <1>1, InputAssumption DEF Init
<1>3. TypeOK
  BY <1>1, <1>2 DEF Init, TypeOK
<1>4. Collected
  BY <1>1, <1>2 DEF Init, Collected
<1>5. Walked /\ Written
  BY <1>1 DEF Init, Walked, Written
<1>6. QED
  BY <1>3, <1>4, <1>5 DEF IInv

LEMMA CollectInv == IInv /\ Collect => IInv'
<1> SUFFICES ASSUME IInv, Collect PROVE IInv'
  OBVIOUS
<1> DEFINE n == at + 1
           r == input[n]
<1>1. TypeOK /\ Collected /\ Walked /\ Written
  BY DEF IInv
<1>2. /\ phase = "collect" /\ phase' = "collect" /\ at' = at + 1
      /\ input' = input /\ pending' = pending /\ removed' = removed /\ out' = out
      /\ at \in Nat /\ n \in DOMAIN input /\ n \notin 1 .. at
      /\ 1 .. at' = (1 .. at) \cup {n}
      /\ \A k \in 1 .. at : k <= n
      /\ input \in Seq(Records)
  BY <1>1 DEF Collect, TypeOK
<1>3. /\ r \in Records
      /\ r.id \in Ids \cup {None} /\ r.uri \in Uris \cup {None}
  BY <1>2, RecordFields
<1>4. /\ links' = links \cup Linked(r)
      /\ revisits' = IF IsCandidate(r) THEN revisits \cup {r} ELSE revisits
      /\ responses' = IF IsOriginal(r) /\ responses[r.id] = None
                      THEN [responses EXCEPT ![r.id] = r.uri]
                      ELSE responses
  BY DEF Collect
<1>5. Linked(r) \subseteq Ids \X Ids
  BY <1>2, LinkedInIds
<1> HIDE DEF n, r
<1>6. TypeOK'
  <2>1. responses' \in [Ids -> Uris \cup {None}]
    BY <1>1, <1>3, <1>4 DEF TypeOK, IsOriginal
  <2>2. revisits' \subseteq Records /\ links' \subseteq Ids \X Ids
    BY <1>1, <1>3, <1>4, <1>5 DEF TypeOK
  <2>3. at' \in 0 .. Len(input')
    BY <1>2 DEF n
  <2>4. QED
    BY <1>1, <1>2, <2>1, <2>2, <2>3 DEF TypeOK
<1>7. Collected'
  <2>1. /\ links = UNION {Linked(input[k]) : k \in 1 .. at}
        /\ revisits = {input[k] : k \in {j \in 1 .. at : IsCandidate(input[j])}}
    BY <1>1, <1>2 DEF Collected
  <2>2. links' = UNION {Linked(input[k]) : k \in 1 .. at'}
    BY <1>2, <1>4, <2>1 DEF r
  <2>3. revisits' = {input[k] : k \in {j \in 1 .. at' : IsCandidate(input[j])}}
    BY <1>2, <1>4, <2>1 DEF r
  <2>4. ASSUME NEW id \in Ids
        PROVE  LET same == {k \in 1 .. at' : IsOriginal(input[k]) /\ input[k].id = id}
               IN  \/ same = {} /\ responses'[id] = None
                   \/ \E j \in same : /\ \A k \in same : j <= k
                                      /\ responses'[id] = input[j].uri
    <3> DEFINE old == {k \in 1 .. at : IsOriginal(input[k]) /\ input[k].id = id}
               new == {k \in 1 .. at' : IsOriginal(input[k]) /\ input[k].id = id}
    <3>1. \/ old = {} /\ responses[id] = None
          \/ \E j \in old : /\ \A k \in old : j <= k
                            /\ responses[id] = input[j].uri
      BY <1>1, <1>2 DEF Collected
    <3>2. /\ new = IF IsOriginal(r) /\ r.id = id THEN old \cup {n} ELSE old
          /\ old \subseteq 1 .. at
      BY <1>2 DEF r
    <3>3. \A j \in old : input[j].uri # None
      BY DEF IsOriginal
    <3>4. responses'[id] = IF IsOriginal(r) /\ r.id = id /\ responses[id] = None
                           THEN r.uri ELSE responses[id]
      BY <1>1, <1>3, <1>4 DEF TypeOK
    <3>5. \A j \in old : j <= n
      BY <1>2, <3>2
    <3> HIDE DEF old, new
    <3>6. CASE IsOriginal(r) /\ r.id = id /\ responses[id] = None
      <4>1. old = {}
        BY <3>1, <3>3, <3>6
      <4>2. new = {n} /\ responses'[id] = input[n].uri /\ n <= n
        BY <1>2, <3>2, <3>4, <3>6, <4>1 DEF r, n
      <4>3. QED
        BY <4>2 DEF new
    <3>7. CASE IsOriginal(r) /\ r.id = id /\ responses[id] # None
      <4>1. PICK j \in old : /\ \A k \in old : j <= k
                             /\ responses[id] = input[j].uri
        BY <3>1, <3>7
      <4>2. j \in new /\ (\A k \in new : j <= k) /\ responses'[id] = input[j].uri
        BY <3>2, <3>4, <3>5, <3>7, <4>1
      <4>3. QED
        BY <4>2 DEF new
    <3>8. CASE ~(IsOriginal(r) /\ r.id = id)
      <4>1. new = old /\ responses'[id] = responses[id]
        BY <3>2, <3>4, <3>8
      <4>2. QED
        BY <3>1, <4>1 DEF new
    <3>9. QED
      BY <3>6, <3>7, <3>8
  <2>5. QED
    BY <1>2, <2>2, <2>3, <2>4 DEF Collected
<1>8. Walked' /\ Written'
  BY <1>1, <1>2 DEF Walked, Written
<1>9. QED
  BY <1>6, <1>7, <1>8 DEF IInv

\* The walk starts from the revisits to be removed.
LEMMA StartWalkInv == IInv /\ StartWalk => IInv'
<1> SUFFICES ASSUME IInv, StartWalk PROVE IInv'
  OBVIOUS
<1>1. TypeOK /\ Collected /\ Walked /\ Written
  BY DEF IInv
<1>2. /\ phase = "collect" /\ phase' = "walk" /\ at = Len(input)
      /\ UNCHANGED <<input, at, responses, revisits, links, removed, out>>
      /\ input \in Seq(Records)
      /\ 1 .. at = DOMAIN input
      /\ removed = {} /\ out = <<>>
  BY <1>1 DEF StartWalk, TypeOK, Walked, Written
<1>3. pending' = {r.id : r \in {q \in revisits : responses[q.refers] = q.uri}}
  BY DEF StartWalk, Start
<1>4. revisits = {input[k] : k \in {j \in DOMAIN input : IsCandidate(input[j])}}
  BY <1>1, <1>2 DEF Collected
<1>5. ASSUME NEW m \in DOMAIN input, IsCandidate(input[m])
      PROVE  responses[input[m].refers] = input[m].uri <=> Original(input[m])
  <2> DEFINE same == {k \in DOMAIN input : IsOriginal(input[k]) /\ input[k].id = input[m].refers}
  <2>1. input[m].refers \in Ids /\ input[m].uri # None
    BY <1>2, <1>5, RecordFields DEF IsCandidate
  <2>2. \/ same = {} /\ responses[input[m].refers] = None
        \/ \E j \in same : /\ \A k \in same : j <= k
                           /\ responses[input[m].refers] = input[j].uri
    BY <1>1, <1>2, <2>1 DEF Collected
  <2>3. same \subseteq Nat
    BY <1>2
  <2>4. \A i, j \in same : (\A k \in same : i <= k) /\ (\A k \in same : j <= k) => i = j
    <3> HIDE DEF same
    <3>1. SUFFICES ASSUME NEW i \in same, NEW j \in same, i <= j, j <= i PROVE i = j
      OBVIOUS
    <3>2. QED
      BY <2>3, <3>1
  <2>5. Original(input[m]) <=> \E j \in same : /\ \A k \in same : j <= k
                                               /\ input[j].uri = input[m].uri
    BY DEF Original
  <2> HIDE DEF same
  <2>6. QED
    BY <2>1, <2>2, <2>4, <2>5
<1>6. pending' = {input[m].id : m \in SameTarget}
  BY <1>3, <1>4, <1>5 DEF SameTarget
<1>7. pending' \subseteq Ids
  <2>1. \A m \in SameTarget : input[m].id \in Ids
    BY <1>2, RecordFields DEF SameTarget, IsCandidate
  <2>2. QED
    BY <1>6, <2>1
<1>8. TypeOK'
  BY <1>1, <1>2, <1>7 DEF TypeOK
<1>9. Collected'
  BY <1>1, <1>2 DEF Collected
<1>10. Walked'
  <2>1. \A id \in pending' : InCapture(id)
    BY <1>6, CaptureOfRevisit
  <2>2. SameTarget' = SameTarget /\ \A id : InCapture(id)' <=> InCapture(id)
    BY <1>2, FileUnchanged
  <2>3. {input'[m].id : m \in SameTarget'} \subseteq pending'
    BY <1>2, <1>6, <2>2
  <2>4. QED
    BY <1>2, <2>1, <2>2, <2>3 DEF Walked
<1>11. Written'
  BY <1>2 DEF Written
<1>12. QED
  BY <1>8, <1>9, <1>10, <1>11 DEF IInv

LEMMA WalkInv == IInv /\ Walk => IInv'
<1> SUFFICES ASSUME IInv, Walk PROVE IInv'
  OBVIOUS
<1>1. TypeOK /\ Collected /\ Walked /\ Written
  BY DEF IInv
<1>2. /\ phase = "walk" /\ phase' = phase
      /\ UNCHANGED <<input, at, responses, revisits, links, out>>
  BY DEF Walk
<1>3. PICK id \in pending : /\ removed' = removed \cup {id}
                            /\ pending' = (pending \ {id}) \cup Extended(id)
  BY DEF Walk
<1>4. Extended(id) \subseteq Neighbours(id) /\ Neighbours(id) \subseteq Ids
  BY DEF Extended, Neighbours
<1>5. TypeOK'
  BY <1>1, <1>2, <1>3, <1>4 DEF TypeOK
<1>6. Collected'
  BY <1>1, <1>2 DEF Collected
<1>7. Walked'
  <2>1. /\ {input[n].id : n \in SameTarget} \subseteq pending \cup removed
        /\ \A k \in pending \cup removed : InCapture(k)
        /\ \A k \in removed : Neighbours(k) \subseteq pending \cup removed
    BY <1>1, <1>2 DEF Walked
  <2>2. SameTarget' = SameTarget /\ \A k : InCapture(k)' <=> InCapture(k)
    BY <1>2, FileUnchanged
  <2>3. \A k : Neighbours(k)' = Neighbours(k)
    BY <1>2 DEF Neighbours
  <2>4. pending \cup removed \subseteq pending' \cup removed'
    BY <1>3
  <2>5. \A k \in pending' \cup removed' : InCapture(k)
    BY <1>1, <1>2, <1>3, <1>4, <2>1, NeighbourInCapture
  <2>6. \A k \in removed' : Neighbours(k) \subseteq pending' \cup removed'
    <3>1. CASE id \in removed
      BY <1>3, <2>1, <2>4, <3>1
    <3>2. CASE id \notin removed
      BY <1>3, <2>1, <2>4, <3>2 DEF Extended
    <3>3. QED
      BY <3>1, <3>2
  <2>7. {input'[n].id : n \in SameTarget'} \subseteq pending' \cup removed'
    BY <1>2, <2>1, <2>2, <2>4
  <2>8. QED
    BY <1>2, <2>2, <2>3, <2>5, <2>6, <2>7 DEF Walked
<1>8. Written'
  BY <1>1, <1>2 DEF Written
<1>9. QED
  BY <1>5, <1>6, <1>7, <1>8 DEF IInv

LEMMA StartWriteInv == IInv /\ StartWrite => IInv'
<1> SUFFICES ASSUME IInv, StartWrite PROVE IInv'
  OBVIOUS
<1>1. TypeOK /\ Collected /\ Walked /\ Written
  BY DEF IInv
<1>2. /\ phase = "walk" /\ phase' = "write" /\ pending = {} /\ at' = 0
      /\ UNCHANGED <<input, responses, revisits, links, pending, removed, out>>
      /\ out = <<>> /\ Len(input) \in Nat
  BY <1>1 DEF StartWrite, TypeOK, Written
<1>3. TypeOK' /\ Collected'
  BY <1>1, <1>2 DEF TypeOK, Collected
<1>4. Walked'
  <2>1. \A id \in Ids : id \in removed <=> InCapture(id)
    BY <1>1, <1>2, WalkComplete
  <2>2. \A id : InCapture(id)' <=> InCapture(id)
    BY <1>2, FileUnchanged
  <2>3. QED
    BY <1>2, <2>1, <2>2 DEF Walked
<1>5. Written'
  BY <1>2 DEF Written
<1>6. QED
  BY <1>3, <1>4, <1>5 DEF IInv

LEMMA WriteInv == IInv /\ Write => IInv'
<1> SUFFICES ASSUME IInv, Write PROVE IInv'
  OBVIOUS
<1> DEFINE n == at + 1
<1>1. TypeOK /\ Collected /\ Walked /\ Written
  BY DEF IInv
<1>2. /\ phase = "write" /\ phase' = "write" /\ at' = n
      /\ UNCHANGED <<input, responses, revisits, links, pending, removed>>
      /\ at \in Nat /\ n \in DOMAIN input /\ n <= Len(input)
      /\ out \in Seq(Nat)
      /\ out' = IF IsRemoved(input[n]) THEN out ELSE Append(out, n)
  BY <1>1 DEF Write, TypeOK
<1>3. TypeOK' /\ Collected'
  BY <1>1, <1>2 DEF TypeOK, Collected
<1>4. /\ \A id : InCapture(id)' <=> InCapture(id)
      /\ \A r : Belongs(r)' <=> Belongs(r)
  BY <1>2, FileUnchanged
<1>5. Walked'
  BY <1>1, <1>2, <1>4 DEF Walked
<1>6. /\ \A i \in DOMAIN out : out[i] \in 1 .. at
      /\ \A i, j \in DOMAIN out : i < j => out[i] < out[j]
      /\ \A k \in 1 .. at : Belongs(input[k]) <=> ~ \E i \in DOMAIN out : out[i] = k
  BY <1>1, <1>2 DEF Written
<1>7. IsRemoved(input[n]) <=> Belongs(input[n])
  BY <1>1, <1>2, RemovedBelongs DEF Walked
<1> HIDE DEF n
<1>8. 1 .. n = (1 .. at) \cup {n} /\ n \in Nat /\ \A k \in 1 .. at : k < n
  BY <1>2 DEF n
<1>9. /\ \A i \in DOMAIN out' : out'[i] \in 1 .. n
      /\ \A i, j \in DOMAIN out' : i < j => out'[i] < out'[j]
      /\ \A k \in 1 .. n : Belongs(input[k]) <=> ~ \E i \in DOMAIN out' : out'[i] = k
  <2>1. CASE IsRemoved(input[n])
    <3>1. out' = out
      BY <1>2, <2>1
    <3>2. ~ \E i \in DOMAIN out : out[i] = n
      BY <1>6, <1>8
    <3>3. QED
      BY <1>6, <1>7, <1>8, <2>1, <3>1, <3>2
  <2>2. CASE ~IsRemoved(input[n])
    <3> DEFINE l == Len(out) + 1
    <3>1. /\ out' = Append(out, n)
          /\ l \in Nat /\ Len(out) \in Nat /\ DOMAIN out = 1 .. Len(out)
          /\ DOMAIN out' = DOMAIN out \cup {l}
          /\ \A i \in DOMAIN out : out'[i] = out[i] /\ i < l
          /\ out'[l] = n
      BY <1>2, <1>8, <2>2
    <3> HIDE DEF l
    <3>2. \A i \in DOMAIN out' : out'[i] \in 1 .. n
      BY <1>6, <1>8, <3>1
    <3>3. ASSUME NEW i \in DOMAIN out', NEW j \in DOMAIN out', i < j PROVE out'[i] < out'[j]
      <4>1. i \in DOMAIN out
        BY <3>1, <3>3
      <4>2. CASE j = l
        BY <1>6, <1>8, <3>1, <4>1, <4>2
      <4>3. CASE j # l
        BY <1>6, <3>1, <3>3, <4>1, <4>3
      <4>4. QED
        BY <4>2, <4>3
    <3>4. ASSUME NEW k \in 1 .. n
          PROVE  Belongs(input[k]) <=> ~ \E i \in DOMAIN out' : out'[i] = k
      <4>1. CASE k = n
        BY <1>7, <2>2, <3>1, <4>1
      <4>2. CASE k # n
        BY <1>6, <1>8, <3>1, <4>2
      <4>3. QED
        BY <4>1, <4>2
    <3>5. QED
      BY <3>2, <3>3, <3>4
  <2>3. QED
    BY <2>1, <2>2
<1>10. Written'
  BY <1>2, <1>4, <1>9 DEF Written
<1>11. QED
  BY <1>3, <1>5, <1>10 DEF IInv

LEMMA EndInv == IInv /\ (Finish \/ Fail \/ UNCHANGED vars) => IInv'
<1> SUFFICES ASSUME IInv, Finish \/ Fail \/ UNCHANGED vars PROVE IInv'
  OBVIOUS
<1>1. TypeOK /\ Collected /\ Walked /\ Written
  BY DEF IInv
<1>2. /\ UNCHANGED <<input, at, responses, revisits, links, pending, removed, out>>
      /\ \/ phase = "write" /\ at = Len(input) /\ phase' = "done"
         \/ phase' = "failed"
         \/ phase' = phase
  BY DEF Finish, Fail, vars
<1>3. /\ \A id : InCapture(id)' <=> InCapture(id)
      /\ SameTarget' = SameTarget
      /\ \A r : Belongs(r)' <=> Belongs(r)
      /\ \A id : Neighbours(id)' = Neighbours(id)
  BY <1>2, FileUnchanged DEF Neighbours
<1>4. TypeOK'
  BY <1>1, <1>2 DEF TypeOK
<1>5. Collected'
  BY <1>1, <1>2 DEF Collected
<1>6. Walked'
  BY <1>1, <1>2, <1>3 DEF Walked
<1>7. Written'
  BY <1>1, <1>2, <1>3 DEF Written
<1>8. QED
  BY <1>4, <1>5, <1>6, <1>7 DEF IInv

\* IInv: what was collected is what the records read so far say, the walk stays in
\* the captures and leaves no link out, and what was written are the records of
\* no capture (remove.rs, same_target_revisits and same_target_captures).
THEOREM RemoveInvariant == Spec => []IInv
<1>1. IInv /\ [Next]_vars => IInv'
  BY CollectInv, StartWalkInv, WalkInv, StartWriteInv, WriteInv, EndInv DEF Next
<1>2. QED
  BY <1>1, InitInv, PTL DEF Spec

\* RemovesCaptures: of any file, exactly the records of the captures of revisits
\* of their own target are left out (remove.rs, same_target_revisits).
THEOREM RemovesExactly == Spec => []RemovesCaptures
<1>1. ASSUME IInv PROVE RemovesCaptures
  <2>1. SUFFICES ASSUME phase = "done"
        PROVE  /\ \A n \in DOMAIN input :
                     Belongs(input[n]) <=> ~ \E i \in DOMAIN out : out[i] = n
               /\ \A i, j \in DOMAIN out : i < j => out[i] < out[j]
    BY DEF RemovesCaptures
  <2>2. at = Len(input) /\ DOMAIN input = 1 .. at
    BY <1>1, <2>1 DEF IInv, TypeOK, Written
  <2>3. QED
    BY <1>1, <2>1, <2>2 DEF IInv, Written
<1>2. QED
  BY <1>1, RemoveInvariant, PTL

\* ResponsesKept: when no link joins the captures of two responses or revisits, no
\* response is left out (remove.rs, same_target_revisits).
THEOREM RemoveKeepsResponses == Spec => []ResponsesKept
<1>1. ASSUME IInv, RemovesCaptures PROVE ResponsesKept
  <2>1. SUFFICES ASSUME phase = "done", CapturesApart,
                        NEW n \in DOMAIN input, input[n].type = "response"
                 PROVE  ~Belongs(input[n])
    BY <1>1 DEF RemovesCaptures, ResponsesKept
  <2>2. PICK capture \in [Ids -> Ids] :
          \A m \in DOMAIN input :
            /\ input[m].id # None
            /\ \A k \in input[m].links : capture[k] = capture[input[m].id]
            /\ \A l \in DOMAIN input :
                  input[m].type # "other" /\ input[l].type # "other" /\ m # l =>
                     capture[input[m].id] # capture[input[l].id]
    BY <2>1 DEF CapturesApart
  <2> DEFINE S == {id \in Ids : \E m \in SameTarget : capture[id] = capture[input[m].id]}
  <2>3. \A m \in DOMAIN input : input[m].id \in Ids /\ input[m].links \subseteq Ids
    BY <1>1, <2>2, RecordFields DEF IInv, TypeOK
  <2>4. SameTarget \subseteq DOMAIN input /\ \A m \in SameTarget : input[m].type = "revisit"
    BY DEF SameTarget, IsCandidate
  <2>5. {input[m].id : m \in SameTarget} \subseteq S
    BY <2>3, <2>4
  <2>6. Closed(S)
    BY <2>2, <2>3 DEF Closed
  <2>7. S \in SUBSET Ids
    OBVIOUS
  <2>8. \A id : InCapture(id) => id \in S
    BY <2>5, <2>6, <2>7 DEF InCapture
  <2>9. input[n].id \notin S
    <3>1. SUFFICES ASSUME NEW m \in SameTarget, capture[input[n].id] = capture[input[m].id]
                   PROVE  FALSE
      OBVIOUS
    <3>2. m \in DOMAIN input /\ m # n /\ input[m].type # "other" /\ input[n].type # "other"
      BY <2>1, <2>4
    <3>3. QED
      BY <2>2, <3>1, <3>2
  <2>10. \A k \in input[n].links : k \notin S
    BY <2>2, <2>3, <2>9
  <2>11. QED
    BY <2>8, <2>9, <2>10 DEF Belongs
<1>2. QED
  BY <1>1, RemoveInvariant, RemovesExactly, PTL

\* CapturesRemoved: the file written is what remove.rs promises of it
\* (same_target_revisits).
THEOREM RemoveKeepsItsPromise == Spec => []CapturesRemoved
<1>. QED
  BY RemovesExactly, RemoveKeepsResponses, PTL DEF CapturesRemoved
-----------------------------------------------------------------------------
\* Operations. Counting what comes before numbers the elements of a finite set.
IsStrictOrder(R, S) ==
  /\ \A i \in S : <<i, i>> \notin R
  /\ \A i, j \in S : i # j => <<i, j>> \in R \/ <<j, i>> \in R
  /\ \A i, j, k \in S : <<i, j>> \in R /\ <<j, k>> \in R => <<i, k>> \in R

RankIn(R, S, i) == Cardinality({j \in S : <<j, i>> \in R})

\* The counts are different and leave none of the numbers out.
LEMMA RankedOnce ==
  ASSUME NEW S, IsFiniteSet(S), NEW R, IsStrictOrder(R, S)
  PROVE  /\ Cardinality(S) \in Nat
         /\ \A i \in S : RankIn(R, S, i) \in 0..(Cardinality(S) - 1)
         /\ \A i, k \in S : <<i, k>> \in R => RankIn(R, S, i) < RankIn(R, S, k)
         /\ \A k \in 1..Cardinality(S) : \E i \in S : RankIn(R, S, i) = k - 1
<1> DEFINE Before(i) == {j \in S : <<j, i>> \in R}
<1>0. Cardinality(S) \in Nat
  BY FS_CardinalityType
<1>1. \A i \in S : IsFiniteSet(Before(i)) /\ Cardinality(Before(i)) \in Nat
  <2>1. TAKE i \in S
  <2>2. Before(i) \in SUBSET S
    OBVIOUS
  <2>3. IsFiniteSet(Before(i))
    BY <2>2, FS_Subset
  <2>4. QED
    BY <2>3, FS_CardinalityType
<1>2. \A i, k \in S : <<i, k>> \in R => Cardinality(Before(i)) < Cardinality(Before(k))
  <2>1. SUFFICES ASSUME NEW i \in S, NEW k \in S, <<i, k>> \in R
                 PROVE  Cardinality(Before(i)) < Cardinality(Before(k))
    OBVIOUS
  <2>2. Before(i) \cup {i} \in SUBSET Before(k)
    BY <2>1 DEF IsStrictOrder
  <2>3. Cardinality(Before(i) \cup {i}) = Cardinality(Before(i)) + 1
    <3>1. i \notin Before(i)
      BY DEF IsStrictOrder
    <3>2. IsFiniteSet(Before(i))
      BY <1>1
    <3> HIDE DEF Before
    <3>3. QED
      BY <3>1, <3>2, FS_AddElement
  <2>4. IsFiniteSet(Before(k)) /\ Cardinality(Before(k)) \in Nat /\ Cardinality(Before(i)) \in Nat
    BY <1>1
  <2> HIDE DEF Before
  <2>5. Cardinality(Before(i) \cup {i}) <= Cardinality(Before(k))
    BY <2>2, <2>4, FS_Subset
  <2>6. QED
    BY <2>3, <2>4, <2>5
<1>3. \A i \in S : Cardinality(Before(i)) \in 0..(Cardinality(S) - 1)
  <2>1. TAKE i \in S
  <2>2. Before(i) \in SUBSET (S \ {i})
    BY DEF IsStrictOrder
  <2>3. IsFiniteSet(S \ {i}) /\ Cardinality(S \ {i}) = Cardinality(S) - 1
    BY FS_RemoveElement
  <2>4. Cardinality(Before(i)) \in Nat
    BY <1>1
  <2> HIDE DEF Before
  <2>5. Cardinality(Before(i)) <= Cardinality(S \ {i})
    BY <2>2, <2>3, FS_Subset
  <2>6. QED
    BY <2>3, <2>4, <2>5, <1>0
<1>4. \A k \in 1..Cardinality(S) : \E i \in S : Cardinality(Before(i)) = k - 1
  <2> DEFINE T == 0..(Cardinality(S) - 1)
             rank == [i \in S |-> Cardinality(Before(i))]
  <2>1. IsFiniteSet(T) /\ Cardinality(T) = Cardinality(S)
    <3>1. PICK n \in Nat : n = Cardinality(S)
      BY <1>0
    <3>2. 0 \in Int /\ n - 1 \in Int
      OBVIOUS
    <3>3. IsFiniteSet(0..(n - 1)) /\ Cardinality(0..(n - 1)) = IF 0 > n - 1 THEN 0 ELSE n - 1 - 0 + 1
      BY <3>2, FS_Interval
    <3>4. (IF 0 > n - 1 THEN 0 ELSE n - 1 - 0 + 1) = n
      OBVIOUS
    <3>5. QED
      BY <3>1, <3>3, <3>4
  <2>2. \A i, j \in S : i # j => Cardinality(Before(i)) # Cardinality(Before(j))
    <3>1. SUFFICES ASSUME NEW i \in S, NEW j \in S, i # j
                   PROVE  Cardinality(Before(i)) # Cardinality(Before(j))
      OBVIOUS
    <3>2. Cardinality(Before(i)) \in Nat /\ Cardinality(Before(j)) \in Nat
      BY <1>1
    <3>3. <<i, j>> \in R \/ <<j, i>> \in R
      BY <3>1 DEF IsStrictOrder
    <3> HIDE DEF Before
    <3>4. Cardinality(Before(i)) < Cardinality(Before(j)) \/ Cardinality(Before(j)) < Cardinality(Before(i))
      BY <3>3, <1>2
    <3>5. QED
      BY <3>2, <3>4
  <2>3. rank \in Injection(S, T)
    <3> HIDE DEF Before
    <3>1. rank \in [S -> T]
      BY <1>3
    <3>2. \A i, j \in S : rank[i] = rank[j] => i = j
      BY <2>2
    <3>3. DOMAIN rank = S
      OBVIOUS
    <3> HIDE DEF rank, T
    <3>4. QED
      BY <3>1, <3>2, <3>3 DEF Injection, IsInjective
  <2>4. rank \in Surjection(S, T)
    <3> HIDE DEF T, rank
    <3>1. QED
      BY <2>1, <2>3, FS_Injection
  <2>5. SUFFICES ASSUME NEW k \in 1..Cardinality(S) PROVE \E i \in S : Cardinality(Before(i)) = k - 1
    OBVIOUS
  <2>6. k - 1 \in T
    BY <1>0
  <2>7. \E i \in S : rank[i] = k - 1
    <3> HIDE DEF T, rank
    <3>1. QED
      BY <2>4, <2>6 DEF Surjection
  <2>8. QED
    BY <2>7
<1>5. \A i : RankIn(R, S, i) = Cardinality(Before(i))
  BY DEF RankIn
<1> HIDE DEF Before
<1>6. QED
  BY <1>0, <1>2, <1>3, <1>4, <1>5

\* Places in their order.
LEMMA PlacesInOrder ==
  ASSUME NEW S \in SUBSET Nat, IsFiniteSet(S)
  PROVE  /\ Cardinality(S) \in Nat
         /\ InOrder(S) \in [1..Cardinality(S) -> S]
         /\ \A k \in 1..Cardinality(S) : Cardinality({j \in S : j < InOrder(S)[k]}) = k - 1
         /\ \A i \in S : \E k \in 1..Cardinality(S) : InOrder(S)[k] = i
         /\ \A i, k \in S : i < k => Cardinality({j \in S : j < i}) < Cardinality({j \in S : j < k})
         /\ \A k, l \in 1..Cardinality(S) : k < l => InOrder(S)[k] < InOrder(S)[l]
<1> DEFINE R == {p \in S \X S : p[1] < p[2]}
           Rk(i) == Cardinality({j \in S : j < i})
<1>1. \A i \in S : {j \in S : <<j, i>> \in R} = {j \in S : j < i}
  OBVIOUS
<1>2. \A i, j \in S : <<i, j>> \in R <=> i < j
  OBVIOUS
<1>3. /\ Cardinality(S) \in Nat
      /\ \A i \in S : Rk(i) \in 0..(Cardinality(S) - 1)
      /\ \A i, k \in S : i < k => Rk(i) < Rk(k)
      /\ \A k \in 1..Cardinality(S) : \E i \in S : Rk(i) = k - 1
  <2>1. \A i \in S : <<i, i>> \notin R
    BY <1>2
  <2>2. \A i, j \in S : i # j => <<i, j>> \in R \/ <<j, i>> \in R
    BY <1>2
  <2>3. \A i, j, k \in S : <<i, j>> \in R /\ <<j, k>> \in R => <<i, k>> \in R
    BY <1>2
  <2> HIDE DEF R
  <2>0. IsStrictOrder(R, S)
    BY <2>1, <2>2, <2>3 DEF IsStrictOrder
  <2>4. /\ Cardinality(S) \in Nat
        /\ \A i \in S : RankIn(R, S, i) \in 0..(Cardinality(S) - 1)
        /\ \A i, k \in S : <<i, k>> \in R => RankIn(R, S, i) < RankIn(R, S, k)
        /\ \A k \in 1..Cardinality(S) : \E i \in S : RankIn(R, S, i) = k - 1
    BY <2>0, RankedOnce
  <2>5. \A i \in S : RankIn(R, S, i) = Rk(i)
    BY <1>1 DEF RankIn
  <2> HIDE DEF Rk
  <2>6. QED
    BY <2>4, <2>5, <1>2
<1> HIDE DEF R
<1>4. \A k \in 1..Cardinality(S) : InOrder(S)[k] \in S /\ Rk(InOrder(S)[k]) = k - 1
  <2>1. TAKE k \in 1..Cardinality(S)
  <2>2. InOrder(S)[k] = CHOOSE i \in S : Rk(i) = k - 1
    BY DEF InOrder
  <2>3. \E i \in S : Rk(i) = k - 1
    BY <1>3
  <2> HIDE DEF Rk
  <2>4. QED
    BY <2>2, <2>3
<1>5. InOrder(S) \in [1..Cardinality(S) -> S]
  <2> DEFINE placeOf(k) == CHOOSE i \in S : Rk(i) = k - 1
  <2>1. InOrder(S) = [k \in 1..Cardinality(S) |-> placeOf(k)]
    BY DEF InOrder
  <2> HIDE DEF placeOf
  <2>2. \A k \in 1..Cardinality(S) : placeOf(k) \in S
    BY <2>1, <1>4
  <2>3. QED
    BY <2>1, <2>2
<1>6. \A i, k \in S : Rk(i) = Rk(k) => i = k
  <2>1. \A i, k \in S : i < k \/ k < i \/ i = k
    OBVIOUS
  <2>2. \A i \in S : Rk(i) \in Int
    BY <1>3
  <2> HIDE DEF Rk
  <2>3. QED
    BY <1>3, <2>1, <2>2
<1>7. \A i \in S : \E k \in 1..Cardinality(S) : InOrder(S)[k] = i
  <2>1. SUFFICES ASSUME NEW i \in S PROVE \E k \in 1..Cardinality(S) : InOrder(S)[k] = i
    OBVIOUS
  <2> HIDE DEF Rk
  <2>2. Rk(i) + 1 \in 1..Cardinality(S) /\ Rk(i) \in Int
    BY <1>3
  <2>3. Rk(InOrder(S)[Rk(i) + 1]) = Rk(i) + 1 - 1 /\ InOrder(S)[Rk(i) + 1] \in S
    BY <1>4, <2>2
  <2>4. Rk(InOrder(S)[Rk(i) + 1]) = Rk(i)
    BY <2>2, <2>3
  <2>5. InOrder(S)[Rk(i) + 1] = i
    BY <2>3, <2>4, <1>6
  <2>6. QED
    BY <2>2, <2>5
<1>8. \A k, l \in 1..Cardinality(S) : k < l => InOrder(S)[k] < InOrder(S)[l]
  <2>1. SUFFICES ASSUME NEW k \in 1..Cardinality(S), NEW l \in 1..Cardinality(S), k < l
                 PROVE  InOrder(S)[k] < InOrder(S)[l]
    OBVIOUS
  <2> HIDE DEF Rk
  <2>2. /\ InOrder(S)[k] \in S /\ InOrder(S)[l] \in S /\ InOrder(S)[k] \in Nat /\ InOrder(S)[l] \in Nat
        /\ Rk(InOrder(S)[k]) = k - 1 /\ Rk(InOrder(S)[l]) = l - 1
    BY <1>4
  <2>3. Rk(InOrder(S)[k]) < Rk(InOrder(S)[l])
    BY <2>1, <2>2, <1>3
  <2>4. ~(InOrder(S)[l] < InOrder(S)[k])
    <3>1. ~(Rk(InOrder(S)[l]) < Rk(InOrder(S)[k]))
      BY <2>1, <2>2, <1>3
    <3>2. QED
      BY <3>1, <2>2, <1>3
  <2>5. InOrder(S)[l] # InOrder(S)[k]
    BY <2>1, <2>2, <1>3
  <2>6. QED
    BY <2>2, <2>4, <2>5
<1>9. QED
  BY <1>3, <1>4, <1>5, <1>7, <1>8

\* Places that correspond in their order.
LEMMA OrderCarried ==
  ASSUME NEW S \in SUBSET Nat, IsFiniteSet(S), NEW T \in SUBSET Nat, IsFiniteSet(T),
         NEW h \in [T -> S],
         \A i, k \in T : i < k => h[i] < h[k],
         \A i \in S : \E k \in T : h[k] = i
  PROVE  /\ Cardinality(T) = Cardinality(S)
         /\ \A k \in 1..Cardinality(S) : InOrder(S)[k] = h[InOrder(T)[k]]
<1>1. \A i, k \in T : h[i] = h[k] => i = k
  <2>1. SUFFICES ASSUME NEW i \in T, NEW k \in T, h[i] = h[k] PROVE i = k
    OBVIOUS
  <2>2. i < k \/ k < i \/ i = k
    OBVIOUS
  <2>3. h[i] \in Nat /\ h[k] \in Nat
    OBVIOUS
  <2>4. QED
    BY <2>1, <2>2, <2>3
<1>2. \A i, k \in T : h[i] < h[k] => i < k
  <2>1. SUFFICES ASSUME NEW i \in T, NEW k \in T, h[i] < h[k] PROVE i < k
    OBVIOUS
  <2>2. i < k \/ k < i \/ i = k
    OBVIOUS
  <2>3. h[i] \in Nat /\ h[k] \in Nat
    OBVIOUS
  <2>4. QED
    BY <2>1, <2>2, <2>3
<1>3. h \in Bijection(T, S)
  <2>1. h \in Injection(T, S)
    BY <1>1 DEF Injection, IsInjective
  <2>2. h \in Surjection(T, S)
    BY DEF Surjection
  <2>3. QED
    BY <2>1, <2>2 DEF Bijection
<1>4. Cardinality(T) = Cardinality(S)
  BY <1>3, FS_Bijection DEF ExistsBijection
<1>5. \A i \in T : Cardinality({j \in S : j < h[i]}) = Cardinality({j \in T : j < i})
  <2>1. TAKE i \in T
  <2> DEFINE TB == {j \in T : j < i}
             SB == {j \in S : j < h[i]}
             g == [j \in TB |-> h[j]]
  <2>2. g \in [TB -> SB]
    OBVIOUS
  <2>3. \A j, k \in TB : g[j] = g[k] => j = k
    BY <1>1
  <2>4. \A s \in SB : \E t \in TB : g[t] = s
    <3>1. SUFFICES ASSUME NEW s \in SB PROVE \E t \in TB : g[t] = s
      OBVIOUS
    <3>2. PICK t \in T : h[t] = s
      OBVIOUS
    <3>3. t \in TB
      BY <3>2, <1>2
    <3>4. QED
      BY <3>2, <3>3
  <2>5. IsFiniteSet(TB)
    <3>1. TB \in SUBSET T
      OBVIOUS
    <3> HIDE DEF TB
    <3>2. QED
      BY <3>1, FS_Subset
  <2>6. DOMAIN g = TB
    OBVIOUS
  <2> HIDE DEF g, TB, SB
  <2>7. g \in Bijection(TB, SB)
    BY <2>2, <2>3, <2>4, <2>6 DEF Injection, IsInjective, Surjection, Bijection
  <2>8. Cardinality(SB) = Cardinality(TB)
    BY <2>5, <2>7, FS_Bijection DEF ExistsBijection
  <2>9. QED
    BY <2>8 DEF SB, TB
<1>6. \A k \in 1..Cardinality(S) : InOrder(S)[k] = h[InOrder(T)[k]]
  <2>1. TAKE k \in 1..Cardinality(S)
  <2>2. k \in 1..Cardinality(T)
    BY <1>4
  <2>3. InOrder(T)[k] \in T /\ Cardinality({j \in T : j < InOrder(T)[k]}) = k - 1
    BY <2>2, PlacesInOrder
  <2>4. InOrder(S)[k] \in S /\ Cardinality({j \in S : j < InOrder(S)[k]}) = k - 1
    BY PlacesInOrder
  <2>5. PICK a \in T : a = InOrder(T)[k]
    BY <2>3
  <2>6. PICK b \in S : b = InOrder(S)[k]
    BY <2>4
  <2>7. h[a] \in S /\ Cardinality({j \in S : j < h[a]}) = k - 1
    BY <2>3, <2>5, <1>5
  <2>8. Cardinality({j \in S : j < b}) = k - 1
    BY <2>4, <2>6
  <2>9. ~(b < h[a]) /\ ~(h[a] < b)
    <3>1. \A i, m \in S : i < m => Cardinality({j \in S : j < i}) < Cardinality({j \in S : j < m})
      BY PlacesInOrder
    <3>2. b < h[a] => Cardinality({j \in S : j < b}) < Cardinality({j \in S : j < h[a]})
      BY <3>1, <2>7
    <3>3. h[a] < b => Cardinality({j \in S : j < h[a]}) < Cardinality({j \in S : j < b})
      BY <3>1, <2>7
    <3>4. QED
      BY <3>2, <3>3, <2>7, <2>8
  <2>10. b = h[a]
    BY <2>7, <2>9
  <2>11. QED
    BY <2>5, <2>6, <2>10
<1>7. QED
  BY <1>4, <1>6

\* The places of a field in a header.
LEMMA PlacesFinite ==
  ASSUME NEW n \in Nat, NEW lines, DOMAIN lines = 1..n, NEW S \in SUBSET (1..n)
  PROVE  S \in SUBSET Nat /\ IsFiniteSet(S) /\ Cardinality(S) \in Nat
<1>1. IsFiniteSet(1..n)
  BY FS_Interval
<1>2. IsFiniteSet(S)
  BY <1>1, FS_Subset
<1>3. QED
  BY <1>2, FS_CardinalityType

\* ValuesOf: the values at the places of a field.
LEMMA ValuesAt ==
  ASSUME NEW lines, NEW f
  PROVE  ValuesOf(lines, f) = [k \in 1..Cardinality(Places(lines, f)) |-> lines[InOrder(Places(lines, f))[k]][2]]
BY DEF ValuesOf, Picked

\* The values of a field are those of the lines that carry it.
LEMMA ValuesCarried ==
  ASSUME NEW n \in Nat, NEW lines, DOMAIN lines = 1..n,
         NEW m \in Nat, NEW lines2, DOMAIN lines2 = 1..m, NEW f,
         NEW h \in [Places(lines2, f) -> Places(lines, f)],
         \A i, k \in Places(lines2, f) : i < k => h[i] < h[k],
         \A i \in Places(lines, f) : \E k \in Places(lines2, f) : h[k] = i,
         \A i \in Places(lines2, f) : lines2[i][2] = lines[h[i]][2]
  PROVE  ValuesOf(lines2, f) = ValuesOf(lines, f)
<1> DEFINE S == Places(lines, f)
           T == Places(lines2, f)
<1>1. S \in SUBSET (1..n) /\ T \in SUBSET (1..m)
  BY DEF Places
<1>2. S \in SUBSET Nat /\ IsFiniteSet(S) /\ T \in SUBSET Nat /\ IsFiniteSet(T)
  BY <1>1, PlacesFinite
<1>3. InOrder(T) \in [1..Cardinality(T) -> T]
  BY <1>2, PlacesInOrder
<1>4. /\ Cardinality(T) = Cardinality(S)
      /\ \A k \in 1..Cardinality(S) : InOrder(S)[k] = h[InOrder(T)[k]]
  <2> HIDE DEF S, T
  <2>1. \A i, k \in T : i < k => h[i] < h[k]
    BY DEF T
  <2>2. \A i \in S : \E k \in T : h[k] = i
    BY DEF S, T
  <2>3. h \in [T -> S]
    BY DEF S, T
  <2>4. QED
    BY <1>2, <2>1, <2>2, <2>3, OrderCarried
<1> HIDE DEF S, T
<1>5. \A k \in 1..Cardinality(S) : lines2[InOrder(T)[k]][2] = lines[InOrder(S)[k]][2]
  BY <1>3, <1>4 DEF T
<1>6. ValuesOf(lines2, f) = [k \in 1..Cardinality(T) |-> lines2[InOrder(T)[k]][2]]
  BY ValuesAt DEF T
<1>7. ValuesOf(lines, f) = [k \in 1..Cardinality(S) |-> lines[InOrder(S)[k]][2]]
  BY ValuesAt DEF S
<1>8. QED
  BY <1>4, <1>5, <1>6, <1>7

-----------------------------------------------------------------------------
\* What a sequence is of: its elements at one place after another.
LEMMA SequenceShape ==
  ASSUME NEW s, IsSequence(s)
  PROVE  Len(s) \in Nat /\ DOMAIN s = 1..Len(s) /\ s = [i \in 1..Len(s) |-> s[i]]
BY DEF IsSequence

\* A function on the first numbers is a sequence.
LEMMA SequenceMade ==
  ASSUME NEW n \in Nat, NEW s, s = [i \in 1..n |-> s[i]]
  PROVE  IsSequence(s) /\ Len(s) = n /\ DOMAIN s = 1..n
<1>1. DOMAIN s = 1..n
  OBVIOUS
<1>2. s \in [1..n -> ToSet(s)]
  <2>1. \A i \in 1..n : s[i] \in ToSet(s)
    BY <1>1 DEF ToSet
  <2>2. QED
    BY <2>1
<1>3. s \in Seq(ToSet(s))
  BY <1>2
<1>4. QED
  BY <1>1, <1>3 DEF IsSequence

\* The least of some places comes first of them.
LEMMA LeastPlace ==
  ASSUME NEW S \in SUBSET Nat, IsFiniteSet(S), S # {}
  PROVE  /\ Min(S) \in S /\ Min(S) = InOrder(S)[1] /\ 1 \in 1..Cardinality(S)
         /\ \A i \in S : Min(S) <= i
<1>1. Cardinality(S) \in Nat /\ Cardinality(S) # 0
  BY FS_EmptySet, FS_CardinalityType
<1>2. 1 \in 1..Cardinality(S)
  BY <1>1
<1>3. InOrder(S)[1] \in S
  BY <1>2, PlacesInOrder
<1>4. \A i \in S : InOrder(S)[1] <= i
  <2>1. SUFFICES ASSUME NEW i \in S PROVE InOrder(S)[1] <= i
    OBVIOUS
  <2>2. PICK k \in 1..Cardinality(S) : InOrder(S)[k] = i
    BY PlacesInOrder
  <2>3. CASE k = 1
    BY <2>2, <2>3
  <2>4. CASE k # 1
    <3>1. 1 < k
      BY <2>4
    <3>2. \A m, l \in 1..Cardinality(S) : m < l => InOrder(S)[m] < InOrder(S)[l]
      BY PlacesInOrder
    <3>3. InOrder(S)[1] < InOrder(S)[k] /\ InOrder(S)[1] \in Nat /\ InOrder(S)[k] \in Nat
      BY <3>1, <3>2, <1>2, <1>3, <2>2
    <3>4. QED
      BY <3>3, <2>2
  <2>5. QED
    BY <2>3, <2>4
<1>5. PICK a \in S : a = InOrder(S)[1]
  BY <1>3
<1>6. a \in S /\ \A i \in S : a <= i
  BY <1>4, <1>5
<1>7. \A x \in S : (\A i \in S : x <= i) => x = a
  <2>1. SUFFICES ASSUME NEW x \in S, \A i \in S : x <= i PROVE x = a
    OBVIOUS
  <2>2. x <= a /\ a <= x /\ x \in Nat /\ a \in Nat
    BY <2>1, <1>6
  <2>3. QED
    BY <2>2
<1>8. Min(S) \in S /\ \A i \in S : Min(S) <= i
  BY <1>6 DEF Min
<1>9. Min(S) = a
  BY <1>7, <1>8
<1>10. QED
  BY <1>2, <1>5, <1>8, <1>9

\* A field that is not there, and the first value of one that is.
LEMMA FieldThere ==
  ASSUME NEW lines, IsSequence(lines), NEW f
  PROVE  /\ Places(lines, f) \in SUBSET Nat /\ IsFiniteSet(Places(lines, f))
         /\ Cardinality(Places(lines, f)) \in Nat
         /\ DOMAIN ValuesOf(lines, f) = 1..Cardinality(Places(lines, f))
         /\ IsSequence(ValuesOf(lines, f))
         /\ ValuesOf(lines, f) # << >> <=> Places(lines, f) # {}
         /\ Places(lines, f) # {} => ValuesOf(lines, f)[1] = lines[Min(Places(lines, f))][2]
<1> DEFINE S == Places(lines, f)
<1>1. Len(lines) \in Nat /\ DOMAIN lines = 1..Len(lines)
  BY SequenceShape
<1>2. S \in SUBSET (1..Len(lines))
  BY <1>1 DEF Places
<1>3. S \in SUBSET Nat /\ IsFiniteSet(S) /\ Cardinality(S) \in Nat
  BY <1>1, <1>2, PlacesFinite
<1>4. ValuesOf(lines, f) = [k \in 1..Cardinality(S) |-> lines[InOrder(S)[k]][2]]
  BY ValuesAt
<1>5. S # {} => Min(S) = InOrder(S)[1] /\ 1 \in 1..Cardinality(S)
  BY <1>3, LeastPlace
<1>6. S = {} => Cardinality(S) = 0
  BY FS_EmptySet
<1> HIDE DEF S
<1>7. DOMAIN ValuesOf(lines, f) = 1..Cardinality(S)
  BY <1>4
<1>8. ValuesOf(lines, f) # << >> <=> S # {}
  BY <1>3, <1>5, <1>6, <1>7
<1>9. S # {} => ValuesOf(lines, f)[1] = lines[Min(S)][2]
  BY <1>4, <1>5
<1>10. ValuesOf(lines, f) = [k \in 1..Cardinality(S) |-> ValuesOf(lines, f)[k]]
  BY <1>4
<1>11. IsSequence(ValuesOf(lines, f))
  BY <1>3, <1>10, SequenceMade
<1>12. QED
  BY <1>3, <1>7, <1>8, <1>9, <1>11 DEF S

\* A field that is there once.
LEMMA OneThere ==
  ASSUME NEW lines, IsSequence(lines), NEW f, NEW i, Places(lines, f) = {i}
  PROVE  ValuesOf(lines, f) = << lines[i][2] >>
<1>1. Cardinality(Places(lines, f)) = 1
  BY FS_Singleton
<1>2. ValuesOf(lines, f) = [k \in 1..1 |-> ValuesOf(lines, f)[k]]
  BY <1>1, ValuesAt
<1>3. Min(Places(lines, f)) = i
  BY FieldThere, LeastPlace
<1>4. ValuesOf(lines, f)[1] = lines[i][2]
  BY <1>3, FieldThere
<1>5. QED
  BY <1>2, <1>4

\* Values changed in place.
AreAlike(lines2, lines) ==
  /\ IsSequence(lines) /\ IsSequence(lines2) /\ Len(lines2) = Len(lines)
  /\ \A i \in DOMAIN lines : lines2[i][1] = lines[i][1]

\* The same names at the same places: the same fields, as many times each.
LEMMA SameNames ==
  ASSUME NEW lines, NEW lines2, AreAlike(lines2, lines)
  PROVE  \A f : /\ Places(lines2, f) = Places(lines, f)
                /\ Len(ValuesOf(lines2, f)) = Len(ValuesOf(lines, f))
                /\ DOMAIN ValuesOf(lines2, f) = DOMAIN ValuesOf(lines, f)
                /\ (\A i \in DOMAIN lines : lines[i][1] = f => lines2[i][2] = lines[i][2])
                     => ValuesOf(lines2, f) = ValuesOf(lines, f)
<1>1. TAKE f
<1>2. DOMAIN lines2 = DOMAIN lines
  BY SequenceShape DEF AreAlike
<1>3. Places(lines2, f) = Places(lines, f)
  BY <1>2 DEF Places, AreAlike
<1>4. PICK S : S = Places(lines, f)
  OBVIOUS
<1>5. /\ ValuesOf(lines, f) = [k \in 1..Cardinality(S) |-> lines[InOrder(S)[k]][2]]
      /\ ValuesOf(lines2, f) = [k \in 1..Cardinality(S) |-> lines2[InOrder(S)[k]][2]]
  BY <1>3, <1>4, ValuesAt
<1>6. S \in SUBSET Nat /\ IsFiniteSet(S) /\ Cardinality(S) \in Nat
  BY <1>4, FieldThere DEF AreAlike
<1>7. \A k \in 1..Cardinality(S) : InOrder(S)[k] \in S
  BY <1>6, PlacesInOrder
<1>8. \A i \in S : i \in DOMAIN lines /\ lines[i][1] = f
  BY <1>4 DEF Places
<1>9. DOMAIN ValuesOf(lines2, f) = 1..Cardinality(S) /\ DOMAIN ValuesOf(lines, f) = 1..Cardinality(S)
  BY <1>5
<1>10. Len(ValuesOf(lines2, f)) = Len(ValuesOf(lines, f))
  <2>1. /\ IsSequence(ValuesOf(lines2, f)) /\ IsSequence(ValuesOf(lines, f))
    BY FieldThere DEF AreAlike
  <2>2. Len(ValuesOf(lines2, f)) \in Nat /\ Len(ValuesOf(lines, f)) \in Nat
        /\ 1..Len(ValuesOf(lines2, f)) = 1..Len(ValuesOf(lines, f))
    BY <2>1, <1>9, SequenceShape
  <2>3. QED
    BY <2>2
<1>11. (\A i \in DOMAIN lines : lines[i][1] = f => lines2[i][2] = lines[i][2])
          => ValuesOf(lines2, f) = ValuesOf(lines, f)
  BY <1>5, <1>7, <1>8
<1>12. QED
  BY <1>3, <1>9, <1>10, <1>11

\* The values of a field in the one and in the other are of one line.
LEMMA SamePlace ==
  ASSUME NEW lines, NEW lines2, AreAlike(lines2, lines), NEW f, NEW k \in DOMAIN ValuesOf(lines, f)
  PROVE  \E i \in DOMAIN lines : /\ lines[i][1] = f
                                 /\ ValuesOf(lines, f)[k] = lines[i][2]
                                 /\ ValuesOf(lines2, f)[k] = lines2[i][2]
<1>1. Places(lines2, f) = Places(lines, f)
  BY SameNames
<1>2. PICK S : S = Places(lines, f)
  OBVIOUS
<1>3. /\ ValuesOf(lines, f) = [m \in 1..Cardinality(S) |-> lines[InOrder(S)[m]][2]]
      /\ ValuesOf(lines2, f) = [m \in 1..Cardinality(S) |-> lines2[InOrder(S)[m]][2]]
  BY <1>1, <1>2, ValuesAt
<1>4. S \in SUBSET Nat /\ IsFiniteSet(S)
  BY <1>2, FieldThere DEF AreAlike
<1>5. k \in 1..Cardinality(S)
  BY <1>3
<1>6. InOrder(S)[k] \in S
  BY <1>4, <1>5, PlacesInOrder
<1>7. InOrder(S)[k] \in DOMAIN lines /\ lines[InOrder(S)[k]][1] = f
  BY <1>2, <1>6 DEF Places
<1>8. QED
  BY <1>3, <1>5, <1>7

\* One line more, at any place, the first and the last ones included.
IsPut(lines2, lines, p, e) ==
  /\ IsSequence(lines) /\ p \in 1..(Len(lines) + 1)
  /\ lines2 = [i \in 1..(Len(lines) + 1) |->
                  IF i < p THEN lines[i] ELSE IF i = p THEN e ELSE lines[i - 1]]

\* It is one value more of its own field and none of another.
LEMMA OneMore ==
  ASSUME NEW lines, NEW lines2, NEW p, NEW e, IsPut(lines2, lines, p, e)
  PROVE  /\ \A f : f # e[1] => ValuesOf(lines2, f) = ValuesOf(lines, f)
         /\ Places(lines, e[1]) = {} => ValuesOf(lines2, e[1]) = << e[2] >>
<1>1. PICK n \in Nat : n = Len(lines)
  BY SequenceShape DEF IsPut
<1>2. DOMAIN lines = 1..n /\ DOMAIN lines2 = 1..(n + 1) /\ n + 1 \in Nat /\ p \in 1..(n + 1)
  <2>1. DOMAIN lines = 1..n /\ n + 1 \in Nat /\ p \in 1..(n + 1)
    BY <1>1, SequenceShape DEF IsPut
  <2>2. lines2 = [i \in 1..(n + 1) |-> lines2[i]]
    BY <1>1 DEF IsPut
  <2>3. QED
    BY <2>1, <2>2, SequenceMade
<1>3. \A i \in 1..(n + 1) : lines2[i] = IF i < p THEN lines[i] ELSE IF i = p THEN e ELSE lines[i - 1]
  BY <1>1 DEF IsPut
<1>4. IsSequence(lines) /\ IsSequence(lines2)
  <2>1. lines2 = [i \in 1..(n + 1) |-> lines2[i]]
    BY <1>1 DEF IsPut
  <2>2. QED
    BY <1>2, <2>1, SequenceMade DEF IsPut
<1>5. ASSUME NEW f, f # e[1] PROVE ValuesOf(lines2, f) = ValuesOf(lines, f)
  <2> DEFINE T == Places(lines2, f)
             S == Places(lines, f)
             h == [k \in T |-> IF k < p THEN k ELSE k - 1]
  <2>1. \A k \in T : /\ k \in 1..(n + 1) /\ k # p /\ lines2[k][1] = f
                     /\ h[k] \in 1..n /\ lines2[k] = lines[h[k]]
    <3>1. SUFFICES ASSUME NEW k \in T
                   PROVE  /\ k \in 1..(n + 1) /\ k # p /\ lines2[k][1] = f
                          /\ h[k] \in 1..n /\ lines2[k] = lines[h[k]]
      OBVIOUS
    <3>2. k \in 1..(n + 1) /\ lines2[k][1] = f
      BY <1>2 DEF Places
    <3>3. k # p
      BY <3>2, <1>3, <1>5
    <3>4. h[k] = IF k < p THEN k ELSE k - 1
      OBVIOUS
    <3>5. h[k] \in 1..n
      BY <3>2, <3>3, <3>4, <1>2
    <3>6. QED
      BY <3>2, <3>3, <3>4, <3>5, <1>3
  <2>2. \A k \in T : h[k] \in S
    BY <2>1, <1>2 DEF Places
  <2>3. h \in [T -> S]
    BY <2>2
  <2>4. \A i, k \in T : i < k => h[i] < h[k]
    <3>1. SUFFICES ASSUME NEW i \in T, NEW k \in T, i < k PROVE h[i] < h[k]
      OBVIOUS
    <3>2. i \in 1..(n + 1) /\ i # p /\ k \in 1..(n + 1) /\ k # p
      BY <2>1
    <3>3. h[i] = (IF i < p THEN i ELSE i - 1) /\ h[k] = (IF k < p THEN k ELSE k - 1)
      OBVIOUS
    <3> HIDE DEF T, h
    <3>4. QED
      BY <3>1, <3>2, <3>3, <1>2
  <2>5. \A i \in S : \E k \in T : h[k] = i
    <3>1. SUFFICES ASSUME NEW i \in S PROVE \E k \in T : h[k] = i
      OBVIOUS
    <3>2. i \in 1..n /\ lines[i][1] = f
      BY <1>2 DEF Places
    <3>3. PICK k \in 1..(n + 1) : k = IF i < p THEN i ELSE i + 1
      BY <3>2, <1>2
    <3>4. (IF k < p THEN k ELSE k - 1) = i /\ k # p
      BY <3>2, <3>3, <1>2
    <3>5. lines2[k] = IF k < p THEN lines[k] ELSE IF k = p THEN e ELSE lines[k - 1]
      BY <1>3
    <3>6. lines2[k] = lines[i]
      BY <3>2, <3>4, <3>5, <1>2
    <3>7. k \in T
      BY <3>2, <3>6, <1>2 DEF Places
    <3>8. QED
      BY <3>4, <3>7
  <2> HIDE DEF h
  <2>6. QED
    BY <1>2, <2>1, <2>3, <2>4, <2>5, ValuesCarried
<1>6. ASSUME Places(lines, e[1]) = {} PROVE ValuesOf(lines2, e[1]) = << e[2] >>
  <2>1. \A i \in 1..n : lines[i][1] # e[1]
    BY <1>2, <1>6 DEF Places
  <2>2. lines2[p] = e
    BY <1>2, <1>3
  <2>3. \A i \in 1..(n + 1) : i # p => lines2[i][1] # e[1]
    <3>1. TAKE i \in 1..(n + 1)
    <3>2. CASE i < p
      BY <3>2, <2>1, <1>2, <1>3
    <3>3. CASE i > p
      <4>1. i - 1 \in 1..n
        BY <3>3, <1>2
      <4>2. lines2[i] = lines[i - 1]
        BY <3>3, <1>2, <1>3
      <4>3. QED
        BY <4>1, <4>2, <2>1
    <3>4. QED
      BY <3>2, <3>3, <1>2
  <2>4. Places(lines2, e[1]) = {p}
    BY <2>2, <2>3, <1>2 DEF Places
  <2>5. QED
    BY <2>2, <2>4, <1>4, OneThere
<1>7. QED
  BY <1>5, <1>6

\* A line with another value, and one spelled another way.
LEMMA LineChanged ==
  ASSUME NEW line, IsLine(line), NEW value
  PROVE  /\ [line EXCEPT ![2] = value] = <<line[1], value, line[3]>>
         /\ [line EXCEPT ![3] = value] = <<line[1], line[2], value>>
<1>1. PICK x, y, z : line = <<x, y, z>>
  BY DEF IsLine
<1>2. QED
  BY <1>1

\* Lines that are picked: a field is picked with all of its values, or is not.
LEMMA PickedLines ==
  ASSUME NEW lines, IsSequence(lines), NEW S \in SUBSET DOMAIN lines
  PROVE  /\ IsSequence(Picked(lines, S))
         /\ \A k \in DOMAIN Picked(lines, S) : \E i \in S : Picked(lines, S)[k] = lines[i]
         /\ \A f : Places(lines, f) \subseteq S => ValuesOf(Picked(lines, S), f) = ValuesOf(lines, f)
         /\ \A f : Places(lines, f) \cap S = {} => Places(Picked(lines, S), f) = {}
<1> DEFINE picked == Picked(lines, S)
<1>1. PICK n \in Nat : n = Len(lines)
  BY SequenceShape
<1>2. DOMAIN lines = 1..n
  BY <1>1, SequenceShape
<1>3. S \in SUBSET Nat /\ IsFiniteSet(S) /\ Cardinality(S) \in Nat
  BY <1>2, PlacesFinite
<1>4. PICK m \in Nat : m = Cardinality(S)
  BY <1>3
<1>5. /\ InOrder(S) \in [1..m -> S]
      /\ \A i \in S : \E k \in 1..m : InOrder(S)[k] = i
      /\ \A k, l \in 1..m : k < l => InOrder(S)[k] < InOrder(S)[l]
  BY <1>3, <1>4, PlacesInOrder
<1>6. picked = [k \in 1..m |-> lines[InOrder(S)[k]]]
  BY <1>4 DEF Picked
<1> HIDE DEF picked
<1>7. picked = [k \in 1..m |-> picked[k]]
  BY <1>6
<1>8. IsSequence(picked) /\ Len(picked) = m /\ DOMAIN picked = 1..m
  BY <1>7, SequenceMade
<1>9. \A k \in DOMAIN picked : \E i \in S : picked[k] = lines[i]
  BY <1>5, <1>6, <1>8
<1>10. ASSUME NEW f, Places(lines, f) \cap S = {} PROVE Places(picked, f) = {}
  <2>1. \A k \in 1..m : picked[k][1] # f
    <3>1. TAKE k \in 1..m
    <3>2. InOrder(S)[k] \in S /\ picked[k] = lines[InOrder(S)[k]]
      BY <1>5, <1>6
    <3>3. QED
      BY <3>2, <1>10 DEF Places
  <2>2. QED
    BY <2>1, <1>8 DEF Places
<1>11. ASSUME NEW f, Places(lines, f) \subseteq S PROVE ValuesOf(picked, f) = ValuesOf(lines, f)
  <2> DEFINE T == Places(picked, f)
             P == Places(lines, f)
             h == [k \in T |-> InOrder(S)[k]]
  <2>1. \A k \in T : /\ k \in 1..m /\ InOrder(S)[k] \in S /\ picked[k] = lines[InOrder(S)[k]]
                     /\ picked[k][1] = f
    BY <1>5, <1>6, <1>8 DEF Places
  <2>2. \A k \in T : h[k] \in P
    BY <2>1 DEF Places
  <2>3. h \in [T -> P]
    BY <2>2
  <2>4. \A i, k \in T : i < k => h[i] < h[k]
    BY <2>1, <1>5
  <2>5. \A i \in P : \E k \in T : h[k] = i
    <3>1. SUFFICES ASSUME NEW i \in P PROVE \E k \in T : h[k] = i
      OBVIOUS
    <3>2. i \in S /\ lines[i][1] = f
      BY <1>11 DEF Places
    <3>3. PICK k \in 1..m : InOrder(S)[k] = i
      BY <3>2, <1>5
    <3>4. k \in T
      BY <3>2, <3>3, <1>6, <1>8 DEF Places
    <3>5. QED
      BY <3>3, <3>4
  <2>6. \A k \in T : picked[k][2] = lines[h[k]][2]
    BY <2>1
  <2> HIDE DEF h
  <2>7. QED
    BY <1>2, <1>8, <2>3, <2>4, <2>5, <2>6, ValuesCarried
<1>12. QED
  BY <1>8, <1>9, <1>10, <1>11 DEF picked

\* Without: a field is taken out and the others stay.
LEMMA WithoutLines ==
  ASSUME NEW lines, IsHeader(lines), NEW f
  PROVE  /\ IsHeader(Without(lines, f))
         /\ Places(Without(lines, f), f) = {}
         /\ \A g : g # f => ValuesOf(Without(lines, f), g) = ValuesOf(lines, g)
<1> DEFINE S == DOMAIN lines \ Places(lines, f)
<1>1. IsSequence(lines) /\ S \in SUBSET DOMAIN lines
  BY DEF IsHeader
<1>2. Places(lines, f) \cap S = {}
  OBVIOUS
<1>3. \A g : g # f => Places(lines, g) \subseteq S
  BY DEF Places
<1> HIDE DEF S
<1>4. /\ IsSequence(Picked(lines, S))
      /\ \A k \in DOMAIN Picked(lines, S) : \E i \in S : Picked(lines, S)[k] = lines[i]
  BY <1>1, PickedLines
<1>5. \A g : g # f => ValuesOf(Picked(lines, S), g) = ValuesOf(lines, g)
  BY <1>1, <1>3, PickedLines
<1>6. Places(Picked(lines, S), f) = {}
  BY <1>1, <1>2, PickedLines
<1>7. \A k \in DOMAIN Picked(lines, S) : IsLine(Picked(lines, S)[k])
  BY <1>1, <1>4 DEF IsHeader
<1>8. Without(lines, f) = Picked(lines, S)
  BY DEF Without, S
<1>9. QED
  BY <1>4, <1>5, <1>6, <1>7, <1>8 DEF IsHeader

\* A header with a line more, and a block with a field more.
LEMMA LinePut ==
  ASSUME NEW lines, NEW lines2, NEW p, NEW e, IsPut(lines2, lines, p, e)
  PROVE  /\ IsSequence(lines2)
         /\ IsHeader(lines) /\ IsLine(e) => IsHeader(lines2)
         /\ IsFields(lines) /\ IsPair(e) => IsFields(lines2)
<1>1. PICK n \in Nat : n = Len(lines)
  BY SequenceShape DEF IsPut
<1>2. DOMAIN lines = 1..n /\ n + 1 \in Nat /\ p \in 1..(n + 1)
  BY <1>1, SequenceShape DEF IsPut
<1>3. lines2 = [i \in 1..(n + 1) |-> lines2[i]]
  BY <1>1 DEF IsPut
<1>4. IsSequence(lines2) /\ DOMAIN lines2 = 1..(n + 1)
  BY <1>2, <1>3, SequenceMade
<1>5. \A i \in 1..(n + 1) : lines2[i] = IF i < p THEN lines[i] ELSE IF i = p THEN e ELSE lines[i - 1]
  BY <1>1 DEF IsPut
<1>6. \A i \in 1..(n + 1) : lines2[i] = e \/ \E k \in 1..n : lines2[i] = lines[k]
  <2>1. TAKE i \in 1..(n + 1)
  <2>2. CASE i < p
    <3>1. i \in 1..n
      BY <2>2, <1>2
    <3>2. QED
      BY <3>1, <2>2, <1>5
  <2>3. CASE i = p
    <3>1. lines2[i] = IF i < p THEN lines[i] ELSE IF i = p THEN e ELSE lines[i - 1]
      BY <1>5
    <3>2. ~(i < p)
      BY <2>3, <1>2
    <3>3. QED
      BY <3>1, <3>2, <2>3
  <2>4. CASE i > p
    <3>1. i - 1 \in 1..n
      BY <2>4, <1>2
    <3>2. lines2[i] = lines[i - 1]
      BY <2>4, <1>2, <1>5
    <3>3. QED
      BY <3>1, <3>2
  <2>5. QED
    BY <2>2, <2>3, <2>4, <1>2
<1>7. IsHeader(lines) /\ IsLine(e) => IsHeader(lines2)
  BY <1>2, <1>4, <1>6 DEF IsHeader
<1>8. IsFields(lines) /\ IsPair(e) => IsFields(lines2)
  BY <1>2, <1>4, <1>6 DEF IsFields
<1>9. QED
  BY <1>4, <1>7, <1>8

\* A line written before all others.
LEMMA LineFirst ==
  ASSUME NEW lines, IsHeader(lines), NEW e, IsLine(e)
  PROVE  /\ IsHeader(<<e>> \o lines)
         /\ \A f : f # e[1] => ValuesOf(<<e>> \o lines, f) = ValuesOf(lines, f)
         /\ Places(lines, e[1]) = {} => ValuesOf(<<e>> \o lines, e[1]) = << e[2] >>
<1>1. IsSequence(lines)
  BY DEF IsHeader
<1>2. Len(lines) \in Nat /\ DOMAIN lines = 1..Len(lines)
  BY <1>1, SequenceShape
<1>3. <<e>> \o lines = [i \in 1..(Len(lines) + 1) |->
                         IF i < 1 THEN lines[i] ELSE IF i = 1 THEN e ELSE lines[i - 1]]
  BY <1>1, <1>2 DEF IsSequence
<1>4. 1 \in 1..(Len(lines) + 1)
  BY <1>2
<1>5. PICK more : more = <<e>> \o lines
  OBVIOUS
<1>6. IsPut(more, lines, 1, e)
  BY <1>1, <1>3, <1>4, <1>5 DEF IsPut
<1>7. IsHeader(more)
  BY <1>6, LinePut
<1>8. /\ \A f : f # e[1] => ValuesOf(more, f) = ValuesOf(lines, f)
      /\ Places(lines, e[1]) = {} => ValuesOf(more, e[1]) = << e[2] >>
  BY <1>6, OneMore
<1>9. QED
  BY <1>5, <1>7, <1>8

\* SetLine sets a field to one value.
LEMMA SetLineValues ==
  ASSUME NEW lines, IsHeader(lines), NEW f, NEW value
  PROVE  /\ IsHeader(SetLine(lines, f, value))
         /\ \A g : g # f => ValuesOf(SetLine(lines, f, value), g) = ValuesOf(lines, g)
         /\ ValuesOf(SetLine(lines, f, value), f) = <<value>>
<1> DEFINE e == <<f, value, TRUE>>
           rest == Without(lines, f)
<1>1. IsHeader(rest) /\ Places(rest, f) = {} /\ \A g : g # f => ValuesOf(rest, g) = ValuesOf(lines, g)
  BY WithoutLines
<1>2. IsLine(e) /\ e[1] = f /\ e[2] = value
  BY DEF IsLine
<1>3. SetLine(lines, f, value) = <<e>> \o rest
  BY DEF SetLine
<1> HIDE DEF e, rest
<1>4. /\ IsHeader(<<e>> \o rest)
      /\ \A g : g # e[1] => ValuesOf(<<e>> \o rest, g) = ValuesOf(rest, g)
      /\ Places(rest, e[1]) = {} => ValuesOf(<<e>> \o rest, e[1]) = << e[2] >>
  BY <1>1, <1>2, LineFirst
<1>5. QED
  BY <1>1, <1>2, <1>3, <1>4

\* insert_field.
LEMMA InsertedValues ==
  ASSUME NEW lines, IsHeader(lines), NEW f, NEW value
  PROVE  /\ IsHeader(Inserted(lines, f, value))
         /\ \A g : g # f => ValuesOf(Inserted(lines, f, value), g) = ValuesOf(lines, g)
         /\ Places(lines, f) = {} => ValuesOf(Inserted(lines, f, value), f) = <<value>>
<1> DEFINE later == {i \in DOMAIN lines : Rank(lines[i][1]) > Rank(f)}
           e == <<f, value, TRUE>>
<1>1. IsSequence(lines)
  BY DEF IsHeader
<1>2. PICK n \in Nat : n = Len(lines)
  BY <1>1, SequenceShape
<1>3. DOMAIN lines = 1..n
  BY <1>1, <1>2, SequenceShape
<1>4. later \in SUBSET (1..n)
  BY <1>3
<1>5. later \in SUBSET Nat /\ IsFiniteSet(later)
  <2> HIDE DEF later
  <2>1. QED
    BY <1>3, <1>4, PlacesFinite
<1>6. PICK p : p = IF later = {} THEN n + 1 ELSE Min(later)
  OBVIOUS
<1>7. p \in 1..(n + 1)
  <2>1. later # {} => Min(later) \in later
    <3> HIDE DEF later
    <3>1. QED
      BY <1>5, LeastPlace
  <2> HIDE DEF later
  <2>2. QED
    BY <2>1, <1>4, <1>6
<1>8. Inserted(lines, f, value) = InsertAt(lines, p, e)
  BY <1>2, <1>6 DEF Inserted
<1>9. IsLine(e) /\ e[1] = f /\ e[2] = value
  BY DEF IsLine
<1> HIDE DEF e, later
<1>10. InsertAt(lines, p, e) = [i \in 1..(n + 1) |->
                                 IF i < p THEN lines[i] ELSE IF i = p THEN e ELSE lines[i - 1]]
  <2>1. PICK L : L = ToSet(lines) \cup {e}
    OBVIOUS
  <2>2. lines \in Seq(ToSet(lines)) /\ e \in L /\ \A i \in 1..n : lines[i] \in L
    BY <1>1, <1>3, <2>1 DEF IsSequence, ToSet
  <2>3. lines \in Seq(L) /\ Len(lines) = n
    <3>1. lines \in [1..n -> L]
      BY <2>2, <1>2, <1>1, SequenceShape
    <3>2. QED
      BY <3>1, <1>2
  <2>4. PICK a : a = SubSeq(lines, 1, p - 1)
    OBVIOUS
  <2>5. PICK b : b = SubSeq(lines, p, Len(lines))
    OBVIOUS
  <2>6. a \in Seq(L) /\ Len(a) = p - 1 /\ \A i \in 1..(p - 1) : a[i] = lines[i]
    <3>1. 1 \in Int /\ p - 1 \in Int /\ \A i \in 1..(p - 1) : lines[i] \in L
      BY <2>2, <1>7
    <3>2. /\ a \in Seq(L)
          /\ Len(a) = IF 1 <= p - 1 THEN p - 1 - 1 + 1 ELSE 0
          /\ \A i \in 1..(p - 1 - 1 + 1) : a[i] = lines[1 + i - 1]
      BY <3>1, <2>4, SubSeqProperties
    <3>3. QED
      BY <3>2, <1>7
  <2>7. b \in Seq(L) /\ Len(b) = n + 1 - p /\ \A i \in 1..(n + 1 - p) : b[i] = lines[p + i - 1]
    <3>1. p \in Int /\ Len(lines) \in Int /\ \A i \in p..Len(lines) : lines[i] \in L
      BY <2>2, <2>3, <1>7
    <3>2. /\ b \in Seq(L)
          /\ Len(b) = IF p <= Len(lines) THEN Len(lines) - p + 1 ELSE 0
          /\ \A i \in 1..(Len(lines) - p + 1) : b[i] = lines[p + i - 1]
      BY <3>1, <2>5, SubSeqProperties
    <3>3. QED
      BY <3>2, <2>3, <1>7
  <2>8. InsertAt(lines, p, e) = a \o <<e>> \o b
    BY <2>4, <2>5 DEF InsertAt
  <2>9. a \o <<e>> \in Seq(L) /\ Len(a \o <<e>>) = p
        /\ \A i \in 1..p : (a \o <<e>>)[i] = IF i < p THEN lines[i] ELSE e
    BY <2>2, <2>6, <1>7
  <2>10. PICK c \in Seq(L) : c = a \o <<e>>
    BY <2>9
  <2>11. Len(c) = p /\ \A i \in 1..p : c[i] = IF i < p THEN lines[i] ELSE e
    BY <2>9, <2>10
  <2>12. Len(c \o b) = n + 1 /\ DOMAIN (c \o b) = 1..(n + 1)
    <3>1. c \o b \in Seq(L) /\ Len(c \o b) = Len(c) + Len(b)
      BY <2>7, ConcatProperties
    <3>2. Len(c \o b) = n + 1
      BY <3>1, <2>7, <2>11, <1>7
    <3>3. DOMAIN (c \o b) = 1..Len(c \o b)
      BY <3>1
    <3>4. QED
      BY <3>2, <3>3
  <2>13. \A i \in 1..(n + 1) : (c \o b)[i] = IF i < p THEN lines[i] ELSE IF i = p THEN e ELSE lines[i - 1]
    <3>1. TAKE i \in 1..(n + 1)
    <3>2. CASE i <= p
      <4>1. i \in 1..p /\ (c \o b)[i] = c[i]
        BY <3>2, <2>11, <1>7
      <4>2. c[i] = IF i < p THEN lines[i] ELSE e
        BY <4>1, <2>11
      <4>3. i < p \/ i = p
        BY <3>2, <1>7
      <4>4. QED
        BY <4>1, <4>2, <4>3
    <3>3. CASE i > p
      <4>1. (c \o b)[i] = b[i - p]
        BY <3>3, <2>7, <2>11, <1>7
      <4>2. i - p \in 1..(n + 1 - p)
        BY <3>3, <1>7
      <4>3. b[i - p] = lines[p + (i - p) - 1]
        BY <4>2, <2>7
      <4>4. p + (i - p) - 1 = i - 1 /\ ~(i < p) /\ i # p
        BY <3>3, <1>7
      <4>5. QED
        BY <4>1, <4>3, <4>4
    <3>4. i <= p \/ i > p
      BY <1>7
    <3>5. QED
      BY <3>2, <3>3, <3>4
  <2>14. c \o b = [i \in 1..(n + 1) |-> (c \o b)[i]]
    <3>1. PICK s \in Seq(L) : s = c \o b
      BY <2>7, ConcatProperties
    <3>2. s = [i \in 1..Len(s) |-> s[i]]
      OBVIOUS
    <3>3. QED
      BY <3>1, <3>2, <2>12
  <2>15. QED
    BY <2>8, <2>10, <2>13, <2>14
<1>11. PICK more : more = Inserted(lines, f, value)
  OBVIOUS
<1>12. IsPut(more, lines, p, e)
  BY <1>1, <1>2, <1>7, <1>8, <1>10, <1>11 DEF IsPut
<1>13. IsHeader(more)
  BY <1>9, <1>12, LinePut
<1>14. /\ \A g : g # e[1] => ValuesOf(more, g) = ValuesOf(lines, g)
       /\ Places(lines, e[1]) = {} => ValuesOf(more, e[1]) = << e[2] >>
  BY <1>12, OneMore
<1>15. QED
  BY <1>9, <1>11, <1>13, <1>14

\* Body::set touches no other field.
LEMMA SetInValues ==
  ASSUME NEW fields, IsFields(fields), NEW f, NEW value
  PROVE  /\ IsFields(SetIn(fields, f, value))
         /\ \A g : g # f => ValuesOf(SetIn(fields, f, value), g) = ValuesOf(fields, g)
<1> DEFINE named == Places(fields, f)
           e == <<f, value>>
<1>0. IsSequence(fields)
  BY DEF IsFields
<1>1. PICK n \in Nat : n = Len(fields)
  BY <1>0, SequenceShape
<1>2. DOMAIN fields = 1..n
  BY <1>0, <1>1, SequenceShape
<1>3. IsPair(e) /\ e[1] = f
  BY DEF IsPair
<1>4. CASE named = {}
  <2>1. SetIn(fields, f, value) = Append(fields, e)
    BY <1>4 DEF SetIn
  <2> HIDE DEF e
  <2>2. PICK more : more = Append(fields, e)
    OBVIOUS
  <2>3. IsPut(more, fields, n + 1, e)
    <3>1. PICK L : L = ToSet(fields) \cup {e}
      OBVIOUS
    <3>2. \A i \in 1..n : fields[i] \in L
      BY <1>2, <3>1 DEF ToSet
    <3>3. fields \in Seq(L)
      <4>1. fields \in [1..n -> L]
        BY <3>2, <1>0, <1>1, SequenceShape
      <4>2. QED
        BY <4>1
    <3>4. e \in L
      BY <3>1
    <3>5. /\ more \in Seq(L) /\ Len(more) = n + 1
          /\ \A i \in 1..n : more[i] = fields[i]
          /\ more[n + 1] = e
      BY <3>3, <3>4, <2>2, <1>1, AppendProperties
    <3>6. more = [i \in 1..(n + 1) |-> more[i]]
      BY <3>5
    <3>7. \A i \in 1..(n + 1) :
             more[i] = IF i < n + 1 THEN fields[i] ELSE IF i = n + 1 THEN e ELSE fields[i - 1]
      BY <3>5
    <3>8. more = [i \in 1..(n + 1) |->
                    IF i < n + 1 THEN fields[i] ELSE IF i = n + 1 THEN e ELSE fields[i - 1]]
      BY <3>6, <3>7
    <3>9. n + 1 \in 1..(n + 1)
      OBVIOUS
    <3>10. QED
      BY <1>0, <1>1, <3>8, <3>9 DEF IsPut
  <2>4. IsFields(more)
    BY <2>3, <1>3, LinePut
  <2>5. \A g : g # e[1] => ValuesOf(more, g) = ValuesOf(fields, g)
    BY <2>3, OneMore
  <2>6. QED
    BY <2>1, <2>2, <2>4, <2>5, <1>3
<1>5. CASE named # {}
  <2>1. named \in SUBSET (1..n)
    BY <1>2 DEF Places
  <2>2. named \in SUBSET Nat /\ IsFiniteSet(named)
    <3> HIDE DEF named
    <3>1. QED
      BY <1>2, <2>1, PlacesFinite
  <2>3. PICK first \in named : first = Min(named)
    <3> HIDE DEF named
    <3>1. QED
      BY <2>2, <1>5, LeastPlace
  <2> DEFINE changed == [fields EXCEPT ![first] = e]
             kept == (DOMAIN fields \ named) \cup {first}
  <2>4. SetIn(fields, f, value) = Picked(changed, kept)
    BY <1>5, <2>3 DEF SetIn
  <2>5. changed = [i \in 1..n |-> IF i = first THEN e ELSE fields[i]]
    BY <1>0, <1>1, <1>2, <2>1, SequenceShape
  <2> HIDE DEF changed, e
  <2>6. changed = [i \in 1..n |-> changed[i]]
    BY <2>5
  <2>7. IsSequence(changed) /\ Len(changed) = n /\ DOMAIN changed = 1..n
    BY <2>6, SequenceMade
  <2>8. \A i \in 1..n : IsPair(changed[i]) /\ changed[i][1] = fields[i][1]
    <3>1. TAKE i \in 1..n
    <3>2. changed[i] = IF i = first THEN e ELSE fields[i]
      BY <2>5
    <3>3. IsPair(fields[i])
      BY <1>2 DEF IsFields
    <3>4. fields[first][1] = f
      BY <2>3 DEF Places
    <3>5. QED
      BY <3>2, <3>3, <3>4, <1>3
  <2>9. kept \in SUBSET DOMAIN changed
    BY <2>1, <2>7, <1>2
  <2>10. \A g : g # f => /\ Places(changed, g) \subseteq kept
                         /\ ValuesOf(changed, g) = ValuesOf(fields, g)
    <3>1. SUFFICES ASSUME NEW g, g # f
                   PROVE  /\ Places(changed, g) \subseteq kept
                          /\ ValuesOf(changed, g) = ValuesOf(fields, g)
      OBVIOUS
    <3>2. \A i \in Places(changed, g) : i \in 1..n /\ i \notin named
      BY <3>1, <2>7, <2>8 DEF Places
    <3>3. Places(changed, g) \subseteq kept
      BY <3>2, <1>2
    <3>4. \A i \in DOMAIN fields : changed[i][1] = fields[i][1]
      BY <2>8, <1>2
    <3>5. \A i \in DOMAIN fields : fields[i][1] = g => changed[i][2] = fields[i][2]
      <4>1. SUFFICES ASSUME NEW i \in DOMAIN fields, fields[i][1] = g PROVE changed[i] = fields[i]
        OBVIOUS
      <4>2. fields[first][1] = f
        BY <2>3 DEF Places
      <4>3. i # first
        BY <4>1, <4>2, <3>1
      <4>4. QED
        BY <4>3, <2>5, <1>2
    <3>6. ValuesOf(changed, g) = ValuesOf(fields, g)
      <4>1. AreAlike(changed, fields)
        BY <3>4, <1>0, <1>1, <2>7 DEF AreAlike
      <4>2. QED
        BY <4>1, <3>5, SameNames
    <3>7. QED
      BY <3>3, <3>6
  <2> HIDE DEF kept
  <2>11. PICK picked : picked = Picked(changed, kept)
    OBVIOUS
  <2>12. /\ IsSequence(picked)
         /\ \A k \in DOMAIN picked : \E i \in kept : picked[k] = changed[i]
    BY <2>7, <2>9, <2>11, PickedLines
  <2>13. \A g : Places(changed, g) \subseteq kept => ValuesOf(picked, g) = ValuesOf(changed, g)
    BY <2>7, <2>9, <2>11, PickedLines
  <2>14. IsFields(picked)
    BY <2>7, <2>8, <2>9, <2>12 DEF IsFields
  <2>15. QED
    BY <2>4, <2>10, <2>11, <2>13, <2>14
<1>6. QED
  BY <1>4, <1>5

\* A standard field has a place in the order, and any other comes after.
LEMMA RankType ==
  ASSUME NEW name
  PROVE  Rank(name) \in Nat
<1>1. DOMAIN FieldOrder = 1..22 /\ Len(FieldOrder) = 22
  BY DEF FieldOrder
<1>2. DOMAIN FieldOrder \subseteq Nat /\ Len(FieldOrder) \in Nat
  BY <1>1
<1>3. CASE name \in Field
  <2>1. \E i \in DOMAIN FieldOrder : FieldOrder[i] = name
    BY <1>3 DEF Field, ToSet
  <2>2. (CHOOSE i \in DOMAIN FieldOrder : FieldOrder[i] = name) \in DOMAIN FieldOrder
    BY <2>1
  <2>3. QED
    BY <1>2, <1>3, <2>2 DEF Rank
<1>4. CASE name \notin Field
  BY <1>2, <1>4 DEF Rank
<1>5. QED
  BY <1>3, <1>4

\* canonicalize sorts stably: every field keeps its values in their order.
LEMMA CanonicalValues ==
  ASSUME NEW lines, IsHeader(lines)
  PROVE  /\ IsHeader(Canonical(lines))
         /\ \A f : ValuesOf(Canonical(lines), f) = ValuesOf(lines, f)
<1>0. IsSequence(lines)
  BY DEF IsHeader
<1>1. PICK n \in Nat : n = Len(lines)
  BY <1>0, SequenceShape
<1>2. DOMAIN lines = 1..n
  BY <1>0, <1>1, SequenceShape
<1> DEFINE S == 1..n
           R == {p \in S \X S : Precedes(lines, p[1], p[2])}
           Rk(i) == Cardinality({j \in S : Precedes(lines, j, i)})
           placeOf(k) == CHOOSE i \in S : Rk(i) = k - 1
<1>3. \A i \in S : {j \in S : <<j, i>> \in R} = {j \in S : Precedes(lines, j, i)}
  OBVIOUS
<1>4. \A i, j \in S : <<i, j>> \in R <=> Precedes(lines, i, j)
  OBVIOUS
<1>5. \A i \in S : Rank(lines[i][1]) \in Nat
  BY RankType
<1>6. IsFiniteSet(S) /\ Cardinality(S) = n
  <2>1. 1 \in Int /\ n \in Int
    OBVIOUS
  <2>2. IsFiniteSet(1..n) /\ Cardinality(1..n) = IF 1 > n THEN 0 ELSE n - 1 + 1
    BY <2>1, FS_Interval
  <2>3. QED
    BY <2>2
<1>7. /\ \A i \in S : RankIn(R, S, i) \in 0..(n - 1)
      /\ \A i, k \in S : <<i, k>> \in R => RankIn(R, S, i) < RankIn(R, S, k)
      /\ \A k \in 1..n : \E i \in S : RankIn(R, S, i) = k - 1
  <2>1. \A i \in S : <<i, i>> \notin R
    BY <1>4, <1>5 DEF Precedes
  <2>2. \A i, j \in S : i # j => <<i, j>> \in R \/ <<j, i>> \in R
    <3>1. SUFFICES ASSUME NEW i \in S, NEW j \in S, i # j
                   PROVE  Precedes(lines, i, j) \/ Precedes(lines, j, i)
      BY <1>4
    <3>2. Rank(lines[i][1]) \in Nat /\ Rank(lines[j][1]) \in Nat
      BY <1>5
    <3>3. QED
      BY <3>1, <3>2 DEF Precedes
  <2>3. \A i, j, k \in S : <<i, j>> \in R /\ <<j, k>> \in R => <<i, k>> \in R
    <3>1. SUFFICES ASSUME NEW i \in S, NEW j \in S, NEW k \in S,
                          Precedes(lines, i, j), Precedes(lines, j, k)
                   PROVE  Precedes(lines, i, k)
      BY <1>4
    <3>2. Rank(lines[i][1]) \in Nat /\ Rank(lines[j][1]) \in Nat /\ Rank(lines[k][1]) \in Nat
      BY <1>5
    <3>3. QED
      BY <3>1, <3>2 DEF Precedes
  <2>0. IsStrictOrder(R, S)
    BY <2>1, <2>2, <2>3 DEF IsStrictOrder
  <2> HIDE DEF R, S
  <2>4. /\ Cardinality(S) \in Nat
        /\ \A i \in S : RankIn(R, S, i) \in 0..(Cardinality(S) - 1)
        /\ \A i, k \in S : <<i, k>> \in R => RankIn(R, S, i) < RankIn(R, S, k)
        /\ \A k \in 1..Cardinality(S) : \E i \in S : RankIn(R, S, i) = k - 1
    BY <1>6, <2>0, RankedOnce
  <2>5. QED
    BY <1>6, <2>4
<1>8. \A i \in S : RankIn(R, S, i) = Rk(i)
  BY <1>3 DEF RankIn
<1>9. \A i \in S : Rk(i) \in 0..(n - 1)
  <2> HIDE DEF Rk, R
  <2>1. QED
    BY <1>7, <1>8
<1>10. \A i, k \in S : Precedes(lines, i, k) => Rk(i) < Rk(k)
  <2> HIDE DEF Rk, R
  <2>1. QED
    BY <1>4, <1>7, <1>8
<1>11. \A k \in S : placeOf(k) \in S /\ Rk(placeOf(k)) = k - 1
  <2>1. TAKE k \in S
  <2>2. PICK i \in S : RankIn(R, S, i) = k - 1
    BY <1>7
  <2>3. Rk(i) = k - 1
    BY <2>2, <1>8
  <2> HIDE DEF Rk, S
  <2>4. QED
    BY <2>3
<1>12. \A i \in S : \E k \in S : placeOf(k) = i
  <2>1. SUFFICES ASSUME NEW i \in S PROVE \E k \in S : placeOf(k) = i
    OBVIOUS
  <2>2. \A a, b \in S : a # b => Rk(a) < Rk(b) \/ Rk(b) < Rk(a)
    <3>1. SUFFICES ASSUME NEW a \in S, NEW b \in S, a # b PROVE Rk(a) < Rk(b) \/ Rk(b) < Rk(a)
      OBVIOUS
    <3>2. Rank(lines[a][1]) \in Nat /\ Rank(lines[b][1]) \in Nat
      BY <1>5
    <3>3. Precedes(lines, a, b) \/ Precedes(lines, b, a)
      BY <3>1, <3>2 DEF Precedes
    <3> HIDE DEF Rk
    <3>4. QED
      BY <3>3, <1>10
  <2> HIDE DEF Rk, placeOf
  <2>3. Rk(i) \in 0..(n - 1)
    BY <1>9
  <2>4. PICK k \in S : k = Rk(i) + 1
    BY <2>3
  <2>5. placeOf(k) \in S /\ Rk(placeOf(k)) = Rk(i)
    BY <2>3, <2>4, <1>11
  <2>6. placeOf(k) = i
    BY <2>2, <2>3, <2>5
  <2>7. QED
    BY <2>6
<1>13. \A k, l \in S : Precedes(lines, placeOf(k), placeOf(l)) => k < l
  <2>1. SUFFICES ASSUME NEW k \in S, NEW l \in S, Precedes(lines, placeOf(k), placeOf(l)) PROVE k < l
    OBVIOUS
  <2> HIDE DEF Rk, placeOf
  <2>2. placeOf(k) \in S /\ placeOf(l) \in S /\ Rk(placeOf(k)) = k - 1 /\ Rk(placeOf(l)) = l - 1
    BY <1>11
  <2>3. Rk(placeOf(k)) < Rk(placeOf(l))
    BY <2>1, <2>2, <1>10
  <2>4. QED
    BY <2>2, <2>3
<1>14. PICK sorted : sorted = Canonical(lines)
  OBVIOUS
<1>15. sorted = [k \in S |-> Standardized(lines[placeOf(k)])]
  BY <1>2, <1>14 DEF Canonical
<1> HIDE DEF placeOf, Rk, R
<1>16. sorted = [k \in 1..n |-> sorted[k]]
  BY <1>15
<1>17. IsSequence(sorted) /\ DOMAIN sorted = 1..n
  BY <1>16, SequenceMade
<1>18. \A k \in S : /\ placeOf(k) \in S /\ IsLine(sorted[k])
                    /\ sorted[k][1] = lines[placeOf(k)][1] /\ sorted[k][2] = lines[placeOf(k)][2]
  <2>1. TAKE k \in S
  <2>2. PICK line : line = lines[placeOf(k)]
    OBVIOUS
  <2>3. placeOf(k) \in S /\ IsLine(line)
    BY <2>2, <1>2, <1>11 DEF IsHeader
  <2>4. sorted[k] = Standardized(line)
    BY <2>2, <1>15
  <2>5. Standardized(line) = line \/ Standardized(line) = <<line[1], line[2], TRUE>>
    BY <2>3, LineChanged DEF Standardized
  <2>6. PICK x, y, z : line = <<x, y, z>>
    BY <2>3 DEF IsLine
  <2>7. \E b : sorted[k] = <<x, y, b>>
    BY <2>4, <2>5, <2>6
  <2>8. QED
    BY <2>2, <2>3, <2>6, <2>7 DEF IsLine
<1>19. IsHeader(sorted)
  BY <1>17, <1>18 DEF IsHeader
<1>20. ASSUME NEW f PROVE ValuesOf(sorted, f) = ValuesOf(lines, f)
  <2> DEFINE T == Places(sorted, f)
             P == Places(lines, f)
             h == [k \in T |-> placeOf(k)]
  <2>1. \A k \in T : /\ k \in S /\ placeOf(k) \in S /\ sorted[k][2] = lines[placeOf(k)][2]
                     /\ lines[placeOf(k)][1] = f
    BY <1>17, <1>18 DEF Places
  <2>2. \A k \in T : h[k] \in P
    BY <2>1, <1>2 DEF Places
  <2>3. h \in [T -> P]
    BY <2>2
  <2>4. \A i, k \in T : i < k => h[i] < h[k]
    <3>1. SUFFICES ASSUME NEW i \in T, NEW k \in T, i < k PROVE placeOf(i) < placeOf(k)
      OBVIOUS
    <3>2. i \in S /\ k \in S /\ placeOf(i) \in S /\ placeOf(k) \in S /\ lines[placeOf(i)][1] = lines[placeOf(k)][1]
      BY <2>1
    <3> HIDE DEF T
    <3>3. Rk(placeOf(i)) = i - 1 /\ Rk(placeOf(k)) = k - 1
      BY <3>2, <1>11
    <3>4. placeOf(i) # placeOf(k)
      BY <3>1, <3>2, <3>3
    <3>5. ~(placeOf(k) < placeOf(i))
      <4>1. SUFFICES ASSUME placeOf(k) < placeOf(i) PROVE FALSE
        OBVIOUS
      <4>2. Precedes(lines, placeOf(k), placeOf(i))
        BY <3>2, <4>1 DEF Precedes
      <4>3. k < i
        BY <4>2, <3>2, <1>13
      <4>4. QED
        BY <4>3, <3>1, <3>2
    <3>6. QED
      BY <3>2, <3>4, <3>5
  <2>5. \A i \in P : \E k \in T : h[k] = i
    <3>1. SUFFICES ASSUME NEW i \in P PROVE \E k \in T : h[k] = i
      OBVIOUS
    <3>2. i \in S /\ lines[i][1] = f
      BY <1>2 DEF Places
    <3>3. PICK k \in S : placeOf(k) = i
      BY <3>2, <1>12
    <3>4. k \in T
      BY <3>2, <3>3, <1>17, <1>18 DEF Places
    <3>5. QED
      BY <3>3, <3>4
  <2>6. \A k \in T : sorted[k][2] = lines[h[k]][2]
    BY <2>1
  <2> HIDE DEF h
  <2>7. QED
    BY <1>2, <1>17, <2>3, <2>4, <2>5, <2>6, ValuesCarried
<1>21. QED
  BY <1>14, <1>19, <1>20

-----------------------------------------------------------------------------
\* What each operation makes of a record.

\* All but the fields in F has its values in r2 as in r.
SameBut(F, r, r2) ==
  /\ r2.version = r.version
  /\ \A f : f \notin F => ValuesOf(r2.lines, f) = ValuesOf(r.lines, f)

\* A record with other lines, whose fields outside F are as they were.
LEMMA WithLines ==
  ASSUME NEW r, IsRecord(r), NEW lines, IsHeader(lines), NEW F, "PayloadDigest" \notin F,
         \A f : f \notin F => ValuesOf(lines, f) = ValuesOf(r.lines, f)
  PROVE  /\ [r EXCEPT !.lines = lines].lines = lines
         /\ [r EXCEPT !.lines = lines].block = r.block
         /\ IsRecord([r EXCEPT !.lines = lines])
         /\ SameBut(F, r, [r EXCEPT !.lines = lines])
<1>1. PICK v, l, b : r = [version |-> v, lines |-> l, block |-> b]
  BY DEF IsRecord
<1>2. PICK s : s = [version |-> v, lines |-> lines, block |-> b]
  OBVIOUS
<1>3. [r EXCEPT !.lines = lines] = s
  BY <1>1, <1>2
<1>4. s.lines = lines /\ s.block = r.block /\ s.version = r.version
      /\ s = [version |-> s.version, lines |-> s.lines, block |-> s.block]
  BY <1>1, <1>2
<1>5. SameBut(F, r, s)
  BY <1>4 DEF SameBut
<1>6. ValuesOf(s.lines, "PayloadDigest") = ValuesOf(r.lines, "PayloadDigest")
  BY <1>4
<1>7. IsRecord(s)
  BY <1>4, <1>6 DEF IsRecord
<1>8. QED
  BY <1>3, <1>4, <1>5, <1>7

\* A record that is left alone.
LEMMA RecordAsIs ==
  ASSUME NEW r, NEW F
  PROVE  SameBut(F, r, r)
BY DEF SameBut

\* A header whose lines keep their names.
LEMMA PointwiseHeader ==
  ASSUME NEW lines, IsHeader(lines), NEW lines2, lines2 = [i \in DOMAIN lines |-> lines2[i]],
         \A i \in DOMAIN lines : IsLine(lines2[i]) /\ lines2[i][1] = lines[i][1]
  PROVE  /\ IsHeader(lines2) /\ AreAlike(lines2, lines)
         /\ DOMAIN lines2 = DOMAIN lines
<1>1. PICK n \in Nat : n = Len(lines) /\ DOMAIN lines = 1..n
  BY SequenceShape DEF IsHeader
<1>2. lines2 = [i \in 1..n |-> lines2[i]]
  BY <1>1
<1>3. IsSequence(lines2) /\ Len(lines2) = n /\ DOMAIN lines2 = 1..n
  BY <1>2, SequenceMade
<1>4. QED
  BY <1>1, <1>3 DEF IsHeader, AreAlike

\* WithValue: every line of the field has the value, and no other is touched.
LEMMA WithValueValues ==
  ASSUME NEW lines, IsHeader(lines), NEW f, NEW value
  PROVE  /\ IsHeader(WithValue(lines, f, value))
         /\ \A g : g # f => ValuesOf(WithValue(lines, f, value), g) = ValuesOf(lines, g)
         /\ DOMAIN ValuesOf(WithValue(lines, f, value), f) = DOMAIN ValuesOf(lines, f)
         /\ \A k \in DOMAIN ValuesOf(lines, f) : ValuesOf(WithValue(lines, f, value), f)[k] = value
<1>1. PICK lines2 : lines2 = WithValue(lines, f, value)
  OBVIOUS
<1>2. lines2 = [i \in DOMAIN lines |-> lines2[i]]
  BY <1>1 DEF WithValue
<1>3. \A i \in DOMAIN lines : lines2[i] = IF lines[i][1] = f THEN <<lines[i][1], value, lines[i][3]>> ELSE lines[i]
  <2>1. TAKE i \in DOMAIN lines
  <2>2. lines2[i] = IF lines[i][1] = f THEN [lines[i] EXCEPT ![2] = value] ELSE lines[i]
    BY <1>1 DEF WithValue
  <2>3. [lines[i] EXCEPT ![2] = value] = <<lines[i][1], value, lines[i][3]>>
    BY LineChanged DEF IsHeader
  <2>4. QED
    BY <2>2, <2>3
<1>4. \A i \in DOMAIN lines : IsLine(lines2[i]) /\ lines2[i][1] = lines[i][1]
  <2>1. TAKE i \in DOMAIN lines
  <2>2. CASE lines[i][1] = f
    <3>1. lines2[i] = <<lines[i][1], value, lines[i][3]>>
      BY <2>2, <1>3
    <3>2. QED
      BY <3>1 DEF IsLine
  <2>3. CASE lines[i][1] # f
    BY <2>3, <1>3 DEF IsHeader
  <2>4. QED
    BY <2>2, <2>3
<1>5. IsHeader(lines2) /\ AreAlike(lines2, lines)
  BY <1>2, <1>4, PointwiseHeader
<1>6. ASSUME NEW g, g # f PROVE ValuesOf(lines2, g) = ValuesOf(lines, g)
  <2>1. \A i \in DOMAIN lines : lines[i][1] = g => lines2[i][2] = lines[i][2]
    BY <1>3, <1>6
  <2>2. QED
    BY <2>1, <1>5, SameNames
<1>7. DOMAIN ValuesOf(lines2, f) = DOMAIN ValuesOf(lines, f)
  BY <1>5, SameNames
<1>8. ASSUME NEW k \in DOMAIN ValuesOf(lines, f) PROVE ValuesOf(lines2, f)[k] = value
  <2>1. PICK i \in DOMAIN lines : lines[i][1] = f /\ ValuesOf(lines2, f)[k] = lines2[i][2]
    BY <1>5, SamePlace
  <2>2. lines2[i] = <<lines[i][1], value, lines[i][3]>>
    BY <2>1, <1>3
  <2>3. QED
    BY <2>1, <2>2
<1>9. QED
  BY <1>1, <1>5, <1>6, <1>7, <1>8

\* set_filename.
LEMMA RenamedValues ==
  ASSUME NEW lines, IsHeader(lines), NEW filename
  PROVE  /\ IsHeader(Renamed(lines, filename))
         /\ \A g : g # "Filename" => ValuesOf(Renamed(lines, filename), g) = ValuesOf(lines, g)
<1>1. CASE filename = Unset
  BY <1>1, WithoutLines DEF Renamed
<1>2. CASE filename # Unset
  BY <1>2, WithValueValues DEF Renamed
<1>3. QED
  BY <1>1, <1>2

\* redirect_references.
RedirectOf(redirects, id) == IF id \in DOMAIN redirects THEN redirects[id] ELSE id

\* Redirected: references go where they are sent, and nothing else moves.
LEMMA RedirectedValues ==
  ASSUME NEW lines, IsHeader(lines), NEW redirects
  PROVE  /\ IsHeader(Redirected(lines, redirects))
         /\ \A g : g \notin ReferenceFields => ValuesOf(Redirected(lines, redirects), g) = ValuesOf(lines, g)
         /\ \A f : /\ DOMAIN ValuesOf(Redirected(lines, redirects), f) = DOMAIN ValuesOf(lines, f)
                   /\ Len(ValuesOf(Redirected(lines, redirects), f)) = Len(ValuesOf(lines, f))
         /\ \A f \in ReferenceFields : \A k \in DOMAIN ValuesOf(lines, f) :
               ValuesOf(Redirected(lines, redirects), f)[k] = RedirectOf(redirects, ValuesOf(lines, f)[k])
<1>1. PICK lines2 : lines2 = Redirected(lines, redirects)
  OBVIOUS
<1>2. lines2 = [i \in DOMAIN lines |-> lines2[i]]
  BY <1>1 DEF Redirected
<1>3. \A i \in DOMAIN lines :
         IF lines[i][1] \in ReferenceFields
         THEN lines2[i] = <<lines[i][1], RedirectOf(redirects, lines[i][2]), lines[i][3]>>
         ELSE lines2[i] = lines[i]
  <2>1. TAKE i \in DOMAIN lines
  <2>2. lines2[i] = IF lines[i][1] \in ReferenceFields /\ lines[i][2] \in DOMAIN redirects
                    THEN [lines[i] EXCEPT ![2] = redirects[@]] ELSE lines[i]
    BY <1>1 DEF Redirected
  <2>3. PICK x, y, z : lines[i] = <<x, y, z>>
    BY DEF IsHeader, IsLine
  <2>4. [lines[i] EXCEPT ![2] = redirects[@]] = <<x, redirects[y], z>>
    BY <2>3
  <2>5. QED
    BY <2>2, <2>3, <2>4 DEF RedirectOf
<1>4. \A i \in DOMAIN lines : IsLine(lines2[i]) /\ lines2[i][1] = lines[i][1]
  <2>1. TAKE i \in DOMAIN lines
  <2>2. CASE lines[i][1] \in ReferenceFields
    <3>1. PICK y : lines2[i] = <<lines[i][1], y, lines[i][3]>>
      BY <2>2, <1>3
    <3>2. QED
      BY <3>1 DEF IsLine
  <2>3. CASE lines[i][1] \notin ReferenceFields
    BY <2>3, <1>3 DEF IsHeader
  <2>4. QED
    BY <2>2, <2>3
<1>5. IsHeader(lines2) /\ AreAlike(lines2, lines)
  BY <1>2, <1>4, PointwiseHeader
<1>6. ASSUME NEW g, g \notin ReferenceFields PROVE ValuesOf(lines2, g) = ValuesOf(lines, g)
  <2>1. \A i \in DOMAIN lines : lines[i][1] = g => lines2[i][2] = lines[i][2]
    BY <1>3, <1>6
  <2>2. QED
    BY <2>1, <1>5, SameNames
<1>7. \A f : /\ DOMAIN ValuesOf(lines2, f) = DOMAIN ValuesOf(lines, f)
             /\ Len(ValuesOf(lines2, f)) = Len(ValuesOf(lines, f))
  BY <1>5, SameNames
<1>8. ASSUME NEW f \in ReferenceFields, NEW k \in DOMAIN ValuesOf(lines, f)
      PROVE  ValuesOf(lines2, f)[k] = RedirectOf(redirects, ValuesOf(lines, f)[k])
  <2>1. PICK i \in DOMAIN lines : /\ lines[i][1] = f /\ ValuesOf(lines, f)[k] = lines[i][2]
                                  /\ ValuesOf(lines2, f)[k] = lines2[i][2]
    BY <1>5, SamePlace
  <2>2. lines2[i] = <<lines[i][1], RedirectOf(redirects, lines[i][2]), lines[i][3]>>
    BY <2>1, <1>3
  <2>3. QED
    BY <2>1, <2>2
<1>9. QED
  BY <1>1, <1>5, <1>6, <1>7, <1>8

\* A field that is there has a first value, and one that is not has none.
LEMMA HasField ==
  ASSUME NEW r, IsRecord(r), NEW f
  PROVE  /\ IsSequence(ValuesOf(r.lines, f))
         /\ Has(r, f) <=> Places(r.lines, f) # {}
         /\ Has(r, f) => 1 \in DOMAIN ValuesOf(r.lines, f)
         /\ ~Has(r, f) => ValuesOf(r.lines, f) = << >>
<1>1. IsSequence(r.lines)
  BY DEF IsRecord, IsHeader
<1>2. /\ IsSequence(ValuesOf(r.lines, f))
      /\ ValuesOf(r.lines, f) # << >> <=> Places(r.lines, f) # {}
  BY <1>1, FieldThere
<1>3. ASSUME Has(r, f) PROVE 1 \in DOMAIN ValuesOf(r.lines, f)
  <2>1. Places(r.lines, f) # {} /\ Places(r.lines, f) \in SUBSET Nat /\ IsFiniteSet(Places(r.lines, f))
    BY <1>1, <1>2, <1>3, FieldThere DEF Has
  <2>2. 1 \in 1..Cardinality(Places(r.lines, f))
    BY <2>1, LeastPlace
  <2>3. QED
    BY <1>1, <2>2, FieldThere
<1>4. QED
  BY <1>2, <1>3 DEF Has

\* What is declared is a matter of the values alone.
LEMMA SameDeclared ==
  ASSUME NEW r, NEW r2, NEW f, ValuesOf(r2.lines, f) = ValuesOf(r.lines, f)
  PROVE  /\ Has(r2, f) <=> Has(r, f)
         /\ First(r2, f) = First(r, f)
         /\ f = "WarcType" => \A type : Declares(r2, type) <=> Declares(r, type)
BY DEF Has, First, Declares

\* Propagated: one field more, of a revisit that has none.
LEMMA PropagatedValues ==
  ASSUME NEW r, IsRecord(r), NEW types
  PROVE  /\ IsRecord(Propagated(r, types)) /\ Propagated(r, types).block = r.block
         /\ SameBut({"IdentifiedPayloadType"}, r, Propagated(r, types))
         /\ IF /\ Declares(r, "revisit") /\ ~Has(r, "IdentifiedPayloadType")
               /\ Has(r, "RefersTo") /\ First(r, "RefersTo") \in DOMAIN types
            THEN PayloadType(Propagated(r, types)) = << types[First(r, "RefersTo")] >>
            ELSE Propagated(r, types) = r
<1>1. CASE /\ Declares(r, "revisit") /\ ~Has(r, "IdentifiedPayloadType")
           /\ Has(r, "RefersTo") /\ First(r, "RefersTo") \in DOMAIN types
  <2>1. PICK lines : lines = Inserted(r.lines, "IdentifiedPayloadType", types[First(r, "RefersTo")])
    OBVIOUS
  <2>2. IsHeader(r.lines) /\ Places(r.lines, "IdentifiedPayloadType") = {}
    BY <1>1, HasField DEF IsRecord
  <2>3. /\ IsHeader(lines)
        /\ \A g : g # "IdentifiedPayloadType" => ValuesOf(lines, g) = ValuesOf(r.lines, g)
        /\ ValuesOf(lines, "IdentifiedPayloadType") = <<types[First(r, "RefersTo")]>>
    BY <2>1, <2>2, InsertedValues
  <2>4. Propagated(r, types) = [r EXCEPT !.lines = lines]
    BY <1>1, <2>1 DEF Propagated
  <2>5. "PayloadDigest" \notin {"IdentifiedPayloadType"}
    OBVIOUS
  <2>6. /\ [r EXCEPT !.lines = lines].lines = lines
        /\ [r EXCEPT !.lines = lines].block = r.block
        /\ IsRecord([r EXCEPT !.lines = lines])
        /\ SameBut({"IdentifiedPayloadType"}, r, [r EXCEPT !.lines = lines])
    BY <2>3, <2>5, WithLines
  <2>7. QED
    BY <1>1, <2>3, <2>4, <2>6 DEF PayloadType
<1>2. CASE ~(/\ Declares(r, "revisit") /\ ~Has(r, "IdentifiedPayloadType")
             /\ Has(r, "RefersTo") /\ First(r, "RefersTo") \in DOMAIN types)
  BY <1>2, RecordAsIs DEF Propagated
<1>3. QED
  BY <1>1, <1>2

\* canonicalize changes no values, and no order among those of a field.
LEMMA CanonicalRecord ==
  ASSUME NEW r, IsRecord(r), NEW r2, r2 = [r EXCEPT !.lines = Canonical(@)]
  PROVE  IsRecord(r2) /\ r2.block = r.block /\ SameBut({}, r, r2)
<1>1. PICK lines : lines = Canonical(r.lines)
  OBVIOUS
<1>2. IsHeader(lines) /\ \A f : f \notin {} => ValuesOf(lines, f) = ValuesOf(r.lines, f)
  BY <1>1, CanonicalValues DEF IsRecord
<1>3. r2 = [r EXCEPT !.lines = lines]
  BY <1>1
<1>4. "PayloadDigest" \notin {}
  OBVIOUS
<1>5. QED
  BY <1>2, <1>3, <1>4, WithLines

\* compress changes what the file is called.
LEMMA RenamedRecord ==
  ASSUME NEW r, IsRecord(r), NEW filename, NEW r2, r2 = [r EXCEPT !.lines = Renamed(@, filename)]
  PROVE  IsRecord(r2) /\ r2.block = r.block /\ SameBut({"Filename"}, r, r2)
<1>1. PICK lines : lines = Renamed(r.lines, filename)
  OBVIOUS
<1>2. IsHeader(lines) /\ \A f : f \notin {"Filename"} => ValuesOf(lines, f) = ValuesOf(r.lines, f)
  BY <1>1, RenamedValues DEF IsRecord
<1>3. r2 = [r EXCEPT !.lines = lines]
  BY <1>1
<1>4. "PayloadDigest" \notin {"Filename"}
  OBVIOUS
<1>5. QED
  BY <1>2, <1>3, <1>4, WithLines

\* Redigested: a digest of the same algorithm, in the same encoding.
LEMMA RedigestedValues ==
  ASSUME NEW r, IsRecord(r)
  PROVE  /\ IsRecord(Redigested(r)) /\ Redigested(r).block = r.block
         /\ SameBut({"PayloadDigest"}, r, Redigested(r))
         /\ DigestsKept(r, Redigested(r))
<1>1. CASE ~IsRedigested(r)
  <2>1. Redigested(r) = r
    BY <1>1 DEF Redigested
  <2>2. DigestsKept(r, r)
    BY DEF DigestsKept
  <2>3. QED
    BY <2>1, <2>2, RecordAsIs
<1>2. CASE IsRedigested(r)
  <2> DEFINE P == Places(r.lines, "PayloadDigest")
  <2>0. IsSequence(r.lines) /\ IsHeader(r.lines)
    BY DEF IsRecord, IsHeader
  <2>1. Has(r, "PayloadDigest")
    BY <1>2 DEF IsRedigested
  <2>2. P # {} /\ P \in SUBSET Nat /\ IsFiniteSet(P) /\ 1 \in DOMAIN ValuesOf(r.lines, "PayloadDigest")
    BY <2>0, <2>1, HasField, FieldThere
  <2> HIDE DEF P
  <2>3. PICK place \in P : place = Min(P)
    BY <2>2, LeastPlace
  <2>4. PICK v : v = r.lines[place][2]
    OBVIOUS
  <2>5. ValuesOf(r.lines, "PayloadDigest")[1] = v
    BY <2>0, <2>2, <2>3, <2>4, FieldThere DEF P
  <2>6. IsLine(v)
    BY <2>2, <2>5 DEF IsRecord
  <2>7. place \in DOMAIN r.lines /\ r.lines[place][1] = "PayloadDigest"
    BY <2>3 DEF P, Places
  <2>8. PICK lines : lines = [r.lines EXCEPT ![place][2][3] = FramedOf[r.block]]
    OBVIOUS
  <2>9. Redigested(r) = [r EXCEPT !.lines = lines]
    BY <1>2, <2>3, <2>8 DEF Redigested, P
  <2>10. \A i \in DOMAIN r.lines :
            lines[i] = IF i = place THEN <<r.lines[i][1], <<v[1], v[2], FramedOf[r.block]>>, r.lines[i][3]>>
                       ELSE r.lines[i]
    <3>1. TAKE i \in DOMAIN r.lines
    <3>2. CASE i # place
      BY <2>7, <2>8, <3>2
    <3>3. CASE i = place
      <4>1. PICK w : w = <<v[1], v[2], FramedOf[r.block]>>
        OBVIOUS
      <4>2. [v EXCEPT ![3] = FramedOf[r.block]] = w
        BY <4>1, <2>6, LineChanged
      <4>3. lines[place] = [r.lines[place] EXCEPT ![2] = [r.lines[place][2] EXCEPT ![3] = FramedOf[r.block]]]
        BY <2>7, <2>8
      <4>4. lines[place] = [r.lines[place] EXCEPT ![2] = w]
        BY <4>2, <4>3, <2>4
      <4>5. IsLine(r.lines[place])
        BY <2>0, <2>7 DEF IsHeader
      <4>6. [r.lines[place] EXCEPT ![2] = w] = <<r.lines[place][1], w, r.lines[place][3]>>
        BY <4>5, LineChanged
      <4>7. lines[place] = <<r.lines[place][1], w, r.lines[place][3]>>
        BY <4>4, <4>6
      <4>8. QED
        BY <4>1, <4>7, <3>3
    <3>4. QED
      BY <3>2, <3>3
  <2>11. \A i \in DOMAIN r.lines : IsLine(lines[i]) /\ lines[i][1] = r.lines[i][1]
    <3>1. TAKE i \in DOMAIN r.lines
    <3>2. CASE i # place
      BY <2>0, <2>10, <3>2 DEF IsHeader
    <3>3. CASE i = place
      <4>1. PICK y : lines[i] = <<r.lines[i][1], y, r.lines[i][3]>>
        BY <2>10, <3>3
      <4>2. QED
        BY <4>1 DEF IsLine
    <3>4. QED
      BY <3>2, <3>3
  <2>12. lines = [i \in DOMAIN r.lines |-> lines[i]]
    BY <2>8
  <2>13. IsHeader(lines) /\ AreAlike(lines, r.lines)
    BY <2>0, <2>11, <2>12, PointwiseHeader
  <2>14. \A f : f \notin {"PayloadDigest"} => ValuesOf(lines, f) = ValuesOf(r.lines, f)
    <3>1. SUFFICES ASSUME NEW f, f # "PayloadDigest" PROVE ValuesOf(lines, f) = ValuesOf(r.lines, f)
      OBVIOUS
    <3>2. \A i \in DOMAIN r.lines : r.lines[i][1] = f => lines[i][2] = r.lines[i][2]
      BY <2>7, <2>10, <3>1
    <3>3. QED
      BY <2>13, <3>2, SameNames
  <2>15. DOMAIN ValuesOf(lines, "PayloadDigest") = DOMAIN ValuesOf(r.lines, "PayloadDigest")
    BY <2>13, SameNames
  <2>16. \A k \in DOMAIN ValuesOf(r.lines, "PayloadDigest") :
            /\ IsLine(ValuesOf(lines, "PayloadDigest")[k])
            /\ ValuesOf(lines, "PayloadDigest")[k][1] = ValuesOf(r.lines, "PayloadDigest")[k][1]
            /\ ValuesOf(lines, "PayloadDigest")[k][2] = ValuesOf(r.lines, "PayloadDigest")[k][2]
    <3>1. TAKE k \in DOMAIN ValuesOf(r.lines, "PayloadDigest")
    <3>2. PICK i \in DOMAIN r.lines : /\ ValuesOf(r.lines, "PayloadDigest")[k] = r.lines[i][2]
                                      /\ ValuesOf(lines, "PayloadDigest")[k] = lines[i][2]
      BY <2>13, SamePlace
    <3>3. IsLine(ValuesOf(r.lines, "PayloadDigest")[k])
      BY DEF IsRecord
    <3>4. CASE i # place
      BY <2>10, <3>2, <3>3, <3>4
    <3>5. CASE i = place
      <4>1. PICK w : w = <<v[1], v[2], FramedOf[r.block]>>
        OBVIOUS
      <4>2. lines[i] = <<r.lines[i][1], w, r.lines[i][3]>>
        BY <2>10, <3>5, <4>1
      <4>3. lines[i][2] = w
        BY <4>2
      <4>4. IsLine(w) /\ w[1] = v[1] /\ w[2] = v[2]
        BY <4>1 DEF IsLine
      <4>5. QED
        BY <4>3, <4>4, <2>4, <3>2, <3>5
    <3>6. QED
      BY <3>4, <3>5
  <2>17. PICK r2 : r2 = [r EXCEPT !.lines = lines]
    OBVIOUS
  <2>18. /\ r2.lines = lines /\ r2.block = r.block /\ r2.version = r.version
         /\ r2 = [version |-> r2.version, lines |-> r2.lines, block |-> r2.block]
    BY <2>17 DEF IsRecord
  <2>19. IsRecord(r2)
    BY <2>13, <2>15, <2>16, <2>18 DEF IsRecord
  <2>20. SameBut({"PayloadDigest"}, r, r2)
    BY <2>14, <2>18 DEF SameBut
  <2>21. DigestsKept(r, r2)
    <3>1. \A k \in DOMAIN ValuesOf(r.lines, "PayloadDigest"), part \in 1..2 :
             ValuesOf(lines, "PayloadDigest")[k][part] = ValuesOf(r.lines, "PayloadDigest")[k][part]
      BY <2>16
    <3>2. QED
      BY <2>15, <2>18, <3>1 DEF DigestsKept
  <2>22. QED
    BY <2>9, <2>17, <2>18, <2>19, <2>20, <2>21
<1>3. QED
  BY <1>1, <1>2

\* RewrittenFields: what is not set stays, values and order.
LEMMA RewrittenFieldsKept ==
  ASSUME NEW fields, IsFields(fields), NEW values
  PROVE  /\ IsFields(RewrittenFields(fields, values))
         /\ \A g : g \notin {"software", "operator", "isPartOf"} =>
              ValuesOf(RewrittenFields(fields, values), g) = ValuesOf(fields, g)
<1>1. ASSUME NEW these, IsFields(these), NEW f, NEW head, NEW tail
      PROVE  /\ IsFields(SetParts(these, f, head, tail))
             /\ \A g : g # f => ValuesOf(SetParts(these, f, head, tail), g) = ValuesOf(these, g)
  <2>1. SetParts(these, f, head, tail) = these \/ \E x : SetParts(these, f, head, tail) = SetIn(these, f, x)
    BY DEF SetParts
  <2>2. QED
    BY <1>1, <2>1, SetInValues
<1>2. PICK software : software = SetParts(fields, "software", values.name, values.version)
  OBVIOUS
<1>3. PICK operator : operator = SetParts(software, "operator", values.operator, values.email)
  OBVIOUS
<1>4. IsFields(software) /\ \A g : g # "software" => ValuesOf(software, g) = ValuesOf(fields, g)
  BY <1>1, <1>2
<1>5. IsFields(operator) /\ \A g : g # "operator" => ValuesOf(operator, g) = ValuesOf(software, g)
  BY <1>1, <1>3, <1>4
<1>6. RewrittenFields(fields, values) = IF values.collection = Unset THEN operator
                                        ELSE SetIn(operator, "isPartOf", values.collection)
  BY <1>2, <1>3 DEF RewrittenFields
<1>7. \A x : /\ IsFields(SetIn(operator, "isPartOf", x))
             /\ \A g : g # "isPartOf" => ValuesOf(SetIn(operator, "isPartOf", x), g) = ValuesOf(operator, g)
  BY <1>5, SetInValues
<1>8. QED
  BY <1>4, <1>5, <1>6, <1>7

\* Rewritten: the length and the block digest are of the new block.
LEMMA RewrittenValues ==
  ASSUME NEW r, IsRecord(r), NEW values, r.block[1] = "fields", NEW r2, r2 = Rewritten(r, values)
  PROVE  /\ IsRecord(r2)
         /\ SameBut({"Filename", "ContentLength", "BlockDigest"}, r, r2)
         /\ r2.block = <<"fields", RewrittenFields(r.block[2], values)>>
         /\ ValuesOf(r2.lines, "ContentLength") = << r2.block >>
         /\ First(r2, "BlockDigest")[3] = r2.block
<1>1. PICK block : block = <<"fields", RewrittenFields(r.block[2], values)>>
  OBVIOUS
<1>2. PICK named : named = IF values.filename = Unset THEN r.lines
                           ELSE SetLine(r.lines, "Filename", values.filename)
  OBVIOUS
<1>3. PICK measured : measured = SetLine(named, "ContentLength", block)
  OBVIOUS
<1>4. PICK digested : digested = SetLine(measured, "BlockDigest", RefreshedDigest(r, block))
  OBVIOUS
<1>5. PICK lines : lines = Canonical(digested)
  OBVIOUS
<1>6. r2 = [r EXCEPT !.block = block, !.lines = lines]
  BY <1>1, <1>2, <1>3, <1>4, <1>5 DEF Rewritten
<1>7. /\ r2 = [version |-> r2.version, lines |-> r2.lines, block |-> r2.block]
      /\ r2.block = block /\ r2.lines = lines /\ r2.version = r.version
  <2>1. PICK x, y, z : r = [version |-> x, lines |-> y, block |-> z]
    BY DEF IsRecord
  <2>2. r2 = [version |-> x, lines |-> lines, block |-> block]
    BY <1>6, <2>1
  <2>3. QED
    BY <2>1, <2>2
<1>8. IsHeader(named) /\ \A g : g # "Filename" => ValuesOf(named, g) = ValuesOf(r.lines, g)
  BY <1>2, SetLineValues DEF IsRecord
<1>9. /\ IsHeader(measured) /\ ValuesOf(measured, "ContentLength") = <<block>>
      /\ \A g : g # "ContentLength" => ValuesOf(measured, g) = ValuesOf(named, g)
  BY <1>3, <1>8, SetLineValues
<1>10. /\ IsHeader(digested) /\ ValuesOf(digested, "BlockDigest") = <<RefreshedDigest(r, block)>>
       /\ \A g : g # "BlockDigest" => ValuesOf(digested, g) = ValuesOf(measured, g)
  BY <1>4, <1>9, SetLineValues
<1>11. IsHeader(lines) /\ \A g : ValuesOf(lines, g) = ValuesOf(digested, g)
  BY <1>5, <1>10, CanonicalValues
<1>12. \A g : g \notin {"Filename", "ContentLength", "BlockDigest"} => ValuesOf(lines, g) = ValuesOf(r.lines, g)
  BY <1>8, <1>9, <1>10, <1>11
<1>13. ValuesOf(lines, "ContentLength") = <<block>>
  BY <1>9, <1>10, <1>11
<1>14. ValuesOf(lines, "BlockDigest")[1] = RefreshedDigest(r, block)
  BY <1>10, <1>11
<1>15. RefreshedDigest(r, block)[3] = block
  BY DEF RefreshedDigest
<1>16. SameBut({"Filename", "ContentLength", "BlockDigest"}, r, r2)
  BY <1>7, <1>12 DEF SameBut
<1>17. IsFields(r.block[2])
  BY DEF IsRecord
<1>18. IsFields(block[2]) /\ block = <<"fields", block[2]>>
  BY <1>1, <1>17, RewrittenFieldsKept
<1>19. ValuesOf(r2.lines, "PayloadDigest") = ValuesOf(r.lines, "PayloadDigest")
  BY <1>7, <1>12
<1>20. IsRecord(r2)
  BY <1>7, <1>11, <1>18, <1>19 DEF IsRecord
<1>21. QED
  BY <1>1, <1>7, <1>13, <1>14, <1>15, <1>16, <1>20 DEF First

-----------------------------------------------------------------------------
\* The inductive invariant of the operations.

\* How a record is kept by an operation, and by any number of them.
BlockFollowed(was, is) ==
  \/ /\ is.block = was.block
     /\ \A f \in {"ContentLength", "BlockDigest"} : ValuesOf(is.lines, f) = ValuesOf(was.lines, f)
  \/ /\ Declares(was, "warcinfo") /\ was.block[1] = "fields" /\ is.block[1] = "fields"
     /\ ValuesOf(is.lines, "ContentLength") = << is.block >>
     /\ First(is, "BlockDigest")[3] = is.block
     /\ \A g : g \notin {"software", "operator", "isPartOf"}
                 => ValuesOf(is.block[2], g) = ValuesOf(was.block[2], g)

ReferencesKept(was, is) ==
  \A f \in ReferenceFields :
    /\ DOMAIN ValuesOf(is.lines, f) = DOMAIN ValuesOf(was.lines, f)
    /\ Len(ValuesOf(is.lines, f)) = Len(ValuesOf(was.lines, f))

Kept(was, is) ==
  /\ SameBut(OperatedFields, was, is)
  /\ BlockFollowed(was, is) /\ DigestsKept(was, is) /\ ReferencesKept(was, is)

Files(first, now) ==
  /\ IsSequence(first) /\ IsSequence(now) /\ Len(now) = Len(first) /\ DOMAIN now = DOMAIN first
  /\ \A i \in DOMAIN now : IsRecord(first[i]) /\ IsRecord(now[i]) /\ Kept(first[i], now[i])

\* Nothing was identified yet, or every record that can be was.
NamesUnchanged(first, now) ==
  \A i \in DOMAIN now, f \in ReferenceFields \cup {"RecordID"} :
    ValuesOf(now[i].lines, f) = ValuesOf(first[i].lines, f)

Distinct(archive) ==
  \A i, j \in DOMAIN archive :
    WrittenId(archive[i]) # << >> /\ WrittenId(archive[i]) = WrittenId(archive[j]) => i = j

Followed(first, now, before, after) ==
  /\ \A j \in DOMAIN first : WrittenId(first[j]) = <<before>> => WrittenId(now[j]) = <<after>>
  /\ NamedBy(first, before) = {} => after = before \/ NamedBy(now, after) # {}

NoneUnnamed(archive) ==
  \A i \in DOMAIN archive :
    IsIdentifiable(archive[i].version, archive[i].lines)
      => Has(archive[i], "RecordID") /\ First(archive[i], "RecordID") # NoId

IdsFollowed(first, now) ==
  /\ Distinct(first) /\ Distinct(now)
  /\ \A i \in DOMAIN now, f \in ReferenceFields : \A k \in DOMAIN ValuesOf(first[i].lines, f) :
       Followed(first, now, ValuesOf(first[i].lines, f)[k], ValuesOf(now[i].lines, f)[k])

NamesFollowed(first, now) == IdsFollowed(first, now) /\ NoneUnnamed(now)

IdsDerived(archive) ==
  \A i \in DOMAIN archive :
    DerivedId(archive[i]) # << >> => WrittenId(archive[i]) = DerivedId(archive[i])

\* The type of a record now is the one it had, or that of an original.
TypeOf(first, now, i) ==
  \/ PayloadType(now[i]) = PayloadType(first[i])
  \/ /\ PayloadType(first[i]) = << >> /\ Declares(first[i], "revisit")
     /\ \E originals \in {OriginalsOf(first, first[i]), OriginalsOf(now, now[i])} :
          /\ originals # {}
          /\ PayloadType(now[i]) = <<First(first[Min(originals)], "IdentifiedPayloadType")>>

TypeGiven(first, now, i) ==
  /\ Declares(first[i], "revisit")
  /\ \/ OriginalsOf(now, now[i]) # {}
     \/ OriginalsOf(first, first[i]) # {} /\ First(first[i], "RefersTo") # NoId
  => PayloadType(now[i]) # << >>

CopiedBy(t, p, r) ==
  CASE t[1] = "propagate"    -> Propagated(r, p)
    [] t[1] = "canonicalize" -> [r EXCEPT !.lines = Canonical(@)]
    [] t[1] = "digest"       -> Redigested(r)
    [] t[1] = "compress"     ->
         IF Declares(r, "warcinfo") THEN [r EXCEPT !.lines = Renamed(@, t[2])] ELSE r
    [] t[1] = "rewrite"      ->
         IF Declares(r, "warcinfo") THEN Rewritten(r, t[2]) ELSE r
    [] t[1] = "id"           -> Identified(r, p)

CannotCopyBy(t, r) == t[1] = "rewrite" /\ Declares(r, "warcinfo") /\ CannotRewrite(r, t[2])

Planned(t, p, archive) ==
  /\ t[1] = "id" => p = Redirects(archive) /\ ~CannotIdentify(archive)
  /\ t[1] = "propagate" => p = PayloadTypes(archive)

\* What is written of a file.
IsCopying(t, p, archive, written) ==
  /\ t \in Tasks /\ Planned(t, p, archive)
  /\ IsSequence(written) /\ Len(written) <= Len(archive)
  /\ \A k \in 1..Len(written) : ~CannotCopyBy(t, archive[k]) /\ written[k] = CopiedBy(t, p, archive[k])

IsCopyOf(t, p, r, r3) ==
  /\ IsRecord(r3) /\ Kept(r, r3)
  /\ t[1] # "id" => \A f \in ReferenceFields \cup {"RecordID"} : ValuesOf(r3.lines, f) = ValuesOf(r.lines, f)
  /\ t[1] # "propagate" => PayloadType(r3) = PayloadType(r)
  /\ t[1] # "rewrite" => r3.block = r.block
  /\ t[1] = "propagate" => r3 = Propagated(r, p)
  /\ t[1] = "id" => r3 = Identified(r, p)

\* What takes the place of a file.
IsCopiedFile(t, p, now, next) ==
  /\ IsSequence(now) /\ IsSequence(next) /\ Len(next) = Len(now) /\ DOMAIN next = DOMAIN now
  /\ Planned(t, p, now)
  /\ \A i \in DOMAIN now : IsRecord(now[i]) /\ IsCopyOf(t, p, now[i], next[i])

OperationsInv ==
  /\ source \in Archives
  /\ Files(source, file)
  /\ NamesUnchanged(source, file) \/ NamesFollowed(source, file)
  /\ derived => IdsDerived(file)
  /\ \A i \in DOMAIN file : TypeOf(source, file, i)
  /\ last # << >> /\ last[1] = "propagate" => \A i \in DOMAIN file : TypeGiven(source, file, i)
  /\ pass \in {"idle", "planning", "copying"}
  /\ pass # "idle" => task \in Tasks
  /\ pass # "copying" => output = << >>
  /\ pass = "copying" => IsCopying(task, plan, file, output)

-----------------------------------------------------------------------------
\* The fields an identity is made of are not among those operations change.
LEMMA FieldsOperated ==
  /\ \A f \in {"WarcType", "Date", "TargetURI", "RefersToDate", "RefersToTargetURI", "SegmentNumber",
               "SegmentTotalLength"} : f \notin OperatedFields
  /\ ReferenceFields \subseteq OperatedFields
BY DEF OperatedFields, ReferenceFields

\* A record that is left alone is kept.
LEMMA KeptAsIs ==
  ASSUME NEW r
  PROVE  Kept(r, r)
BY DEF Kept, SameBut, BlockFollowed, DigestsKept, ReferencesKept

\* What one operation after another keeps.
LEMMA KeptOn ==
  ASSUME NEW r1, NEW r2, NEW r3, Kept(r1, r2), Kept(r2, r3)
  PROVE  Kept(r1, r3)
<1>1. SameBut(OperatedFields, r1, r3)
  BY DEF Kept, SameBut
<1>2. DigestsKept(r1, r3)
  BY DEF Kept, DigestsKept
<1>3. ReferencesKept(r1, r3)
  BY DEF Kept, ReferencesKept
<1>4. Declares(r2, "warcinfo") <=> Declares(r1, "warcinfo")
  <2>1. ValuesOf(r2.lines, "WarcType") = ValuesOf(r1.lines, "WarcType")
    BY FieldsOperated DEF Kept, SameBut
  <2>2. QED
    BY <2>1 DEF Declares, Has, First
<1>5. BlockFollowed(r1, r3)
  <2>1. BlockFollowed(r1, r2) /\ BlockFollowed(r2, r3)
    BY DEF Kept
  <2>2. CASE /\ r3.block = r2.block
             /\ \A f \in {"ContentLength", "BlockDigest"} : ValuesOf(r3.lines, f) = ValuesOf(r2.lines, f)
    <3>1. First(r3, "BlockDigest") = First(r2, "BlockDigest")
      BY <2>2 DEF First
    <3>2. QED
      BY <2>1, <2>2, <3>1 DEF BlockFollowed
  <2>3. CASE /\ Declares(r2, "warcinfo") /\ r2.block[1] = "fields" /\ r3.block[1] = "fields"
             /\ ValuesOf(r3.lines, "ContentLength") = << r3.block >>
             /\ First(r3, "BlockDigest")[3] = r3.block
             /\ \A g : g \notin {"software", "operator", "isPartOf"}
                         => ValuesOf(r3.block[2], g) = ValuesOf(r2.block[2], g)
    <3>1. r1.block[1] = "fields"
      BY <2>1, <2>3 DEF BlockFollowed
    <3>2. \A g : g \notin {"software", "operator", "isPartOf"}
                   => ValuesOf(r2.block[2], g) = ValuesOf(r1.block[2], g)
      BY <2>1 DEF BlockFollowed
    <3>3. \A g : g \notin {"software", "operator", "isPartOf"}
                   => ValuesOf(r3.block[2], g) = ValuesOf(r1.block[2], g)
      BY <3>2, <2>3
    <3>4. QED
      BY <3>1, <3>3, <2>3, <1>4 DEF BlockFollowed
  <2>4. QED
    BY <2>1, <2>2, <2>3 DEF BlockFollowed
<1>6. QED
  BY <1>1, <1>2, <1>3, <1>5 DEF Kept

\* The fields an identity is made of are no operation's to change.
LEMMA SameIdentity ==
  ASSUME NEW r, IsRecord(r), NEW r2, IsRecord(r2), Kept(r, r2)
  PROVE  /\ IsIdentifiable(r2.version, r2.lines) <=> IsIdentifiable(r.version, r.lines)
         /\ \A type : Declares(r2, type) <=> Declares(r, type)
         /\ r2.block = r.block => DerivedId(r2) = DerivedId(r)
<1>1. /\ r2.version = r.version
      /\ \A f \in {"WarcType", "Date", "TargetURI", "RefersToDate", "RefersToTargetURI", "SegmentNumber",
                   "SegmentTotalLength"} : ValuesOf(r2.lines, f) = ValuesOf(r.lines, f)
  BY FieldsOperated DEF Kept, SameBut
<1>2. ValuesOf(r2.lines, "SegmentOriginID") = << >> <=> ValuesOf(r.lines, "SegmentOriginID") = << >>
  <2>1. DOMAIN ValuesOf(r2.lines, "SegmentOriginID") = DOMAIN ValuesOf(r.lines, "SegmentOriginID")
    BY DEF Kept, ReferencesKept, ReferenceFields
  <2>2. IsSequence(ValuesOf(r2.lines, "SegmentOriginID")) /\ IsSequence(ValuesOf(r.lines, "SegmentOriginID"))
    BY HasField
  <2>3. \A s : IsSequence(s) => (s = << >> <=> DOMAIN s = {})
    <3>1. SUFFICES ASSUME NEW s, IsSequence(s) PROVE s = << >> <=> DOMAIN s = {}
      OBVIOUS
    <3>2. Len(s) \in Nat /\ DOMAIN s = 1..Len(s) /\ s \in Seq(ToSet(s))
      BY <3>1, SequenceShape DEF IsSequence
    <3>3. DOMAIN s = {} => Len(s) = 0
      BY <3>2
    <3>4. QED
      BY <3>2, <3>3
  <2>4. QED
    BY <2>1, <2>2, <2>3
<1>3. (\A f \in SegmentFields : ValuesOf(r2.lines, f) = << >>)
        <=> (\A f \in SegmentFields : ValuesOf(r.lines, f) = << >>)
  BY <1>1, <1>2 DEF SegmentFields
<1>4. \A type : \A f \in IdentityFields(type) : ValuesOf(r2.lines, f) = ValuesOf(r.lines, f)
  BY <1>1 DEF IdentityFields
<1>5. IsIdentifiable(r2.version, r2.lines) <=> IsIdentifiable(r.version, r.lines)
  BY <1>1, <1>3, <1>4 DEF IsIdentifiable
<1>6. \A type : Declares(r2, type) <=> Declares(r, type)
  BY <1>1, SameDeclared
<1>7. ASSUME r2.block = r.block PROVE DerivedId(r2) = DerivedId(r)
  <2>1. IdentityAsRead(r2.version, r2.lines, r2.block) = IdentityAsRead(r.version, r.lines, r.block)
    BY <1>1, <1>5, <1>7 DEF IdentityAsRead
  <2>2. QED
    BY <2>1 DEF DerivedId
<1>8. QED
  BY <1>5, <1>6, <1>7

\* The written identifier is a matter of one field.
LEMMA SameWritten ==
  ASSUME NEW r, NEW r2, ValuesOf(r2.lines, "RecordID") = ValuesOf(r.lines, "RecordID")
  PROVE  WrittenId(r2) = WrittenId(r)
BY SameDeclared DEF WrittenId

\* A record that says enough has a derived identifier, and no other has.
LEMMA DerivedOnce ==
  ASSUME NEW r
  PROVE  /\ DerivedId(r) # << >> <=> IsIdentifiable(r.version, r.lines)
         /\ DerivedId(r) # << >> => /\ DerivedId(r) = << DerivedId(r)[1] >>
                                    /\ DerivedId(r)[1] # NoId
         /\ WrittenId(r) # << >> => /\ WrittenId(r) = << WrittenId(r)[1] >>
                                    /\ WrittenId(r)[1] # NoId
                                    /\ Has(r, "RecordID") /\ First(r, "RecordID") = WrittenId(r)[1]
         /\ Destination(r) # << >> => /\ Destination(r) = << Destination(r)[1] >>
                                      /\ Destination(r)[1] # NoId
         /\ WrittenId(r) # << >> => Destination(r) # << >>
<1>1. \A type, date, target, block, original :
         (original = << >> \/ \E x, y : original = <<x, y>>)
           => Preimage(type, date, target, block, original) # << >>
  <2>1. SUFFICES ASSUME NEW type, NEW date, NEW target, NEW block, NEW original,
                        original = << >> \/ \E x, y : original = <<x, y>>
                 PROVE  Preimage(type, date, target, block, original) # << >>
    OBVIOUS
  <2>2. PICK head : /\ Preimage(type, date, target, block, original) = head \o original
                  /\ \E a, b, c, d, e : head = <<a, b, c, d, e>>
    BY DEF Preimage
  <2>3. head \o original # << >>
    <3>1. PICK a, b, c, d, e : head = <<a, b, c, d, e>>
      BY <2>2
    <3>2. CASE original = << >>
      BY <3>1, <3>2
    <3>3. CASE \E x, y : original = <<x, y>>
      BY <3>1, <3>3
    <3>4. QED
      BY <2>1, <3>2, <3>3
  <2>4. QED
    BY <2>2, <2>3
<1>2. PICK identity : identity = IdentityAsRead(r.version, r.lines, r.block)
  OBVIOUS
<1>3. identity # << >> <=> IsIdentifiable(r.version, r.lines)
  <2>1. CASE ~IsIdentifiable(r.version, r.lines)
    BY <1>2, <2>1 DEF IdentityAsRead
  <2>2. CASE IsIdentifiable(r.version, r.lines)
    <3>1. \E type, date, target, block, original :
             /\ original = << >> \/ \E x, y : original = <<x, y>>
             /\ identity = Preimage(type, date, target, block, original)
      BY <1>2, <2>2 DEF IdentityAsRead
    <3>2. QED
      BY <1>1, <2>2, <3>1
  <2>3. QED
    BY <2>1, <2>2
<1>4. DerivedId(r) = IF identity = << >> THEN << >> ELSE << <<"derived", identity>> >>
  BY <1>2 DEF DerivedId
<1>5. /\ DerivedId(r) # << >> <=> identity # << >>
      /\ DerivedId(r) # << >> => DerivedId(r) = << DerivedId(r)[1] >> /\ DerivedId(r)[1] # NoId
  <2>1. << <<"derived", identity>> >> # << >> /\ <<"derived", identity>> # NoId
    BY DEF NoId
  <2>2. QED
    BY <1>4, <2>1
<1>6. WrittenId(r) # << >> => /\ WrittenId(r) = << WrittenId(r)[1] >>
                              /\ WrittenId(r)[1] # NoId
                              /\ Has(r, "RecordID") /\ First(r, "RecordID") = WrittenId(r)[1]
  BY DEF WrittenId
<1>7. QED
  BY <1>3, <1>5, <1>6 DEF Destination

\* A record whose block stays, with other values of the fields in F.
LEMMA KeptBut ==
  ASSUME NEW r, NEW r2, NEW F, F \subseteq OperatedFields, SameBut(F, r, r2),
         r2.block = r.block, "ContentLength" \notin F, "BlockDigest" \notin F
  PROVE  /\ DigestsKept(r, r2) /\ ReferencesKept(r, r2) => Kept(r, r2)
         /\ "PayloadDigest" \notin F => DigestsKept(r, r2)
         /\ F \cap ReferenceFields = {} => ReferencesKept(r, r2)
<1>1. BlockFollowed(r, r2)
  <2>1. \A f \in {"ContentLength", "BlockDigest"} : ValuesOf(r2.lines, f) = ValuesOf(r.lines, f)
    BY DEF SameBut
  <2>2. QED
    BY <2>1 DEF BlockFollowed
<1>2. SameBut(OperatedFields, r, r2)
  BY DEF SameBut
<1>3. "PayloadDigest" \notin F => DigestsKept(r, r2)
  BY DEF SameBut, DigestsKept
<1>4. F \cap ReferenceFields = {} => ReferencesKept(r, r2)
  BY DEF SameBut, ReferencesKept
<1>5. QED
  BY <1>1, <1>2, <1>3, <1>4 DEF Kept

\* A record given its identifier, RecordID written where there was none.
LEMMA NumberedValues ==
  ASSUME NEW r, IsRecord(r), NEW r2, IsRecord(r2), SameBut(ReferenceFields, r, r2), NEW x, x # NoId, NEW r3,
         r3 = IF Has(r, "RecordID") THEN [r2 EXCEPT !.lines = WithValue(@, "RecordID", x)]
                                    ELSE [r2 EXCEPT !.lines = Inserted(@, "RecordID", x)]
  PROVE  /\ IsRecord(r3) /\ r3.block = r2.block /\ SameBut({"RecordID"}, r2, r3)
         /\ WrittenId(r3) = << x >>
<1>1. PICK lines : lines = IF Has(r, "RecordID") THEN WithValue(r2.lines, "RecordID", x)
                                                 ELSE Inserted(r2.lines, "RecordID", x)
  OBVIOUS
<1>2. r3 = [r2 EXCEPT !.lines = lines]
  BY <1>1
<1>3. ValuesOf(r2.lines, "RecordID") = ValuesOf(r.lines, "RecordID")
  <2>1. "RecordID" \notin ReferenceFields
    BY DEF ReferenceFields
  <2>2. QED
    BY <2>1 DEF SameBut
<1>4. Has(r2, "RecordID") <=> Has(r, "RecordID")
  BY <1>3 DEF Has
<1>5. IsHeader(r2.lines)
  BY DEF IsRecord
<1>6. /\ IsHeader(lines)
      /\ \A f : f # "RecordID" => ValuesOf(lines, f) = ValuesOf(r2.lines, f)
      /\ ValuesOf(lines, "RecordID") # << >> /\ ValuesOf(lines, "RecordID")[1] = x
  <2>1. CASE Has(r, "RecordID")
    <3>1. lines = WithValue(r2.lines, "RecordID", x)
      BY <1>1, <2>1
    <3>2. 1 \in DOMAIN ValuesOf(r2.lines, "RecordID")
      BY <1>4, <2>1, HasField
    <3>3. /\ IsHeader(lines)
          /\ \A f : f # "RecordID" => ValuesOf(lines, f) = ValuesOf(r2.lines, f)
          /\ DOMAIN ValuesOf(lines, "RecordID") = DOMAIN ValuesOf(r2.lines, "RecordID")
          /\ \A k \in DOMAIN ValuesOf(r2.lines, "RecordID") : ValuesOf(lines, "RecordID")[k] = x
      BY <3>1, <1>5, WithValueValues
    <3>4. ValuesOf(lines, "RecordID") # << >>
      BY <3>2, <3>3
    <3>5. QED
      BY <3>2, <3>3, <3>4
  <2>2. CASE ~Has(r, "RecordID")
    <3>1. lines = Inserted(r2.lines, "RecordID", x)
      BY <1>1, <2>2
    <3>2. Places(r2.lines, "RecordID") = {}
      BY <1>4, <2>2, HasField
    <3>3. QED
      BY <3>1, <3>2, <1>5, InsertedValues
  <2>3. QED
    BY <2>1, <2>2
<1>7. PICK F : F = {"RecordID"}
  OBVIOUS
<1>8. "PayloadDigest" \notin F /\ \A f : f \notin F => ValuesOf(lines, f) = ValuesOf(r2.lines, f)
  BY <1>6, <1>7
<1>9. r3.lines = lines /\ r3.block = r2.block /\ IsRecord(r3) /\ SameBut({"RecordID"}, r2, r3)
  <2>1. /\ [r2 EXCEPT !.lines = lines].lines = lines
        /\ [r2 EXCEPT !.lines = lines].block = r2.block
        /\ IsRecord([r2 EXCEPT !.lines = lines])
        /\ SameBut(F, r2, [r2 EXCEPT !.lines = lines])
    BY <1>6, <1>8, WithLines
  <2>2. QED
    BY <2>1, <1>2, <1>7
<1>10. WrittenId(r3) = << x >>
  BY <1>6, <1>9 DEF WrittenId, Has, First
<1>11. QED
  BY <1>9, <1>10

\* The references of a record lead where the identifiers do.
ReferencesLed(r, r2, redirects) ==
  \A f \in ReferenceFields : \A k \in DOMAIN ValuesOf(r.lines, f) :
    ValuesOf(r2.lines, f)[k] = RedirectOf(redirects, ValuesOf(r.lines, f)[k])

\* Identified: references lead on, the identifier is the one derived, and that
\* one is what it was.
LEMMA IdentifiedValues ==
  ASSUME NEW r, IsRecord(r), NEW redirects, NEW r3, r3 = Identified(r, redirects)
  PROVE  /\ IsRecord(r3) /\ r3.block = r.block /\ Kept(r, r3)
         /\ SameBut(ReferenceFields \cup {"RecordID"}, r, r3)
         /\ ReferencesLed(r, r3, redirects)
         /\ WrittenId(r3) = Destination(r) /\ DerivedId(r3) = DerivedId(r)
         /\ DerivedId(r) = << >> => ValuesOf(r3.lines, "RecordID") = ValuesOf(r.lines, "RecordID")
<1> DEFINE F == ReferenceFields \cup {"RecordID"}
<1>1. PICK lines : lines = Redirected(r.lines, redirects)
  OBVIOUS
<1>2. PICK r2 : r2 = [r EXCEPT !.lines = lines]
  OBVIOUS
<1>3. /\ IsHeader(lines)
      /\ \A f : f \notin ReferenceFields => ValuesOf(lines, f) = ValuesOf(r.lines, f)
      /\ \A f : /\ DOMAIN ValuesOf(lines, f) = DOMAIN ValuesOf(r.lines, f)
                /\ Len(ValuesOf(lines, f)) = Len(ValuesOf(r.lines, f))
      /\ \A f \in ReferenceFields : \A k \in DOMAIN ValuesOf(r.lines, f) :
            ValuesOf(lines, f)[k] = RedirectOf(redirects, ValuesOf(r.lines, f)[k])
  BY <1>1, RedirectedValues DEF IsRecord
<1>4. "PayloadDigest" \notin ReferenceFields
  BY DEF ReferenceFields
<1>5. r2.lines = lines /\ r2.block = r.block /\ IsRecord(r2) /\ SameBut(ReferenceFields, r, r2)
  BY <1>2, <1>3, <1>4, WithLines
<1>6. ReferencesKept(r, r2)
  BY <1>3, <1>5 DEF ReferencesKept
<1>7. Kept(r, r2)
  <2>1. ReferenceFields \subseteq OperatedFields /\ "ContentLength" \notin ReferenceFields
        /\ "BlockDigest" \notin ReferenceFields
    BY DEF OperatedFields, ReferenceFields
  <2>2. DigestsKept(r, r2)
    BY <1>4, <1>5, <2>1, KeptBut
  <2>3. QED
    BY <1>5, <1>6, <2>1, <2>2, KeptBut
<1>8. DerivedId(r2) = DerivedId(r)
  BY <1>5, <1>7, SameIdentity
<1>9. ValuesOf(r2.lines, "RecordID") = ValuesOf(r.lines, "RecordID")
  BY <1>3, <1>5 DEF ReferenceFields
<1>10. \A s : SameBut(ReferenceFields, r, s) => SameBut(F, r, s)
  BY DEF SameBut
<1>11. CASE DerivedId(r) = << >>
  <2>1. r3 = r2
    BY <1>1, <1>2, <1>8, <1>11 DEF Identified
  <2>2. WrittenId(r3) = Destination(r)
    BY <2>1, <1>9, <1>11, SameWritten DEF Destination
  <2>3. SameBut(F, r, r3)
    BY <2>1, <1>5, <1>10
  <2>4. ReferencesLed(r, r3, redirects)
    BY <2>1, <1>3, <1>5 DEF ReferencesLed
  <2>5. QED
    BY <2>1, <2>2, <2>3, <2>4, <1>5, <1>7, <1>8, <1>9
<1>12. CASE DerivedId(r) # << >>
  <2>1. PICK x : x = DerivedId(r)[1]
    OBVIOUS
  <2>2. x # NoId /\ DerivedId(r) = << x >>
    BY <1>12, <2>1, DerivedOnce
  <2>3. r3 = IF Has(r, "RecordID") THEN [r2 EXCEPT !.lines = WithValue(@, "RecordID", x)]
                                   ELSE [r2 EXCEPT !.lines = Inserted(@, "RecordID", x)]
    BY <1>1, <1>2, <1>8, <1>12, <2>1 DEF Identified
  <2>4. /\ IsRecord(r3) /\ r3.block = r2.block /\ SameBut({"RecordID"}, r2, r3)
        /\ WrittenId(r3) = << x >>
    BY <2>2, <2>3, <1>5, NumberedValues
  <2>5. Kept(r2, r3)
    <3>1. /\ {"RecordID"} \subseteq OperatedFields /\ {"RecordID"} \cap ReferenceFields = {}
          /\ "ContentLength" \notin {"RecordID"} /\ "BlockDigest" \notin {"RecordID"}
          /\ "PayloadDigest" \notin {"RecordID"}
      BY DEF OperatedFields, ReferenceFields
    <3>2. DigestsKept(r2, r3) /\ ReferencesKept(r2, r3)
      BY <3>1, <2>4, KeptBut
    <3>3. QED
      BY <3>1, <3>2, <2>4, KeptBut
  <2>6. Kept(r, r3)
    BY <2>5, <1>7, KeptOn
  <2>7. DerivedId(r3) = DerivedId(r)
    BY <2>4, <2>6, <1>5, SameIdentity
  <2>8. WrittenId(r3) = Destination(r)
    BY <2>2, <2>4, <1>12 DEF Destination
  <2>9. SameBut(F, r, r3)
    BY <2>4, <1>5 DEF SameBut
  <2>10. \A f \in ReferenceFields : ValuesOf(r3.lines, f) = ValuesOf(lines, f)
    BY <2>4, <1>5 DEF SameBut, ReferenceFields
  <2>11. ReferencesLed(r, r3, redirects)
    BY <2>10, <1>3 DEF ReferencesLed
  <2>12. QED
    BY <2>4, <2>6, <2>7, <2>8, <2>9, <2>11, <1>5, <1>12
<1>13. QED
  BY <1>11, <1>12

\* A record that is given other fields of some few names.
LEMMA KeptFew ==
  ASSUME NEW r, NEW r3, NEW F,
         F \in {{}, {"IdentifiedPayloadType"}, {"PayloadDigest"}, {"Filename"},
                {"Filename", "ContentLength", "BlockDigest"}},
         SameBut(F, r, r3)
  PROVE  /\ SameBut(OperatedFields, r, r3) /\ ReferencesKept(r, r3)
         /\ \A f \in ReferenceFields \cup {"RecordID"} : ValuesOf(r3.lines, f) = ValuesOf(r.lines, f)
         /\ F # {"IdentifiedPayloadType"} => PayloadType(r3) = PayloadType(r)
         /\ F # {"PayloadDigest"} => DigestsKept(r, r3)
         /\ F # {"Filename", "ContentLength", "BlockDigest"} /\ r3.block = r.block /\ DigestsKept(r, r3)
              => Kept(r, r3)
<1>1. F \subseteq OperatedFields /\ F \cap ReferenceFields = {} /\ "RecordID" \notin F
  BY DEF OperatedFields, ReferenceFields
<1>2. SameBut(OperatedFields, r, r3)
  BY <1>1 DEF SameBut
<1>3. \A f \in ReferenceFields \cup {"RecordID"} : ValuesOf(r3.lines, f) = ValuesOf(r.lines, f)
  BY <1>1 DEF SameBut
<1>4. ReferencesKept(r, r3)
  BY <1>3 DEF ReferencesKept
<1>5. F # {"IdentifiedPayloadType"} => PayloadType(r3) = PayloadType(r)
  BY DEF SameBut, PayloadType
<1>6. F # {"PayloadDigest"} => DigestsKept(r, r3)
  BY DEF SameBut, DigestsKept
<1>7. F # {"Filename", "ContentLength", "BlockDigest"} =>
        "ContentLength" \notin F /\ "BlockDigest" \notin F
  OBVIOUS
<1>8. F # {"Filename", "ContentLength", "BlockDigest"} /\ r3.block = r.block /\ DigestsKept(r, r3)
        => Kept(r, r3)
  BY <1>1, <1>4, <1>7, KeptBut
<1>9. QED
  BY <1>2, <1>3, <1>4, <1>5, <1>6, <1>8

\* Every operation makes of a record one that is kept.
LEMMA CopiedKept ==
  ASSUME NEW t, t[1] \in {"propagate", "canonicalize", "digest", "compress", "rewrite", "id"},
         NEW p, NEW r, IsRecord(r), ~CannotCopyBy(t, r), NEW r3, r3 = CopiedBy(t, p, r)
  PROVE  IsCopyOf(t, p, r, r3)
<1>1. CASE t[1] = "propagate"
  <2>1. r3 = Propagated(r, p)
    BY <1>1 DEF CopiedBy
  <2>2. PICK F : F = {"IdentifiedPayloadType"}
    OBVIOUS
  <2>3. IsRecord(r3) /\ r3.block = r.block /\ SameBut(F, r, r3)
    BY <2>1, <2>2, PropagatedValues
  <2>4. DigestsKept(r, r3)
    BY <2>2, <2>3, KeptFew
  <2>5. Kept(r, r3) /\ \A f \in ReferenceFields \cup {"RecordID"} : ValuesOf(r3.lines, f) = ValuesOf(r.lines, f)
    BY <2>2, <2>3, <2>4, KeptFew
  <2>6. QED
    BY <1>1, <2>1, <2>3, <2>5 DEF IsCopyOf
<1>2. ASSUME NEW F, F \in {{}, {"PayloadDigest"}, {"Filename"}}, IsRecord(r3), r3.block = r.block,
             SameBut(F, r, r3), DigestsKept(r, r3), t[1] # "propagate", t[1] # "id"
      PROVE  IsCopyOf(t, p, r, r3)
  <2>1. F # {"Filename", "ContentLength", "BlockDigest"} /\ F # {"IdentifiedPayloadType"}
    BY <1>2
  <2>2. PayloadType(r3) = PayloadType(r)
    BY <2>1, <1>2, KeptFew
  <2>3. Kept(r, r3) /\ \A f \in ReferenceFields \cup {"RecordID"} : ValuesOf(r3.lines, f) = ValuesOf(r.lines, f)
    BY <2>1, <1>2, KeptFew
  <2>4. QED
    BY <1>2, <2>2, <2>3 DEF IsCopyOf
<1>3. CASE t[1] = "canonicalize"
  <2>1. r3 = [r EXCEPT !.lines = Canonical(@)]
    BY <1>3 DEF CopiedBy
  <2>2. PICK F : F = {}
    OBVIOUS
  <2>3. IsRecord(r3) /\ r3.block = r.block /\ SameBut(F, r, r3)
    BY <2>1, <2>2, CanonicalRecord
  <2>4. DigestsKept(r, r3)
    BY <2>2, <2>3, KeptFew
  <2>5. F \in {{}, {"PayloadDigest"}, {"Filename"}} /\ t[1] # "propagate" /\ t[1] # "id"
    BY <1>3, <2>2
  <2>6. QED
    BY <1>2, <2>3, <2>4, <2>5
<1>4. CASE t[1] = "digest"
  <2>1. r3 = Redigested(r)
    BY <1>4 DEF CopiedBy
  <2>2. PICK F : F = {"PayloadDigest"}
    OBVIOUS
  <2>3. IsRecord(r3) /\ r3.block = r.block /\ SameBut(F, r, r3) /\ DigestsKept(r, r3)
    BY <2>1, <2>2, RedigestedValues
  <2>4. F \in {{}, {"PayloadDigest"}, {"Filename"}} /\ t[1] # "propagate" /\ t[1] # "id"
    BY <1>4, <2>2
  <2>5. QED
    BY <1>2, <2>3, <2>4
<1>5. CASE r3 = r /\ t[1] # "propagate" /\ t[1] # "id"
  BY <1>5, KeptAsIs DEF IsCopyOf
<1>6. CASE t[1] = "compress" /\ Declares(r, "warcinfo")
  <2>1. r3 = [r EXCEPT !.lines = Renamed(@, t[2])]
    BY <1>6 DEF CopiedBy
  <2>2. PICK F : F = {"Filename"}
    OBVIOUS
  <2>3. IsRecord(r3) /\ r3.block = r.block /\ SameBut(F, r, r3)
    BY <2>1, <2>2, RenamedRecord
  <2>4. DigestsKept(r, r3)
    BY <2>2, <2>3, KeptFew
  <2>5. F \in {{}, {"PayloadDigest"}, {"Filename"}} /\ t[1] # "propagate" /\ t[1] # "id"
    BY <1>6, <2>2
  <2>6. QED
    BY <1>2, <2>3, <2>4, <2>5
<1>7. CASE t[1] = "rewrite" /\ Declares(r, "warcinfo")
  <2>1. r3 = Rewritten(r, t[2])
    BY <1>7 DEF CopiedBy
  <2>2. r.block[1] = "fields"
    <3>1. IsWarcinfo(r)
      BY <1>7 DEF CannotCopyBy, CannotRewrite
    <3>2. QED
      BY <3>1 DEF IsWarcinfo
  <2>3. PICK F : F = {"Filename", "ContentLength", "BlockDigest"}
    OBVIOUS
  <2>4. /\ IsRecord(r3) /\ SameBut(F, r, r3)
        /\ r3.block = <<"fields", RewrittenFields(r.block[2], t[2])>>
        /\ ValuesOf(r3.lines, "ContentLength") = << r3.block >>
        /\ First(r3, "BlockDigest")[3] = r3.block
    BY <2>1, <2>2, <2>3, RewrittenValues
  <2>5. SameBut(OperatedFields, r, r3) /\ ReferencesKept(r, r3)
    BY <2>3, <2>4, KeptFew
  <2>6. \A f \in ReferenceFields \cup {"RecordID"} : ValuesOf(r3.lines, f) = ValuesOf(r.lines, f)
    BY <2>3, <2>4, KeptFew
  <2>7. PayloadType(r3) = PayloadType(r) /\ DigestsKept(r, r3)
    <3>1. F # {"IdentifiedPayloadType"} /\ F # {"PayloadDigest"}
      BY <2>3
    <3>2. QED
      BY <3>1, <2>3, <2>4, KeptFew
  <2>8. BlockFollowed(r, r3)
    <3>1. IsFields(r.block[2])
      BY <2>2 DEF IsRecord
    <3>2. PICK fields : fields = RewrittenFields(r.block[2], t[2])
      OBVIOUS
    <3>3. \A g : g \notin {"software", "operator", "isPartOf"} => ValuesOf(fields, g) = ValuesOf(r.block[2], g)
      BY <3>1, <3>2, RewrittenFieldsKept
    <3>4. r3.block[1] = "fields" /\ r3.block[2] = fields
      BY <2>4, <3>2
    <3>5. QED
      BY <1>7, <2>2, <2>4, <3>3, <3>4 DEF BlockFollowed
  <2>9. QED
    BY <1>7, <2>4, <2>5, <2>6, <2>7, <2>8 DEF IsCopyOf, Kept
<1>8. CASE t[1] = "id"
  <2>1. r3 = Identified(r, p)
    BY <1>8 DEF CopiedBy
  <2>2. IsRecord(r3) /\ r3.block = r.block /\ Kept(r, r3)
    BY <2>1, IdentifiedValues
  <2>3. SameBut(ReferenceFields \cup {"RecordID"}, r, r3)
    BY <2>1, IdentifiedValues
  <2>4. PayloadType(r3) = PayloadType(r)
    BY <2>3 DEF SameBut, PayloadType, ReferenceFields
  <2>5. QED
    BY <1>8, <2>1, <2>2, <2>4 DEF IsCopyOf
<1>9. t[1] \in {"compress", "rewrite"} /\ ~Declares(r, "warcinfo") => r3 = r
  BY DEF CopiedBy
<1>10. QED
  BY <1>1, <1>3, <1>4, <1>5, <1>6, <1>7, <1>8, <1>9

-----------------------------------------------------------------------------
\* A file of kept records becomes another.
LEMMA FilesOn ==
  ASSUME NEW first, NEW now, NEW next, NEW t, NEW p, Files(first, now), IsCopiedFile(t, p, now, next)
  PROVE  Files(first, next)
<1>1. ASSUME NEW i \in DOMAIN next
      PROVE  IsRecord(first[i]) /\ IsRecord(next[i]) /\ Kept(first[i], next[i])
  <2>1. i \in DOMAIN now
    BY <1>1 DEF IsCopiedFile
  <2>2. IsRecord(next[i]) /\ Kept(now[i], next[i])
    BY <2>1 DEF IsCopiedFile, IsCopyOf
  <2>3. IsRecord(first[i]) /\ Kept(first[i], now[i])
    BY <2>1 DEF Files
  <2>4. Kept(first[i], next[i])
    BY <2>2, <2>3, KeptOn
  <2>5. QED
    BY <2>2, <2>3, <2>4
<1>2. IsSequence(first) /\ IsSequence(next) /\ Len(next) = Len(first) /\ DOMAIN next = DOMAIN first
  BY DEF Files, IsCopiedFile
<1>3. QED
  BY <1>1, <1>2 DEF Files

\* Types and derived identifiers outlast an operation that keeps blocks.
LEMMA IdentityOn ==
  ASSUME NEW now, NEW next, NEW t, NEW p, IsCopiedFile(t, p, now, next), NEW i \in DOMAIN now
  PROVE  /\ IsIdentifiable(next[i].version, next[i].lines) <=> IsIdentifiable(now[i].version, now[i].lines)
         /\ \A type : Declares(next[i], type) <=> Declares(now[i], type)
         /\ t[1] # "rewrite" => DerivedId(next[i]) = DerivedId(now[i])
<1>1. /\ IsRecord(now[i]) /\ IsRecord(next[i]) /\ Kept(now[i], next[i])
      /\ t[1] # "rewrite" => next[i].block = now[i].block
  BY DEF IsCopiedFile, IsCopyOf
<1>2. QED
  BY <1>1, SameIdentity

\* An operation that is not id changes nothing of what names records.
LEMMA NamesOn ==
  ASSUME NEW first, NEW now, NEW next, NEW t, NEW p, Files(first, now),
         IsCopiedFile(t, p, now, next), t[1] # "id"
  PROVE  /\ NamesUnchanged(first, now) => NamesUnchanged(first, next)
         /\ NamesFollowed(first, now) => NamesFollowed(first, next)
         /\ t[1] # "rewrite" /\ IdsDerived(now) => IdsDerived(next)
<1>1. DOMAIN next = DOMAIN now
  BY DEF IsCopiedFile
<1>2. \A i \in DOMAIN now, f \in ReferenceFields \cup {"RecordID"} :
         ValuesOf(next[i].lines, f) = ValuesOf(now[i].lines, f)
  BY DEF IsCopiedFile, IsCopyOf
<1>3. NamesUnchanged(first, now) => NamesUnchanged(first, next)
  BY <1>1, <1>2 DEF NamesUnchanged
<1>4. \A i \in DOMAIN now : /\ WrittenId(next[i]) = WrittenId(now[i])
                            /\ Has(next[i], "RecordID") <=> Has(now[i], "RecordID")
                            /\ First(next[i], "RecordID") = First(now[i], "RecordID")
  <2>1. TAKE i \in DOMAIN now
  <2>2. ValuesOf(next[i].lines, "RecordID") = ValuesOf(now[i].lines, "RecordID")
    BY <1>2
  <2>3. QED
    BY <2>2, SameWritten, SameDeclared
<1>5. ASSUME NamesFollowed(first, now) PROVE NamesFollowed(first, next)
  <2>1. Distinct(next)
    BY <1>1, <1>4, <1>5 DEF NamesFollowed, IdsFollowed, Distinct
  <2>2. NoneUnnamed(next)
    BY <1>1, <1>4, <1>5, IdentityOn DEF NamesFollowed, NoneUnnamed
  <2>3. \A id : NamedBy(next, id) = NamedBy(now, id)
    BY <1>1, <1>4 DEF NamedBy
  <2>4. ASSUME NEW before, NEW after, Followed(first, now, before, after)
        PROVE  Followed(first, next, before, after)
    <3>1. ASSUME NEW j \in DOMAIN first, WrittenId(first[j]) = <<before>>
          PROVE  WrittenId(next[j]) = <<after>>
      <4>1. WrittenId(now[j]) = <<after>>
        BY <2>4, <3>1 DEF Followed
      <4>2. j \in DOMAIN now
        BY <3>1 DEF Files
      <4>3. QED
        BY <4>1, <4>2, <1>4
    <3>2. QED
      BY <2>3, <2>4, <3>1 DEF Followed
  <2>5. \A i \in DOMAIN next, f \in ReferenceFields : \A k \in DOMAIN ValuesOf(first[i].lines, f) :
           Followed(first, next, ValuesOf(first[i].lines, f)[k], ValuesOf(next[i].lines, f)[k])
    BY <1>1, <1>2, <1>5, <2>4 DEF NamesFollowed, IdsFollowed
  <2>6. QED
    BY <1>5, <2>1, <2>2, <2>5 DEF NamesFollowed, IdsFollowed
<1>6. t[1] # "rewrite" /\ IdsDerived(now) => IdsDerived(next)
  BY <1>1, <1>4, IdentityOn DEF IdsDerived
<1>7. QED
  BY <1>3, <1>5, <1>6

\* plan.rs: where every identifier of a file leads.
LEMMA RedirectsLead ==
  ASSUME NEW archive, IsSequence(archive), ~CannotIdentify(archive), NEW redirects, redirects = Redirects(archive)
  PROVE  /\ Distinct(archive)
         /\ \A i, j \in DOMAIN archive :
              Destination(archive[i]) # << >> /\ Destination(archive[i]) = Destination(archive[j]) => i = j
         /\ \A x : \A j \in DOMAIN archive :
              WrittenId(archive[j]) = <<x>> => Destination(archive[j]) = << RedirectOf(redirects, x) >>
         /\ \A x \in DOMAIN redirects : x # NoId /\ \E j \in DOMAIN archive : WrittenId(archive[j]) = <<x>>
<1>1. \A i, j \in DOMAIN archive : i < j \/ j < i \/ i = j
  <2>1. Len(archive) \in Nat /\ DOMAIN archive = 1..Len(archive)
    BY SequenceShape
  <2>2. QED
    BY <2>1
<1>2. Distinct(archive)
  BY <1>1 DEF CannotIdentify, Distinct
<1>3. \A i, j \in DOMAIN archive :
         Destination(archive[i]) # << >> /\ Destination(archive[i]) = Destination(archive[j]) => i = j
  BY <1>1 DEF CannotIdentify
<1> DEFINE changing == {i \in DOMAIN archive : /\ WrittenId(archive[i]) # << >>
                                               /\ WrittenId(archive[i]) # Destination(archive[i])}
           leads(id) == Destination(archive[CHOOSE i \in changing : WrittenId(archive[i]) = <<id>>])[1]
           names == {WrittenId(archive[i])[1] : i \in changing}
<1>4. redirects = [id \in names |-> leads(id)]
  BY DEF Redirects
<1> HIDE DEF leads, names
<1>5. DOMAIN redirects = names /\ \A id \in names : redirects[id] = leads(id)
  BY <1>4
<1>6. \A i \in DOMAIN archive : WrittenId(archive[i]) # << >> =>
         /\ WrittenId(archive[i]) = << WrittenId(archive[i])[1] >> /\ WrittenId(archive[i])[1] # NoId
         /\ Destination(archive[i]) # << >>
         /\ Destination(archive[i]) = << Destination(archive[i])[1] >>
  BY DerivedOnce
<1>7. ASSUME NEW x \in DOMAIN redirects
      PROVE  x # NoId /\ \E j \in DOMAIN archive : WrittenId(archive[j]) = <<x>>
  <2>1. PICK i \in changing : x = WrittenId(archive[i])[1]
    BY <1>5, <1>7 DEF names
  <2>2. QED
    BY <2>1, <1>6
<1>8. ASSUME NEW x, NEW j \in DOMAIN archive, WrittenId(archive[j]) = <<x>>
      PROVE  Destination(archive[j]) = << RedirectOf(redirects, x) >>
  <2>1. WrittenId(archive[j]) # << >> /\ WrittenId(archive[j])[1] = x
    BY <1>8
  <2>2. CASE j \in changing
    <3>1. x \in names
      BY <2>1, <2>2 DEF names
    <3>2. PICK i \in changing : i = CHOOSE m \in changing : WrittenId(archive[m]) = <<x>>
      BY <2>2, <1>8
    <3>3. WrittenId(archive[i]) = <<x>>
      BY <2>2, <1>8, <3>2
    <3>4. i = j
      BY <3>3, <1>2, <1>8, <2>1 DEF Distinct
    <3>5. redirects[x] = Destination(archive[j])[1]
      BY <3>1, <3>2, <3>4, <1>5 DEF leads
    <3>6. RedirectOf(redirects, x) = Destination(archive[j])[1]
      BY <3>1, <3>5, <1>5 DEF RedirectOf
    <3>7. QED
      BY <3>6, <2>1, <1>6
  <2>3. CASE j \notin changing
    <3>1. Destination(archive[j]) = <<x>>
      BY <2>1, <2>3, <1>8
    <3>2. x \notin names
      <4>1. SUFFICES ASSUME NEW i \in changing, x = WrittenId(archive[i])[1] PROVE FALSE
        BY DEF names
      <4>2. WrittenId(archive[i]) = <<x>>
        BY <4>1, <1>6
      <4>3. i = j
        BY <4>2, <1>2, <1>8, <2>1 DEF Distinct
      <4>4. QED
        BY <4>3, <2>3
    <3>3. RedirectOf(redirects, x) = x
      BY <3>2, <1>5 DEF RedirectOf
    <3>4. QED
      BY <3>1, <3>3
  <2>4. QED
    BY <2>2, <2>3
<1>9. QED
  BY <1>2, <1>3, <1>7, <1>8

\* What the id command makes of a file it can identify.
LEMMA IdentifiedFile ==
  ASSUME NEW now, NEW next, NEW t, NEW p, IsCopiedFile(t, p, now, next), t[1] = "id"
  PROVE  /\ Distinct(now) /\ Distinct(next) /\ NoneUnnamed(next) /\ IdsDerived(next)
         /\ NoId \notin DOMAIN p
         /\ \A x : \A j \in DOMAIN now :
              WrittenId(now[j]) = <<x>> => WrittenId(next[j]) = << RedirectOf(p, x) >>
         /\ \A x : NamedBy(now, x) = {} => RedirectOf(p, x) = x
         /\ \A x : NamedBy(now, x) # {} => NamedBy(next, RedirectOf(p, x)) # {}
         /\ \A i \in DOMAIN now : ReferencesLed(now[i], next[i], p)
         /\ \A i \in DOMAIN now : DerivedId(now[i]) = << >> =>
               ValuesOf(next[i].lines, "RecordID") = ValuesOf(now[i].lines, "RecordID")
<1>1. DOMAIN next = DOMAIN now /\ IsSequence(now) /\ ~CannotIdentify(now) /\ p = Redirects(now)
  BY DEF IsCopiedFile, Planned
<1>2. /\ Distinct(now)
      /\ \A i, j \in DOMAIN now :
           Destination(now[i]) # << >> /\ Destination(now[i]) = Destination(now[j]) => i = j
      /\ \A x : \A j \in DOMAIN now :
           WrittenId(now[j]) = <<x>> => Destination(now[j]) = << RedirectOf(p, x) >>
      /\ \A x \in DOMAIN p : x # NoId /\ \E j \in DOMAIN now : WrittenId(now[j]) = <<x>>
  BY <1>1, RedirectsLead
<1>3. \A i \in DOMAIN now : IsRecord(now[i]) /\ next[i] = Identified(now[i], p)
  BY DEF IsCopiedFile, IsCopyOf
<1>4. \A i \in DOMAIN now :
        /\ ReferencesLed(now[i], next[i], p)
        /\ WrittenId(next[i]) = Destination(now[i]) /\ DerivedId(next[i]) = DerivedId(now[i])
        /\ DerivedId(now[i]) = << >> => ValuesOf(next[i].lines, "RecordID") = ValuesOf(now[i].lines, "RecordID")
  BY <1>3, IdentifiedValues
<1>5. Distinct(next)
  BY <1>1, <1>2, <1>4 DEF Distinct
<1>6. IdsDerived(next)
  BY <1>1, <1>4 DEF IdsDerived, Destination
<1>7. NoneUnnamed(next)
  <2>1. SUFFICES ASSUME NEW i \in DOMAIN next, IsIdentifiable(next[i].version, next[i].lines)
                 PROVE  Has(next[i], "RecordID") /\ First(next[i], "RecordID") # NoId
    BY DEF NoneUnnamed
  <2>2. DerivedId(next[i]) # << >>
    BY <2>1, DerivedOnce
  <2>3. WrittenId(next[i]) # << >>
    BY <2>2, <1>6 DEF IdsDerived
  <2>4. QED
    BY <2>3, DerivedOnce
<1>8. NoId \notin DOMAIN p
  BY <1>2
<1>9. \A x : \A j \in DOMAIN now : WrittenId(now[j]) = <<x>> => WrittenId(next[j]) = << RedirectOf(p, x) >>
  BY <1>2, <1>4
<1>10. \A x : NamedBy(now, x) = {} => RedirectOf(p, x) = x
  BY <1>2 DEF NamedBy, RedirectOf
<1>11. \A x : NamedBy(now, x) # {} => NamedBy(next, RedirectOf(p, x)) # {}
  BY <1>1, <1>9 DEF NamedBy
<1>12. QED
  BY <1>2, <1>4, <1>5, <1>6, <1>7, <1>8, <1>9, <1>10, <1>11

\* Identifying a file, for the first time or again: references lead to the
\* records they led to.
LEMMA NamesIdentified ==
  ASSUME NEW first, NEW now, NEW next, NEW t, NEW p, Files(first, now), IsCopiedFile(t, p, now, next),
         t[1] = "id", NamesUnchanged(first, now) \/ NamesFollowed(first, now)
  PROVE  NamesFollowed(first, next)
<1>1. DOMAIN first = DOMAIN now /\ DOMAIN next = DOMAIN now
  BY DEF Files, IsCopiedFile
<1>2. IdsFollowed(first, now)
  <2>1. CASE NamesFollowed(first, now)
    BY <2>1 DEF NamesFollowed
  <2>2. CASE NamesUnchanged(first, now)
    <3>1. Distinct(now)
      BY IdentifiedFile
    <3>2. \A i \in DOMAIN now : WrittenId(now[i]) = WrittenId(first[i])
      BY <2>2, SameWritten DEF NamesUnchanged
    <3>3. Distinct(first)
      BY <1>1, <3>1, <3>2 DEF Distinct
    <3>4. \A x : Followed(first, now, x, x)
      BY <1>1, <3>2 DEF Followed
    <3>5. \A i \in DOMAIN now, f \in ReferenceFields : \A k \in DOMAIN ValuesOf(first[i].lines, f) :
             Followed(first, now, ValuesOf(first[i].lines, f)[k], ValuesOf(now[i].lines, f)[k])
      BY <2>2, <3>4 DEF NamesUnchanged
    <3>6. QED
      BY <3>1, <3>3, <3>5 DEF IdsFollowed
  <2>3. QED
    BY <2>1, <2>2
<1>3. ASSUME NEW before, NEW after, Followed(first, now, before, after)
      PROVE  Followed(first, next, before, RedirectOf(p, after))
  <2>1. \A x : \A j \in DOMAIN now :
           WrittenId(now[j]) = <<x>> => WrittenId(next[j]) = << RedirectOf(p, x) >>
    BY IdentifiedFile
  <2>2. ASSUME NEW j \in DOMAIN first, WrittenId(first[j]) = <<before>>
        PROVE  WrittenId(next[j]) = << RedirectOf(p, after) >>
    BY <1>1, <1>3, <2>1, <2>2 DEF Followed
  <2>3. CASE NamedBy(now, after) # {}
    <3>1. NamedBy(next, RedirectOf(p, after)) # {}
      BY <2>3, IdentifiedFile
    <3>2. QED
      BY <3>1, <2>2 DEF Followed
  <2>4. CASE NamedBy(now, after) = {}
    <3>1. RedirectOf(p, after) = after
      BY <2>4, IdentifiedFile
    <3>2. NamedBy(first, before) = {} => after = before
      BY <1>3, <2>4 DEF Followed
    <3>3. QED
      BY <3>1, <3>2, <2>2 DEF Followed
  <2>5. QED
    BY <2>3, <2>4
<1>4. ASSUME NEW i \in DOMAIN next, NEW f \in ReferenceFields, NEW k \in DOMAIN ValuesOf(first[i].lines, f)
      PROVE  Followed(first, next, ValuesOf(first[i].lines, f)[k], ValuesOf(next[i].lines, f)[k])
  <2>1. i \in DOMAIN now /\ k \in DOMAIN ValuesOf(now[i].lines, f)
    BY <1>1, <1>4 DEF Files, Kept, ReferencesKept
  <2>2. ValuesOf(next[i].lines, f)[k] = RedirectOf(p, ValuesOf(now[i].lines, f)[k])
    <3>1. ReferencesLed(now[i], next[i], p)
      BY <2>1, IdentifiedFile
    <3>2. QED
      BY <2>1, <3>1 DEF ReferencesLed
  <2>3. Followed(first, now, ValuesOf(first[i].lines, f)[k], ValuesOf(now[i].lines, f)[k])
    BY <2>1, <1>2 DEF IdsFollowed
  <2>4. Followed(first, next, ValuesOf(first[i].lines, f)[k], RedirectOf(p, ValuesOf(now[i].lines, f)[k]))
    BY <2>3, <1>3
  <2>5. QED
    BY <2>2, <2>4
<1>5. Distinct(first)
  BY <1>2 DEF IdsFollowed
<1>6. Distinct(next) /\ NoneUnnamed(next)
  BY IdentifiedFile
<1>7. QED
  BY <1>4, <1>5, <1>6 DEF NamesFollowed, IdsFollowed

IsTyped(r) ==
  /\ Declares(r, "response") /\ Has(r, "RecordID") /\ Has(r, "IdentifiedPayloadType")
  /\ IsMediaType(First(r, "IdentifiedPayloadType"))

-----------------------------------------------------------------------------
\* The originals of a revisit, and the first of them.
LEMMA OriginalsThere ==
  ASSUME NEW archive, NEW r
  PROVE  /\ OriginalsOf(archive, r) =
              {j \in DOMAIN archive : /\ IsTyped(archive[j]) /\ Has(r, "RefersTo")
                                      /\ First(archive[j], "RecordID") = First(r, "RefersTo")}
         /\ IsSequence(archive) /\ OriginalsOf(archive, r) # {}
              => Min(OriginalsOf(archive, r)) \in OriginalsOf(archive, r)
<1>1. Typed(archive) = {j \in DOMAIN archive : IsTyped(archive[j])}
  BY DEF Typed, IsTyped
<1>2. OriginalsOf(archive, r) =
        {j \in DOMAIN archive : /\ IsTyped(archive[j]) /\ Has(r, "RefersTo")
                                /\ First(archive[j], "RecordID") = First(r, "RefersTo")}
  BY <1>1 DEF OriginalsOf
<1>3. ASSUME IsSequence(archive), OriginalsOf(archive, r) # {}
      PROVE  Min(OriginalsOf(archive, r)) \in OriginalsOf(archive, r)
  <2>1. PICK n \in Nat : n = Len(archive) /\ DOMAIN archive = 1..n
    BY <1>3, SequenceShape
  <2>2. PICK S : S = OriginalsOf(archive, r)
    OBVIOUS
  <2>3. S \in SUBSET (1..n)
    BY <1>2, <2>1, <2>2
  <2>4. S \in SUBSET Nat /\ IsFiniteSet(S)
    BY <2>1, <2>3, PlacesFinite
  <2>5. Min(S) \in S
    BY <1>3, <2>2, <2>4, LeastPlace
  <2>6. QED
    BY <2>2, <2>5
<1>4. QED
  BY <1>2, <1>3

\* payload_types: the first response of an identifier counts.
LEMMA PayloadTypesThere ==
  ASSUME NEW archive, NEW r, Has(r, "RefersTo"), NEW types, types = PayloadTypes(archive)
  PROVE  /\ First(r, "RefersTo") \in DOMAIN types <=> OriginalsOf(archive, r) # {}
         /\ First(r, "RefersTo") \in DOMAIN types =>
              types[First(r, "RefersTo")]
                = First(archive[Min(OriginalsOf(archive, r))], "IdentifiedPayloadType")
<1> DEFINE ids == {First(archive[i], "RecordID") : i \in Typed(archive)}
           typeOf(id) == First(archive[Min({i \in Typed(archive) : First(archive[i], "RecordID") = id})],
                               "IdentifiedPayloadType")
<1>1. types = [id \in ids |-> typeOf(id)]
  BY DEF PayloadTypes
<1>2. PICK x : x = First(r, "RefersTo")
  OBVIOUS
<1>3. OriginalsOf(archive, r) = {i \in Typed(archive) : First(archive[i], "RecordID") = x}
  BY <1>2 DEF OriginalsOf
<1>4. x \in ids <=> OriginalsOf(archive, r) # {}
  BY <1>3
<1>5. typeOf(x) = First(archive[Min(OriginalsOf(archive, r))], "IdentifiedPayloadType")
  BY <1>3
<1> HIDE DEF typeOf, ids
<1>6. QED
  BY <1>1, <1>2, <1>4, <1>5

\* Originals are a matter of types, identifiers and one reference.
LEMMA OriginalsSame ==
  ASSUME NEW archive, NEW archive2, DOMAIN archive2 = DOMAIN archive,
         \A j \in DOMAIN archive : /\ IsTyped(archive2[j]) <=> IsTyped(archive[j])
                                   /\ First(archive2[j], "RecordID") = First(archive[j], "RecordID"),
         NEW r, NEW r2, ValuesOf(r2.lines, "RefersTo") = ValuesOf(r.lines, "RefersTo")
  PROVE  OriginalsOf(archive2, r2) = OriginalsOf(archive, r)
<1>1. (Has(r2, "RefersTo") <=> Has(r, "RefersTo")) /\ First(r2, "RefersTo") = First(r, "RefersTo")
  BY SameDeclared
<1>2. \A j : j \in OriginalsOf(archive2, r2) <=> j \in OriginalsOf(archive, r)
  BY <1>1, OriginalsThere
<1>3. QED
  BY <1>2

\* Whether a record declares a type for its revisits.
LEMMA SameTyped ==
  ASSUME NEW r, NEW r2, Declares(r2, "response") <=> Declares(r, "response"),
         ValuesOf(r2.lines, "RecordID") = ValuesOf(r.lines, "RecordID"),
         Declares(r, "response") => PayloadType(r2) = PayloadType(r)
  PROVE  IsTyped(r2) <=> IsTyped(r)
<1>1. Has(r2, "RecordID") <=> Has(r, "RecordID")
  BY SameDeclared
<1>2. Declares(r, "response") =>
         /\ Has(r2, "IdentifiedPayloadType") <=> Has(r, "IdentifiedPayloadType")
         /\ First(r2, "IdentifiedPayloadType") = First(r, "IdentifiedPayloadType")
  BY SameDeclared DEF PayloadType
<1>3. QED
  BY <1>1, <1>2 DEF IsTyped

\* A response is not a revisit.
LEMMA OneType ==
  ASSUME NEW r
  PROVE  ~(Declares(r, "response") /\ Declares(r, "revisit"))
BY DEF Declares

\* What declares a type keeps it.
LEMMA ResponsesTyped ==
  ASSUME NEW first, NEW now, Files(first, now), \A i \in DOMAIN now : TypeOf(first, now, i),
         NEW j \in DOMAIN now
  PROVE  /\ \A type : Declares(now[j], type) <=> Declares(first[j], type)
         /\ Declares(now[j], "response") => PayloadType(now[j]) = PayloadType(first[j])
<1>1. \A type : Declares(now[j], type) <=> Declares(first[j], type)
  BY SameIdentity DEF Files
<1>2. QED
  BY <1>1, OneType DEF TypeOf

\* Before anything is identified the originals are those of the source.
LEMMA OriginalsUnchanged ==
  ASSUME NEW first, NEW now, Files(first, now), \A i \in DOMAIN now : TypeOf(first, now, i),
         NamesUnchanged(first, now), NEW i \in DOMAIN now
  PROVE  OriginalsOf(now, now[i]) = OriginalsOf(first, first[i])
<1>1. DOMAIN now = DOMAIN first
  BY DEF Files
<1>2. \A j \in DOMAIN first :
         /\ ValuesOf(now[j].lines, "RecordID") = ValuesOf(first[j].lines, "RecordID")
         /\ ValuesOf(now[j].lines, "RefersTo") = ValuesOf(first[j].lines, "RefersTo")
  BY <1>1 DEF NamesUnchanged, ReferenceFields
<1>3. \A j \in DOMAIN first : IsTyped(now[j]) <=> IsTyped(first[j])
  <2>1. TAKE j \in DOMAIN first
  <2>2. /\ Declares(now[j], "response") <=> Declares(first[j], "response")
        /\ Declares(now[j], "response") => PayloadType(now[j]) = PayloadType(first[j])
    BY <1>1, ResponsesTyped
  <2>3. QED
    BY <1>2, <2>2, SameTyped
<1>4. \A j \in DOMAIN first : First(now[j], "RecordID") = First(first[j], "RecordID")
  BY <1>2, SameDeclared
<1>5. QED
  BY <1>1, <1>2, <1>3, <1>4, OriginalsSame

\* An operation that is not id leaves every revisit its originals.
LEMMA OriginalsOn ==
  ASSUME NEW now, NEW next, NEW t, NEW p, IsCopiedFile(t, p, now, next), t[1] # "id", NEW i \in DOMAIN now
  PROVE  OriginalsOf(next, next[i]) = OriginalsOf(now, now[i])
<1>1. DOMAIN next = DOMAIN now
  BY DEF IsCopiedFile
<1>2. \A j \in DOMAIN now :
         /\ ValuesOf(next[j].lines, "RecordID") = ValuesOf(now[j].lines, "RecordID")
         /\ ValuesOf(next[j].lines, "RefersTo") = ValuesOf(now[j].lines, "RefersTo")
  BY DEF IsCopiedFile, IsCopyOf, ReferenceFields
<1>3. \A j \in DOMAIN now : IsTyped(next[j]) <=> IsTyped(now[j])
  <2>1. TAKE j \in DOMAIN now
  <2>2. Declares(next[j], "response") <=> Declares(now[j], "response")
    BY IdentityOn
  <2>3. ASSUME Declares(now[j], "response") PROVE PayloadType(next[j]) = PayloadType(now[j])
    <3>1. CASE t[1] # "propagate"
      BY <3>1 DEF IsCopiedFile, IsCopyOf
    <3>2. CASE t[1] = "propagate"
      <4>1. IsRecord(now[j]) /\ next[j] = Propagated(now[j], p)
        BY <3>2 DEF IsCopiedFile, IsCopyOf
      <4>2. ~Declares(now[j], "revisit")
        BY <2>3, OneType
      <4>3. QED
        BY <4>1, <4>2, PropagatedValues
    <3>3. QED
      BY <3>1, <3>2
  <2>4. QED
    BY <1>2, <2>2, <2>3, SameTyped
<1>4. \A j \in DOMAIN now : First(next[j], "RecordID") = First(now[j], "RecordID")
  BY <1>2, SameDeclared
<1>5. QED
  BY <1>1, <1>2, <1>3, <1>4, OriginalsSame

\* The written identifier, when it is one.
LEMMA WrittenThere ==
  ASSUME NEW r, NEW x, x # NoId
  PROVE  WrittenId(r) = << x >> <=> Has(r, "RecordID") /\ First(r, "RecordID") = x
BY DEF WrittenId

\* The id command touches no payload type.
LEMMA TypedIdentified ==
  ASSUME NEW now, NEW next, NEW t, NEW p, IsCopiedFile(t, p, now, next), t[1] = "id", NEW j \in DOMAIN now
  PROVE  /\ PayloadType(next[j]) = PayloadType(now[j])
         /\ Has(now[j], "RecordID") /\ Has(next[j], "RecordID") => (IsTyped(next[j]) <=> IsTyped(now[j]))
<1>1. PayloadType(next[j]) = PayloadType(now[j])
  BY DEF IsCopiedFile, IsCopyOf
<1>2. Declares(next[j], "response") <=> Declares(now[j], "response")
  BY IdentityOn
<1>3. /\ Has(next[j], "IdentifiedPayloadType") <=> Has(now[j], "IdentifiedPayloadType")
      /\ First(next[j], "IdentifiedPayloadType") = First(now[j], "IdentifiedPayloadType")
  BY <1>1, SameDeclared DEF PayloadType
<1>4. QED
  BY <1>1, <1>2, <1>3 DEF IsTyped

\* Originals stay those of their revisit when all are identified again.
LEMMA OriginalsIdentified ==
  ASSUME NEW now, NEW next, NEW t, NEW p, IsCopiedFile(t, p, now, next), t[1] = "id",
         NoneUnnamed(now), NEW i \in DOMAIN now, OriginalsOf(now, now[i]) # {}
  PROVE  OriginalsOf(next, next[i]) = OriginalsOf(now, now[i])
<1> DEFINE O == OriginalsOf(now, now[i])
           O2 == OriginalsOf(next, next[i])
<1>1. DOMAIN next = DOMAIN now
  BY DEF IsCopiedFile
<1>2. PICK x : x = First(now[i], "RefersTo")
  OBVIOUS
<1>3. PICK x2 : x2 = First(next[i], "RefersTo")
  OBVIOUS
<1>4. Has(now[i], "RefersTo")
  BY OriginalsThere
<1>5. 1 \in DOMAIN ValuesOf(now[i].lines, "RefersTo") /\ Has(next[i], "RefersTo")
  <2>1. IsRecord(now[i]) /\ ReferencesKept(now[i], next[i])
    BY DEF IsCopiedFile, IsCopyOf, Kept
  <2>2. 1 \in DOMAIN ValuesOf(now[i].lines, "RefersTo")
    BY <1>4, <2>1, HasField
  <2>3. 1 \in DOMAIN ValuesOf(next[i].lines, "RefersTo")
    BY <2>1, <2>2 DEF ReferencesKept, ReferenceFields
  <2>4. QED
    BY <2>2, <2>3 DEF Has
<1>6. x2 = RedirectOf(p, x)
  <2>1. ReferencesLed(now[i], next[i], p)
    BY IdentifiedFile
  <2>2. QED
    BY <2>1, <1>2, <1>3, <1>5 DEF ReferencesLed, ReferenceFields, First
<1>7. \A j : j \in O <=> j \in DOMAIN now /\ IsTyped(now[j]) /\ First(now[j], "RecordID") = x
  BY <1>2, <1>4, OriginalsThere
<1>8. \A j : j \in O2 <=> j \in DOMAIN now /\ IsTyped(next[j]) /\ First(next[j], "RecordID") = x2
  BY <1>1, <1>3, <1>5, OriginalsThere
<1> HIDE DEF O, O2
<1>9. \A r : IsTyped(r) => Has(r, "RecordID")
  BY DEF IsTyped
<1>10. CASE x # NoId
  <2>1. PICK j \in DOMAIN now : IsTyped(now[j]) /\ First(now[j], "RecordID") = x
    BY <1>7 DEF O
  <2>2. WrittenId(now[j]) = << x >>
    BY <1>9, <1>10, <2>1, WrittenThere
  <2>3. WrittenId(next[j]) = << x2 >>
    <3>1. \A y : \A k \in DOMAIN now : WrittenId(now[k]) = << y >> => WrittenId(next[k]) = << RedirectOf(p, y) >>
      BY IdentifiedFile
    <3>2. QED
      BY <3>1, <2>2, <1>6
  <2>4. x2 # NoId /\ Has(next[j], "RecordID") /\ First(next[j], "RecordID") = x2
    BY <2>3, DerivedOnce
  <2>5. Distinct(now) /\ Distinct(next)
    BY IdentifiedFile
  <2>6. j \in O2
    BY <2>1, <2>4, <1>8, <1>9, TypedIdentified
  <2>7. \A k \in O : k = j
    <3>1. TAKE k \in O
    <3>2. WrittenId(now[k]) = << x >> /\ k \in DOMAIN now
      BY <1>7, <1>9, <1>10, WrittenThere
    <3>3. QED
      BY <3>2, <2>2, <2>5 DEF Distinct
  <2>8. \A k \in O2 : k = j
    <3>1. TAKE k \in O2
    <3>2. WrittenId(next[k]) = << x2 >> /\ k \in DOMAIN next
      BY <1>1, <1>8, <1>9, <2>4, WrittenThere
    <3>3. QED
      BY <3>2, <2>3, <2>5, <1>1 DEF Distinct
  <2>9. O2 = O
    BY <2>1, <2>6, <2>7, <2>8, <1>7
  <2>10. QED
    BY <2>9 DEF O, O2
<1>11. CASE x = NoId
  <2>1. x2 = NoId
    BY <1>6, <1>11, IdentifiedFile DEF RedirectOf
  <2>2. \A j \in DOMAIN now : ~IsIdentifiable(now[j].version, now[j].lines) =>
           /\ Has(next[j], "RecordID") <=> Has(now[j], "RecordID")
           /\ First(next[j], "RecordID") = First(now[j], "RecordID")
    <3>1. TAKE j \in DOMAIN now
    <3>2. ~IsIdentifiable(now[j].version, now[j].lines) =>
             ValuesOf(next[j].lines, "RecordID") = ValuesOf(now[j].lines, "RecordID")
      BY DerivedOnce, IdentifiedFile
    <3>3. QED
      BY <3>2, SameDeclared
  <2>3. NoneUnnamed(next)
    BY IdentifiedFile
  <2>4. ASSUME NEW j \in O PROVE j \in O2
    <3>1. j \in DOMAIN now /\ IsTyped(now[j]) /\ First(now[j], "RecordID") = NoId /\ Has(now[j], "RecordID")
      BY <1>7, <1>9, <1>11
    <3>2. ~IsIdentifiable(now[j].version, now[j].lines)
      BY <3>1 DEF NoneUnnamed
    <3>3. QED
      BY <3>1, <3>2, <2>1, <2>2, <1>8, TypedIdentified
  <2>5. ASSUME NEW j \in O2 PROVE j \in O
    <3>1. j \in DOMAIN now /\ IsTyped(next[j]) /\ First(next[j], "RecordID") = NoId /\ Has(next[j], "RecordID")
      BY <1>8, <1>9, <2>1
    <3>2. ~IsIdentifiable(next[j].version, next[j].lines)
      BY <1>1, <2>3, <3>1 DEF NoneUnnamed
    <3>3. ~IsIdentifiable(now[j].version, now[j].lines)
      BY <3>1, <3>2, IdentityOn
    <3>4. QED
      BY <3>1, <3>3, <2>2, <1>7, <1>11, TypedIdentified
  <2>6. O2 = O
    BY <2>4, <2>5
  <2>7. QED
    BY <2>6 DEF O, O2
<1>12. QED
  BY <1>10, <1>11

\* A type a revisit was given stays that of an original.
LEMMA TypesOn ==
  ASSUME NEW first, NEW now, NEW next, NEW t, NEW p, Files(first, now), IsCopiedFile(t, p, now, next),
         NamesUnchanged(first, now) \/ NamesFollowed(first, now),
         \A i \in DOMAIN now : TypeOf(first, now, i), NEW i \in DOMAIN now
  PROVE  TypeOf(first, next, i)
<1> DEFINE O == OriginalsOf(now, now[i])
           O2 == OriginalsOf(next, next[i])
<1>1. TypeOf(first, now, i)
  OBVIOUS
<1>2. ASSUME PayloadType(next[i]) = PayloadType(now[i]),
             O # {} => O2 = O \/ O = OriginalsOf(first, first[i])
      PROVE  TypeOf(first, next, i)
  <2>1. CASE PayloadType(now[i]) = PayloadType(first[i])
    BY <1>2, <2>1 DEF TypeOf
  <2>2. CASE PayloadType(now[i]) # PayloadType(first[i])
    <3>1. /\ PayloadType(first[i]) = << >> /\ Declares(first[i], "revisit")
          /\ \E originals \in {OriginalsOf(first, first[i]), O} :
               /\ originals # {}
               /\ PayloadType(now[i]) = <<First(first[Min(originals)], "IdentifiedPayloadType")>>
      BY <1>1, <2>2 DEF TypeOf
    <3>2. PICK originals \in {OriginalsOf(first, first[i]), O} :
             /\ originals # {}
             /\ PayloadType(now[i]) = <<First(first[Min(originals)], "IdentifiedPayloadType")>>
      BY <3>1
    <3>3. originals \in {OriginalsOf(first, first[i]), O2}
      BY <1>2, <3>2
    <3>4. PayloadType(next[i]) = <<First(first[Min(originals)], "IdentifiedPayloadType")>>
      BY <1>2, <3>2
    <3>5. QED
      BY <3>1, <3>2, <3>3, <3>4 DEF TypeOf
  <2>3. QED
    BY <2>1, <2>2
<1>3. CASE t[1] = "id"
  <2>1. PayloadType(next[i]) = PayloadType(now[i])
    BY <1>3, TypedIdentified
  <2>2. CASE NamesUnchanged(first, now)
    BY <2>1, <2>2, <1>2, OriginalsUnchanged
  <2>3. CASE NamesFollowed(first, now)
    <3>1. O # {} => O2 = O
      BY <1>3, <2>3, OriginalsIdentified DEF NamesFollowed
    <3>2. QED
      BY <2>1, <3>1, <1>2
  <2>4. QED
    BY <2>2, <2>3
<1>4. t[1] # "id" => O2 = O
  BY OriginalsOn
<1>5. CASE t[1] # "id" /\ PayloadType(next[i]) = PayloadType(now[i])
  BY <1>2, <1>4, <1>5
<1>6. CASE t[1] # "id" /\ PayloadType(next[i]) # PayloadType(now[i])
  <2>1. t[1] = "propagate" /\ IsRecord(now[i]) /\ next[i] = Propagated(now[i], p) /\ p = PayloadTypes(now)
    BY <1>6 DEF IsCopiedFile, IsCopyOf, Planned
  <2>2. /\ Declares(now[i], "revisit") /\ ~Has(now[i], "IdentifiedPayloadType")
        /\ Has(now[i], "RefersTo") /\ First(now[i], "RefersTo") \in DOMAIN p
        /\ PayloadType(next[i]) = << p[First(now[i], "RefersTo")] >>
    BY <2>1, <1>6, PropagatedValues
  <2>3. O # {} /\ p[First(now[i], "RefersTo")] = First(now[Min(O)], "IdentifiedPayloadType")
    BY <2>1, <2>2, PayloadTypesThere
  <2>4. Min(O) \in O
    BY <2>3, OriginalsThere DEF Files
  <2>5. PICK m : m = Min(O)
    OBVIOUS
  <2>6. m \in DOMAIN now /\ Declares(now[m], "response")
    BY <2>4, <2>5, OriginalsThere DEF IsTyped
  <2>7. PayloadType(now[m]) = PayloadType(first[m])
    BY <2>6, ResponsesTyped
  <2>8. First(now[m], "IdentifiedPayloadType") = First(first[m], "IdentifiedPayloadType")
    BY <2>7 DEF PayloadType, First
  <2>9. PayloadType(next[i]) = << First(first[Min(O)], "IdentifiedPayloadType") >>
    BY <2>2, <2>3, <2>5, <2>8
  <2>10. PayloadType(now[i]) = << >>
    BY <2>2 DEF Has, PayloadType
  <2>11. PayloadType(first[i]) = << >>
    BY <2>10, <1>1 DEF TypeOf
  <2>12. Declares(first[i], "revisit")
    BY <2>2, ResponsesTyped
  <2>13. O2 = O
    BY <1>4, <1>6
  <2>14. O2 # {} /\ PayloadType(next[i]) = << First(first[Min(O2)], "IdentifiedPayloadType") >>
    BY <2>3, <2>9, <2>13
  <2>15. QED
    BY <2>11, <2>12, <2>14 DEF TypeOf
<1>7. QED
  BY <1>3, <1>5, <1>6

\* After propagate a revisit with an original has a type.
LEMMA TypesGiven ==
  ASSUME NEW first, NEW now, NEW next, NEW t, NEW p, Files(first, now), IsCopiedFile(t, p, now, next),
         NamesUnchanged(first, now) \/ NamesFollowed(first, now), t[1] = "propagate",
         \A i \in DOMAIN now : TypeOf(first, now, i), NEW i \in DOMAIN now
  PROVE  TypeGiven(first, next, i)
<1>1. SUFFICES ASSUME Declares(first[i], "revisit"),
                      \/ OriginalsOf(next, next[i]) # {}
                      \/ OriginalsOf(first, first[i]) # {} /\ First(first[i], "RefersTo") # NoId
               PROVE  PayloadType(next[i]) # << >>
  BY DEF TypeGiven
<1>2. OriginalsOf(now, now[i]) # {}
  <2>1. CASE OriginalsOf(next, next[i]) # {}
    BY <2>1, OriginalsOn
  <2>2. CASE OriginalsOf(first, first[i]) # {} /\ NamesUnchanged(first, now)
    BY <2>2, OriginalsUnchanged
  <2>3. CASE OriginalsOf(first, first[i]) # {} /\ First(first[i], "RefersTo") # NoId /\ NamesFollowed(first, now)
    <3>1. PICK j \in DOMAIN first : /\ IsTyped(first[j]) /\ Has(first[i], "RefersTo")
                                    /\ First(first[j], "RecordID") = First(first[i], "RefersTo")
      BY <2>3, OriginalsThere
    <3>2. WrittenId(first[j]) = << First(first[i], "RefersTo") >>
      BY <2>3, <3>1, WrittenThere DEF IsTyped
    <3>3. IsRecord(first[i]) /\ IsRecord(now[i]) /\ ReferencesKept(first[i], now[i]) /\ DOMAIN now = DOMAIN first
      BY DEF Files, Kept
    <3>4. 1 \in DOMAIN ValuesOf(first[i].lines, "RefersTo")
      BY <3>1, <3>3, HasField
    <3>5. 1 \in DOMAIN ValuesOf(now[i].lines, "RefersTo")
      BY <3>3, <3>4 DEF ReferencesKept, ReferenceFields
    <3>6. Has(now[i], "RefersTo")
      BY <3>5 DEF Has
    <3>7. Followed(first, now, First(first[i], "RefersTo"), First(now[i], "RefersTo"))
      BY <2>3, <3>4 DEF NamesFollowed, IdsFollowed, First, ReferenceFields
    <3>8. WrittenId(now[j]) = << First(now[i], "RefersTo") >>
      BY <3>2, <3>7 DEF Followed
    <3>9. Has(now[j], "RecordID") /\ First(now[j], "RecordID") = First(now[i], "RefersTo")
      BY <3>8, DerivedOnce
    <3>10. IsTyped(now[j])
      <4>1. Declares(now[j], "response") /\ PayloadType(now[j]) = PayloadType(first[j])
        BY <3>1, <3>3, ResponsesTyped DEF IsTyped
      <4>2. QED
        BY <4>1, <3>1, <3>9, SameDeclared DEF IsTyped, PayloadType
    <3>11. QED
      BY <3>3, <3>6, <3>9, <3>10, OriginalsThere
  <2>4. QED
    BY <1>1, <2>1, <2>2, <2>3
<1>3. Declares(now[i], "revisit")
  BY <1>1, ResponsesTyped
<1>4. Has(now[i], "RefersTo")
  BY <1>2, OriginalsThere
<1>5. IsRecord(now[i]) /\ next[i] = Propagated(now[i], p) /\ p = PayloadTypes(now)
  BY DEF IsCopiedFile, IsCopyOf, Planned
<1>6. First(now[i], "RefersTo") \in DOMAIN p
  BY <1>2, <1>4, <1>5, PayloadTypesThere
<1>7. CASE Has(now[i], "IdentifiedPayloadType")
  <2>1. next[i] = now[i]
    BY <1>5, <1>7, PropagatedValues
  <2>2. QED
    BY <2>1, <1>7 DEF Has, PayloadType
<1>8. CASE ~Has(now[i], "IdentifiedPayloadType")
  <2>1. PayloadType(next[i]) = << p[First(now[i], "RefersTo")] >>
    BY <1>3, <1>4, <1>5, <1>6, <1>8, PropagatedValues
  <2>2. QED
    BY <2>1
<1>9. QED
  BY <1>7, <1>8

-----------------------------------------------------------------------------
\* Nothing is written of a file at first.
LEMMA EmptyOutput ==
  ASSUME NEW t \in Tasks, NEW p, NEW now, IsSequence(now), Planned(t, p, now)
  PROVE  IsCopying(t, p, now, << >>)
<1>1. Len(now) \in Nat
  BY SequenceShape
<1>2. << >> \in Seq(ToSet(<< >>)) /\ Len(<< >>) = 0
  OBVIOUS
<1>3. QED
  BY <1>1, <1>2 DEF IsCopying, IsSequence

\* One record more is written.
LEMMA OneCopied ==
  ASSUME NEW t, NEW p, NEW now, IsSequence(now), NEW written, IsCopying(t, p, now, written),
         Len(written) < Len(now), ~CannotCopyBy(t, now[Len(written) + 1]),
         NEW written2, written2 = Append(written, CopiedBy(t, p, now[Len(written) + 1]))
  PROVE  IsCopying(t, p, now, written2)
<1>1. PICK n \in Nat : n = Len(written) /\ DOMAIN written = 1..n /\ written = [i \in 1..n |-> written[i]]
  BY SequenceShape DEF IsCopying
<1>2. Len(now) \in Nat
  BY SequenceShape
<1>3. PICK e : e = CopiedBy(t, p, now[n + 1])
  OBVIOUS
<1>4. /\ written2 = [i \in 1..(n + 1) |-> written2[i]]
      /\ \A i \in 1..(n + 1) : written2[i] = IF i = n + 1 THEN e ELSE written[i]
  <2>1. PICK S : S = ToSet(written) \cup {e}
    OBVIOUS
  <2>2. written \in Seq(S)
    <3>1. \A i \in 1..n : written[i] \in S
      BY <1>1, <2>1 DEF ToSet
    <3>2. QED
      BY <1>1, <3>1
  <2>3. e \in S
    BY <2>1
  <2>4. written2 = Append(written, e)
    BY <1>1, <1>3
  <2>5. written2 \in Seq(S) /\ Len(written2) = n + 1
    BY <1>1, <2>2, <2>3, <2>4
  <2>6. \A i \in 1..(n + 1) : written2[i] = IF i = n + 1 THEN e ELSE written[i]
    BY <1>1, <2>2, <2>3, <2>4
  <2>7. QED
    BY <2>5, <2>6
<1>5. n + 1 \in Nat
  OBVIOUS
<1>6. IsSequence(written2) /\ Len(written2) = n + 1
  BY <1>4, <1>5, SequenceMade
<1>7. \A k \in 1..(n + 1) : ~CannotCopyBy(t, now[k]) /\ written2[k] = CopiedBy(t, p, now[k])
  <2>1. TAKE k \in 1..(n + 1)
  <2>2. CASE k = n + 1
    BY <1>1, <1>3, <1>4, <2>2
  <2>3. CASE k # n + 1
    <3>1. k \in 1..n
      BY <2>3
    <3>2. QED
      BY <3>1, <2>3, <1>1, <1>4 DEF IsCopying
  <2>4. QED
    BY <2>2, <2>3
<1>8. Len(written2) <= Len(now) /\ 1..Len(written2) = 1..(n + 1)
  BY <1>1, <1>2, <1>6
<1>9. t \in Tasks /\ Planned(t, p, now)
  BY DEF IsCopying
<1>10. \A k \in 1..Len(written2) : ~CannotCopyBy(t, now[k]) /\ written2[k] = CopiedBy(t, p, now[k])
  BY <1>7, <1>8
<1>11. QED
  BY <1>6, <1>8, <1>9, <1>10 DEF IsCopying

\* All records are written.
LEMMA AllCopied ==
  ASSUME NEW t, NEW p, NEW first, NEW now, Files(first, now), NEW written, IsCopying(t, p, now, written),
         Len(written) = Len(now)
  PROVE  IsCopiedFile(t, p, now, written)
<1>1. /\ IsSequence(now) /\ IsSequence(written) /\ Planned(t, p, now) /\ t \in Tasks
      /\ Len(now) \in Nat /\ DOMAIN now = 1..Len(now) /\ DOMAIN written = 1..Len(now)
  BY SequenceShape DEF IsCopying, Files
<1>2. ASSUME NEW i \in DOMAIN now
      PROVE  IsRecord(now[i]) /\ IsCopyOf(t, p, now[i], written[i])
  <2>1. IsRecord(now[i])
    BY DEF Files
  <2>2. ~CannotCopyBy(t, now[i]) /\ written[i] = CopiedBy(t, p, now[i])
    BY <1>1 DEF IsCopying
  <2>3. t[1] \in {"propagate", "canonicalize", "digest", "compress", "rewrite", "id"}
    BY <1>1, TasksAssumption
  <2>4. QED
    BY <2>1, <2>2, <2>3, CopiedKept
<1>3. QED
  BY <1>1, <1>2 DEF IsCopiedFile

\* The invariant holds of every file before any operation.
LEMMA OperationsInitially == OperationsInit => OperationsInv
<1> SUFFICES ASSUME OperationsInit PROVE OperationsInv
  OBVIOUS
<1>1. source \in Archives /\ file = source
  BY DEF OperationsInit
<1>2. Files(source, file)
  <2>1. IsSequence(source) /\ \A i \in DOMAIN source : IsRecord(source[i])
    BY <1>1, ArchivesAssumption
  <2>2. QED
    BY <1>1, <2>1, KeptAsIs DEF Files
<1>3. NamesUnchanged(source, file)
  BY <1>1 DEF NamesUnchanged
<1>4. \A i \in DOMAIN file : TypeOf(source, file, i)
  BY <1>1 DEF TypeOf
<1>5. QED
  BY <1>1, <1>2, <1>3, <1>4 DEF OperationsInit, OperationsInv

\* Every step keeps the invariant; a file changes when it is published only.
LEMMA OperationsOn == OperationsInv /\ [OperationsNext]_operationsVars => OperationsInv'
<1> SUFFICES ASSUME OperationsInv, [OperationsNext]_operationsVars PROVE OperationsInv'
  OBVIOUS
<1>1. CASE UNCHANGED operationsVars
  BY <1>1 DEF OperationsInv, operationsVars
<1>2. CASE Begin
  <2>1. task' \in Tasks /\ output = << >> /\ pass' \in {"planning", "copying"}
    BY <1>2 DEF Begin, OperationsInv
  <2>2. pass' = "copying" => IsCopying(task', plan', file', output')
    <3>1. SUFFICES ASSUME pass' = "copying" PROVE IsCopying(task', plan', file', output')
      OBVIOUS
    <3>2. task'[1] # "propagate" /\ task'[1] # "id"
      BY <3>1, <1>2 DEF Begin
    <3>3. Planned(task', plan, file)
      BY <3>2 DEF Planned
    <3>4. IsCopying(task', plan, file, << >>)
      BY <2>1, <3>3, EmptyOutput DEF OperationsInv, Files
    <3>5. QED
      BY <3>4, <2>1, <1>2 DEF Begin
  <2>3. QED
    BY <1>2, <2>1, <2>2 DEF Begin, OperationsInv
<1>3. CASE PlanCopy
  <2>1. task \in Tasks /\ output = << >> /\ pass' = "copying"
    BY <1>3 DEF PlanCopy, OperationsInv
  <2>2. Planned(task, plan', file)
    BY <1>3 DEF PlanCopy, Planned
  <2>3. IsCopying(task, plan', file, << >>)
    BY <2>1, <2>2, EmptyOutput DEF OperationsInv, Files
  <2>4. IsCopying(task', plan', file', output')
    BY <2>1, <2>3, <1>3 DEF PlanCopy
  <2>5. QED
    BY <1>3, <2>1, <2>4 DEF PlanCopy, OperationsInv
<1>4. CASE CopyRecord
  <2>1. pass = "copying" /\ Len(output) < Len(file) /\ IsCopying(task, plan, file, output)
    BY <1>4 DEF CopyRecord, OperationsInv
  <2>2. \A r : CannotCopy(r) <=> CannotCopyBy(task, r)
    BY DEF CannotCopy, CannotCopyBy
  <2>3. \A r : Copied(r) = CopiedBy(task, plan, r)
    BY DEF Copied, CopiedBy
  <2>4. /\ ~CannotCopyBy(task, file[Len(output) + 1])
        /\ output' = Append(output, CopiedBy(task, plan, file[Len(output) + 1]))
    BY <1>4, <2>2, <2>3 DEF CopyRecord
  <2>5. IsCopying(task, plan, file, output')
    BY <2>1, <2>4, OneCopied DEF OperationsInv, Files
  <2>6. QED
    BY <1>4, <2>1, <2>5 DEF CopyRecord, OperationsInv
<1>5. CASE RefuseTask
  BY <1>5 DEF RefuseTask, EndTask, OperationsInv
<1>6. CASE AbandonTask
  BY <1>6 DEF AbandonTask, EndTask, OperationsInv
<1>7. CASE PublishTask
  <2>1. /\ pass = "copying" /\ file' = output /\ last' = task /\ source' = source
        /\ derived' = (task[1] = "id" \/ (derived /\ task[1] # "rewrite"))
        /\ pass' = "idle" /\ output' = << >>
    BY <1>7 DEF PublishTask, EndTask
  <2>2. /\ Files(source, file)
        /\ NamesUnchanged(source, file) \/ NamesFollowed(source, file)
        /\ \A i \in DOMAIN file : TypeOf(source, file, i)
    BY DEF OperationsInv
  <2>3. IsCopiedFile(task, plan, file, output)
    <3>1. IsCopying(task, plan, file, output) /\ Len(output) = Len(file)
      BY <1>7 DEF PublishTask, OperationsInv
    <3>2. QED
      BY <2>2, <3>1, AllCopied
  <2>4. DOMAIN output = DOMAIN file
    BY <2>3 DEF IsCopiedFile
  <2>5. Files(source, output)
    BY <2>2, <2>3, FilesOn
  <2>6. NamesUnchanged(source, output) \/ NamesFollowed(source, output)
    <3>1. CASE task[1] = "id"
      BY <2>2, <2>3, <3>1, NamesIdentified
    <3>2. CASE task[1] # "id"
      BY <2>2, <2>3, <3>2, NamesOn
    <3>3. QED
      BY <3>1, <3>2
  <2>7. derived' => IdsDerived(output)
    <3>1. CASE task[1] = "id"
      BY <2>3, <3>1, IdentifiedFile
    <3>2. CASE task[1] # "id" /\ derived /\ task[1] # "rewrite"
      <4>1. IdsDerived(file)
        BY <3>2 DEF OperationsInv
      <4>2. QED
        BY <4>1, <2>2, <2>3, <3>2, NamesOn
    <3>3. QED
      BY <3>1, <3>2, <2>1
  <2>8. \A i \in DOMAIN output : TypeOf(source, output, i)
    BY <2>2, <2>3, <2>4, TypesOn
  <2>9. task[1] = "propagate" => \A i \in DOMAIN output : TypeGiven(source, output, i)
    BY <2>2, <2>3, <2>4, TypesGiven
  <2>10. source \in Archives
    BY DEF OperationsInv
  <2>11. QED
    BY <2>1, <2>5, <2>6, <2>7, <2>8, <2>9, <2>10 DEF OperationsInv
<1>8. QED
  BY <1>1, <1>2, <1>3, <1>4, <1>5, <1>6, <1>7 DEF OperationsNext

\* Over any file of such records, under any operations in any order, each of them
\* finished, refused or abandoned: records are kept but for what is an
\* operation's to change, and either nothing was identified yet or every
\* record that can be was and references lead where they led (plan.rs, id.rs,
\* propagate.rs, canonicalize.rs, digest.rs, rewrite.rs, compress.rs).
THEOREM OperationsInvariant == OperationsSpec => []OperationsInv
BY OperationsInitially, OperationsOn, PTL DEF OperationsSpec

\* A reference to x that has become one to y.
LeadsTo(first, now, x, y) ==
  \/ \E j \in NamedBy(first, x) : Cardinality(NamedBy(first, x)) = 1 /\ WrittenId(now[j]) = << y >>
  \/ Cardinality(NamedBy(first, x)) # 1 /\ y = x
  \/ NamedBy(first, x) = {} /\ NamedBy(now, y) # {}

\* ReferencesFollow, one reference at a time.
LEMMA ReferencesLead ==
  ASSUME \A i \in DOMAIN source, f \in ReferenceFields :
            /\ Len(ValuesOf(file[i].lines, f)) = Len(ValuesOf(source[i].lines, f))
            /\ \A k \in DOMAIN ValuesOf(source[i].lines, f) :
                  LeadsTo(source, file, ValuesOf(source[i].lines, f)[k], ValuesOf(file[i].lines, f)[k]),
         \A i, j \in DOMAIN file :
            (WrittenId(file[i]) # << >> /\ WrittenId(file[i]) = WrittenId(file[j]))
              => WrittenId(source[i]) = WrittenId(source[j])
  PROVE  ReferencesFollow
BY DEF ReferencesFollow, LeadsTo

\* A file with the identifiers it had, or one that was identified.
LEMMA InvImpliesIdentifiersHold == OperationsInv => IdentifiersHold
<1> SUFFICES ASSUME OperationsInv PROVE IdentifiersHold
  OBVIOUS
<1>1. Files(source, file) /\ DOMAIN file = DOMAIN source
  BY DEF OperationsInv, Files
<1>2. IdentifiersDerived
  BY DEF OperationsInv, IdsDerived, IdentifiersDerived
<1>3. \A i \in DOMAIN source, f \in ReferenceFields :
         /\ Len(ValuesOf(file[i].lines, f)) = Len(ValuesOf(source[i].lines, f))
  BY <1>1 DEF Files, Kept, ReferencesKept
<1>4. CASE NamesUnchanged(source, file)
  <2>1. \A j \in DOMAIN file : WrittenId(file[j]) = WrittenId(source[j])
    BY <1>4, SameWritten DEF NamesUnchanged
  <2>2. \A x : LeadsTo(source, file, x, x)
    <3>1. TAKE x
    <3>2. CASE Cardinality(NamedBy(source, x)) = 1
      <4>1. NamedBy(source, x) # {}
        BY <3>2, FS_EmptySet
      <4>2. PICK j \in NamedBy(source, x) : TRUE
        BY <4>1
      <4>3. WrittenId(file[j]) = << x >>
        BY <4>2, <2>1, <1>1 DEF NamedBy
      <4>4. QED
        BY <3>2, <4>2, <4>3 DEF LeadsTo
    <3>3. CASE Cardinality(NamedBy(source, x)) # 1
      BY <3>3 DEF LeadsTo
    <3>4. QED
      BY <3>2, <3>3
  <2>3. \A i \in DOMAIN source, f \in ReferenceFields : \A k \in DOMAIN ValuesOf(source[i].lines, f) :
           LeadsTo(source, file, ValuesOf(source[i].lines, f)[k], ValuesOf(file[i].lines, f)[k])
    BY <1>1, <1>4, <2>2 DEF NamesUnchanged
  <2>4. \A i, j \in DOMAIN file :
           (WrittenId(file[i]) # << >> /\ WrittenId(file[i]) = WrittenId(file[j]))
             => WrittenId(source[i]) = WrittenId(source[j])
    BY <2>1
  <2>5. ReferencesFollow
    BY <1>3, <2>3, <2>4, ReferencesLead
  <2>6. QED
    BY <1>2, <2>5 DEF IdentifiersHold
<1>5. CASE NamesFollowed(source, file)
  <2>1. IdsFollowed(source, file) /\ Distinct(source) /\ Distinct(file)
    BY <1>5 DEF NamesFollowed, IdsFollowed
  <2>2. ASSUME NEW x
        PROVE  \/ NamedBy(source, x) = {} /\ Cardinality(NamedBy(source, x)) = 0
               \/ \E j \in DOMAIN source : /\ NamedBy(source, x) = {j} /\ WrittenId(source[j]) = << x >>
                                           /\ Cardinality(NamedBy(source, x)) = 1
    <3>1. CASE NamedBy(source, x) = {}
      BY <3>1, FS_EmptySet
    <3>2. CASE NamedBy(source, x) # {}
      <4>1. PICK j \in DOMAIN source : WrittenId(source[j]) = << x >>
        BY <3>2 DEF NamedBy
      <4>2. \A m : m \in NamedBy(source, x) <=> m = j
        BY <4>1, <2>1 DEF NamedBy, Distinct
      <4>3. NamedBy(source, x) = {j}
        BY <4>2
      <4>4. Cardinality({j}) = 1
        BY FS_Singleton
      <4>5. QED
        BY <4>1, <4>3, <4>4
    <3>3. QED
      BY <3>1, <3>2
  <2>3. \A i \in DOMAIN source, f \in ReferenceFields : \A k \in DOMAIN ValuesOf(source[i].lines, f) :
           LeadsTo(source, file, ValuesOf(source[i].lines, f)[k], ValuesOf(file[i].lines, f)[k])
    <3>1. ASSUME NEW x, NEW y, Followed(source, file, x, y)
          PROVE  LeadsTo(source, file, x, y)
      <4>1. CASE NamedBy(source, x) = {} /\ Cardinality(NamedBy(source, x)) = 0
        BY <3>1, <4>1 DEF Followed, LeadsTo
      <4>2. CASE \E j \in DOMAIN source : /\ NamedBy(source, x) = {j} /\ WrittenId(source[j]) = << x >>
                                          /\ Cardinality(NamedBy(source, x)) = 1
        BY <3>1, <4>2 DEF Followed, LeadsTo
      <4>3. QED
        BY <2>2, <4>1, <4>2
    <3>2. \A i \in DOMAIN source, f \in ReferenceFields : \A k \in DOMAIN ValuesOf(source[i].lines, f) :
             Followed(source, file, ValuesOf(source[i].lines, f)[k], ValuesOf(file[i].lines, f)[k])
      BY <1>1, <2>1 DEF IdsFollowed
    <3>3. QED
      BY <3>1, <3>2
  <2>4. \A i, j \in DOMAIN file :
           (WrittenId(file[i]) # << >> /\ WrittenId(file[i]) = WrittenId(file[j]))
             => WrittenId(source[i]) = WrittenId(source[j])
    BY <2>1 DEF Distinct
  <2>5. ReferencesFollow
    BY <1>3, <2>3, <2>4, ReferencesLead
  <2>6. QED
    BY <1>2, <2>5 DEF IdentifiersHold
<1>6. QED
  BY <1>4, <1>5 DEF OperationsInv

\* IdentifiersHold: however the operations follow each other, references name what
\* they named, no two records come to share an identifier, and identifiers
\* derived from records are those of the records as they are (plan.rs, id.rs).
THEOREM IdentifiersAlwaysHold == OperationsSpec => []IdentifiersHold
BY OperationsInvariant, InvImpliesIdentifiersHold, PTL

\* Kept records and the types of originals are what is promised.
LEMMA InvImpliesRecordsPreserved == OperationsInv => RecordsPreserved
<1> SUFFICES ASSUME OperationsInv, NEW i \in DOMAIN file
             PROVE  /\ FieldsKept(source[i], file[i]) /\ BlockMeasured(source[i], file[i])
                    /\ DigestsKept(source[i], file[i]) /\ TypePropagated(i)
  BY DEF RecordsPreserved
<1>1. IsRecord(source[i]) /\ IsRecord(file[i]) /\ Kept(source[i], file[i])
  BY DEF OperationsInv, Files
<1>2. FieldsKept(source[i], file[i])
  BY <1>1 DEF FieldsKept, Kept, SameBut
<1>3. BlockMeasured(source[i], file[i])
  BY <1>1 DEF BlockMeasured, Kept, BlockFollowed
<1>4. DigestsKept(source[i], file[i])
  BY <1>1 DEF Kept
<1>5. TypePropagated(i)
  <2>1. TypeOf(source, file, i)
    BY DEF OperationsInv
  <2>2. last # << >> /\ last[1] = "propagate" => TypeGiven(source, file, i)
    BY DEF OperationsInv
  <2>3. QED
    BY <2>1, <2>2 DEF TypePropagated, TypeOf, TypeGiven
<1>6. QED
  BY <1>2, <1>3, <1>4, <1>5

\* RecordsPreserved: fields that are no operation's to change keep their values in
\* their order, lengths and block digests are of the block written, and payload
\* types are the record's own or an original's (propagate.rs, canonicalize.rs,
\* digest.rs, compress.rs, rewrite.rs).
THEOREM RecordsAlwaysPreserved == OperationsSpec => []RecordsPreserved
BY OperationsInvariant, InvImpliesRecordsPreserved, PTL
=============================================================================
