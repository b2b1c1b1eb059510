---------------------------- MODULE MergeProofs ----------------------------
(***************************************************************************)
(* Proofs about Merge, for any inputs.                                     *)
(***************************************************************************)
EXTENDS Merge, WellFoundedInduction, TLAPS

-----------------------------------------------------------------------------
(* The plan.                                                               *)

\* A set of numbers has a least one.
LEMMA LeastExists ==
    ASSUME NEW S, S \subseteq Nat, S # {}
    PROVE  /\ Least(S) \in S
           /\ \A k \in S : Least(S) <= k
<1>. DEFINE Below == OpToRel(<, Nat)
<1>1. PICK n \in S : \A k \in S : ~(<<k, n>> \in Below)
  <2>1. \E n \in S : \A k \in S : ~(<<k, n>> \in Below)
    BY NatLessThanWellFounded, WFMin
  <2>. QED  BY <2>1
<1>2. \A k, m \in Nat : k < m => <<k, m>> \in Below
  <2>1. \A k, m \in Nat : <<k, m>> \in Nat \X Nat /\ <<k, m>>[1] = k /\ <<k, m>>[2] = m
    OBVIOUS
  <2>. QED  BY <2>1 DEF OpToRel
<1>3. \A k \in S : n <= k
  <2>. HIDE DEF Below
  <2>1. \A k \in S : k \in Nat /\ n \in Nat
    OBVIOUS
  <2>2. \A k \in S : ~(k < n)
    BY <1>1, <1>2, <2>1, Zenon
  <2>. QED  BY <2>1, <2>2, SMT
<1>. QED  BY <1>3 DEF Least

LEMMA RecordFields ==
    ASSUME NEW s \in Seq(MergeRecords), NEW n \in DOMAIN s
    PROVE  /\ s[n] \in MergeRecords
           /\ s[n].info \in BOOLEAN
           /\ s[n].id \in RecordIds \cup {Absent}
           /\ s[n].key \in Keys
           /\ s[n].date \in Nat \cup {Absent}
           /\ s[n].warcinfoId \in RecordIds \cup {Absent}
           /\ s[n].refs \in SUBSET RecordIds
           /\ s[n].from \in Nat
<1>1. s[n] \in MergeRecords
  OBVIOUS
<1>. QED  BY <1>1 DEF MergeRecords

\* A group's place is the first of it; what is kept is dated if any of it is,
\* and then no later than any of it.
LEMMA PlanOfGroup ==
    ASSUME NEW s \in Seq(MergeRecords), NEW n \in Infos(s)
    PROVE  /\ Place(s, n) \in Group(s, n)
           /\ \A m \in Group(s, n) : Place(s, n) <= m
           /\ Kept(s, n) \in Group(s, n)
           /\ \A m \in Group(s, n) : s[m].date # Absent =>
                 /\ s[Kept(s, n)].date # Absent
                 /\ s[Kept(s, n)].date <= s[m].date
<1>. DEFINE dated == {m \in Group(s, n) : s[m].date # Absent}
            earliest == {m \in dated : \A k \in dated : s[m].date <= s[k].date}
            dates == {s[m].date : m \in dated}
<1>1. /\ Group(s, n) \subseteq Nat
      /\ Group(s, n) \subseteq DOMAIN s
      /\ n \in Group(s, n)
  BY DEF Group, Infos
<1>2. Place(s, n) \in Group(s, n) /\ \A m \in Group(s, n) : Place(s, n) <= m
  BY <1>1, LeastExists DEF Place
<1>3. CASE dated = {}
  <2>1. Kept(s, n) = Least(Group(s, n))
    BY <1>3 DEF Kept
  <2>2. Kept(s, n) \in Group(s, n)
    BY <1>1, <2>1, LeastExists
  <2>. QED  BY <1>2, <1>3, <2>2
<1>4. CASE dated # {}
  <2>0. \A m \in dated : s[m].date \in Nat
    <3>1. \A m \in dated : m \in DOMAIN s /\ s[m].date # Absent
      BY <1>1
    <3>2. \A m \in DOMAIN s : s[m].date \in Nat \cup {Absent}
      BY RecordFields
    <3>. QED  BY <3>1, <3>2
  <2>1. dates \subseteq Nat /\ dates # {}
    BY <1>4, <2>0
  <2>2. Least(dates) \in dates /\ \A d \in dates : Least(dates) <= d
    BY <2>1, LeastExists
  <2>3. PICK m \in dated : s[m].date = Least(dates)
    BY <2>2
  <2>4. m \in earliest
    BY <2>2, <2>3
  <2>5. earliest \subseteq Nat /\ earliest # {}
    BY <1>1, <2>4
  <2>6. Kept(s, n) = Least(earliest)
    BY <1>4 DEF Kept
  <2>7. Kept(s, n) \in earliest
    BY <2>5, <2>6, LeastExists
  <2>. QED  BY <1>2, <2>7
<1>. QED  BY <1>3, <1>4

\* Matching records have one plan.
LEMMA OnePlan ==
    ASSUME NEW s, NEW m, NEW n, s[m].key = s[n].key
    PROVE  /\ Group(s, m) = Group(s, n)
           /\ Place(s, m) = Place(s, n)
           /\ Kept(s, m) = Kept(s, n)
           /\ KeptId(s, m) = KeptId(s, n)
<1>1. Group(s, m) = Group(s, n)
  BY DEF Group
<1>2. Kept(s, m) = Kept(s, n)
  BY <1>1 DEF Kept
<1>. QED  BY <1>1, <1>2 DEF Place, KeptId

\* What is kept matches, and so does what stands first.
LEMMA PlanMatches ==
    ASSUME NEW s \in Seq(MergeRecords), NEW n \in Infos(s)
    PROVE  /\ Kept(s, n) \in Infos(s)
           /\ s[Kept(s, n)].key = s[n].key
           /\ Place(s, n) \in Infos(s)
           /\ s[Place(s, n)].key = s[n].key
           /\ Place(s, n) <= n
           /\ Place(s, Place(s, n)) = Place(s, n)
           /\ n \in Group(s, n)
<1>1. n \in Group(s, n)
  BY DEF Group
<1>2. /\ Kept(s, n) \in Infos(s) /\ s[Kept(s, n)].key = s[n].key
      /\ Place(s, n) \in Infos(s) /\ s[Place(s, n)].key = s[n].key
  BY PlanOfGroup DEF Group
<1>3. Place(s, n) <= n
  BY <1>1, PlanOfGroup
<1>4. Place(s, Place(s, n)) = Place(s, n)
  BY <1>2, OnePlan
<1>. QED  BY <1>1, <1>2, <1>3, <1>4

\* References to a warcinfo record are references to the one kept of its group.
LEMMA RedirectedToKept ==
    ASSUME NEW s \in Seq(MergeRecords), Consistent(s), ~Unredirectable(s),
           NEW j \in Infos(s), s[j].id # Absent
    PROVE  /\ RedirectedId(s, s[j].id) = KeptId(s, j)
           /\ KeptId(s, j) # Absent
<1>. DEFINE id == s[j].id
<1>1. \A n \in Dropped(s, id) : n \in Infos(s) /\ s[n].id = id /\ KeptId(s, n) = KeptId(s, j)
  BY OnePlan DEF Dropped, Consistent
<1>2. KeptId(s, j) # Absent
  BY PlanMatches DEF Unredirectable, KeptId
<1>3. CASE Dropped(s, id) # {}
  <2>1. (CHOOSE n \in Dropped(s, id) : TRUE) \in Dropped(s, id)
    BY <1>3
  <2>. QED  BY <1>1, <1>2, <1>3, <2>1 DEF RedirectedId
<1>4. CASE Dropped(s, id) = {}
  <2>1. KeptId(s, j) = id
    BY <1>4 DEF Dropped
  <2>. QED  BY <1>2, <1>4, <2>1 DEF RedirectedId
<1>. QED  BY <1>3, <1>4

\* Other references stay as they are.
LEMMA RedirectedOther ==
    ASSUME NEW s, NEW id, \A j \in Infos(s) : s[j].id # id
    PROVE  RedirectedId(s, id) = id
BY DEF RedirectedId, Dropped

LEMMA RedirectedType ==
    ASSUME NEW s \in Seq(MergeRecords), ~Unredirectable(s)
    PROVE  /\ RedirectedId(s, Absent) = Absent
           /\ \A id \in RecordIds : RedirectedId(s, id) \in RecordIds
<1>1. RedirectedId(s, Absent) = Absent
  BY DEF RedirectedId
<1>2. ASSUME NEW id \in RecordIds
      PROVE  RedirectedId(s, id) \in RecordIds
  <2>1. CASE Dropped(s, id) = {}
    BY <2>1 DEF RedirectedId
  <2>2. CASE Dropped(s, id) # {}
    <3>. DEFINE n == CHOOSE n \in Dropped(s, id) : TRUE
    <3>1. n \in Infos(s) /\ s[n].id = id /\ KeptId(s, n) # id
      BY <2>2 DEF Dropped
    <3>2. KeptId(s, n) \in RecordIds \cup {Absent}
      BY <3>1, PlanMatches, RecordFields DEF KeptId, Infos
    <3>3. KeptId(s, n) # Absent
      BY <3>1, AbsentAssumption DEF Unredirectable, KeptId
    <3>4. RedirectedId(s, id) = KeptId(s, n)
      BY <2>2, AbsentAssumption DEF RedirectedId
    <3>. QED  BY <3>2, <3>3, <3>4
  <2>. QED  BY <2>1, <2>2
<1>. QED  BY <1>1, <1>2

LEMMA RedirectFields ==
    ASSUME NEW s \in Seq(MergeRecords), ~Unredirectable(s), NEW r \in MergeRecords
    PROVE  LET q == RedirectReferences(s, r)
           IN  /\ q \in MergeRecords
               /\ q.info = r.info /\ q.id = r.id /\ q.key = r.key
               /\ q.date = r.date /\ q.from = r.from
               /\ q.warcinfoId = RedirectedId(s, r.warcinfoId)
               /\ q.refs = {RedirectedId(s, id) : id \in r.refs}
<1>1. RedirectedId(s, r.warcinfoId) \in RecordIds \cup {Absent}
  BY RedirectedType DEF MergeRecords
<1>2. {RedirectedId(s, id) : id \in r.refs} \subseteq RecordIds
  BY RedirectedType DEF MergeRecords
<1>. QED  BY <1>1, <1>2 DEF RedirectReferences, MergeRecords

-----------------------------------------------------------------------------
(* Scopes.                                                                 *)

\* One warcinfo record at most is the one a record comes under.
LEMMA OneScope ==
    ASSUME NEW in, NEW n \in Nat, NEW j \in Nat, NEW k \in Nat,
           InScope(in, j, n), InScope(in, k, n)
    PROVE  j = k
<1>1. CASE j < k
  BY <1>1 DEF InScope
<1>2. CASE k < j
  BY <1>2 DEF InScope
<1>. QED  BY <1>1, <1>2

LEMMA AssociationOfScoped ==
    ASSUME NEW in, in.records \in Seq(MergeRecords), NEW n \in DOMAIN in.records,
           in.records[n].warcinfoId = Absent, NEW j \in Nat, InScope(in, j, n)
    PROVE  Association(in, n) = {in.records[j].key}
<1>1. n \in Nat /\ j \in DOMAIN in.records
  BY DEF InScope
<1>2. \A k \in DOMAIN in.records : InScope(in, k, n) => k = j
  BY <1>1, OneScope
<1>3. {k \in DOMAIN in.records : InScope(in, k, n)} = {j}
  BY <1>1, <1>2
<1>. QED  BY <1>3 DEF Association

LEMMA AssociationOfUnscoped ==
    ASSUME NEW in, in.records \in Seq(MergeRecords), NEW n \in DOMAIN in.records,
           in.records[n].warcinfoId = Absent,
           \A j \in 1 .. n - 1 : ~InScope(in, j, n)
    PROVE  Association(in, n) = {}
<1>1. \A k \in DOMAIN in.records : ~InScope(in, k, n)
  BY DEF InScope
<1>. QED  BY <1>1 DEF Association

\* What follows a record does not change what it comes under.
LEMMA AssociationOfPrefix ==
    ASSUME NEW q \in Seq(MergeRecords), NEW r \in MergeRecords, NEW i \in DOMAIN q,
           q[i].warcinfoId = Absent
    PROVE  Association([records |-> Append(q, r), first |-> 0], i)
           = Association([records |-> q, first |-> 0], i)
<1>. DEFINE p == Append(q, r)
            old == [records |-> q, first |-> 0]
            new == [records |-> p, first |-> 0]
<1>1. /\ p \in Seq(MergeRecords)
      /\ DOMAIN q \subseteq DOMAIN p
      /\ \A k \in 1 .. i : k \in DOMAIN q /\ p[k] = q[k]
  OBVIOUS
<1>2. \A k \in Nat : InScope(new, k, i) <=> InScope(old, k, i)
  <2>. HIDE DEF p
  <2>1. \A k \in 1 .. i - 1 : \A l \in k + 1 .. i - 1 : l \in 1 .. i
    OBVIOUS
  <2>. QED  BY <1>1, <2>1 DEF InScope
<1>3. {k \in DOMAIN p : InScope(new, k, i)} = {k \in DOMAIN q : InScope(old, k, i)}
  <2>. HIDE DEF p
  <2>1. \A k \in DOMAIN p : InScope(new, k, i) => k \in DOMAIN q
    BY <1>1 DEF InScope
  <2>2. DOMAIN p \subseteq Nat
    BY <1>1
  <2>. QED  BY <1>1, <1>2, <2>1, <2>2
<1>4. \A k \in {k \in DOMAIN q : InScope(old, k, i)} : p[k] = q[k]
  <2>. HIDE DEF p
  <2>. QED  BY <1>1 DEF InScope
<1>5. {p[k].key : k \in {k \in DOMAIN p : InScope(new, k, i)}}
      = {q[k].key : k \in {k \in DOMAIN q : InScope(old, k, i)}}
  <2>. HIDE DEF p, old, new
  <2>. QED  BY <1>3, <1>4
<1>6. p[i].warcinfoId = Absent
  BY <1>1
<1>. QED
  <2>. HIDE DEF p
  <2>1. Association(new, i) = {p[k].key : k \in {k \in DOMAIN p : InScope(new, k, i)}}
    BY <1>6 DEF Association
  <2>2. Association(old, i) = {q[k].key : k \in {k \in DOMAIN q : InScope(old, k, i)}}
    BY DEF Association
  <2>3. Association(new, i) = Association(old, i)
    <3>. HIDE DEF new, old
    <3>. QED  BY <1>5, <2>1, <2>2
  <2>. QED  BY <2>3 DEF p

\* A record that is no warcinfo record leaves the scope as it is, unless it is
\* the last of the first file.
LEMMA ScopePassesOver ==
    ASSUME NEW in, in.records \in Seq(MergeRecords), NEW n \in DOMAIN in.records,
           ~in.records[n].info, n # in.first, in.first \in Nat, NEW j \in Nat
    PROVE  InScope(in, j, n + 1) <=> InScope(in, j, n)
<1>1. ASSUME InScope(in, j, n)
      PROVE  InScope(in, j, n + 1)
  BY <1>1 DEF InScope
<1>2. ASSUME InScope(in, j, n + 1)
      PROVE  InScope(in, j, n)
  <2>1. j \in 1 .. n /\ in.records[j].info /\ j # n
    BY <1>2 DEF InScope
  <2>2. j \in 1 .. n - 1
    BY <2>1
  <2>3. \A k \in j + 1 .. n - 1 : ~in.records[k].info
    BY <1>2, <2>1 DEF InScope
  <2>4. n <= in.first \/ j > in.first
    BY <1>2 DEF InScope
  <2>. QED  BY <2>1, <2>2, <2>3, <2>4 DEF InScope
<1>. QED  BY <1>1, <1>2

LEMMA ScopeOfSecondFile ==
    ASSUME NEW in, NEW n \in Nat, n = in.first
    PROVE  \A j \in 1 .. n : ~InScope(in, j, n + 1)
BY DEF InScope

LEMMA ScopeBegins ==
    ASSUME NEW in, in.records \in Seq(MergeRecords), NEW n \in DOMAIN in.records,
           in.records[n].info, n # in.first, in.first \in Nat
    PROVE  InScope(in, n, n + 1)
BY DEF InScope

-----------------------------------------------------------------------------
(* The invariant.                                                          *)

LEMMA PlannedFacts ==
    ASSUME MergeTypeOK
    PROVE  /\ planned.records \in Seq(MergeRecords)
           /\ planned.first \in Nat
           /\ Consistent(planned.records)
           /\ \A n \in DOMAIN planned.records : planned.records[n].from = n
           /\ inputs.records \in Seq(MergeRecords)
           /\ consumed \in Nat
           /\ consumed <= Len(inputs.records)
           /\ taken \in Nat
           /\ written \in Seq(MergeRecords)
BY DEF MergeTypeOK, Readable, FilePairs

\* A warcinfo record of the output, and what it was made of.
LEMMA WrittenWarcinfo ==
    ASSUME MergeTypeOK, ~Unredirectable(planned.records), NEW p \in Infos(planned.records)
    PROVE  LET s == planned.records
               q == RedirectReferences(s, s[Kept(s, p)])
           IN  /\ q \in MergeRecords
               /\ q.info
               /\ q.key = s[p].key
               /\ q.from = Kept(s, p)
               /\ q.id = KeptId(s, p)
               /\ q.date = s[Kept(s, p)].date
               /\ q.refs = {RedirectedId(s, id) : id \in s[Kept(s, p)].refs}
<1>. DEFINE s == planned.records
            k == Kept(s, p)
<1>1. s \in Seq(MergeRecords) /\ \A n \in DOMAIN s : s[n].from = n
  BY PlannedFacts
<1>2. k \in Infos(s) /\ s[k].key = s[p].key
  BY <1>1, PlanMatches
<1>3. k \in DOMAIN s /\ s[k] \in MergeRecords /\ s[k].info /\ s[k].from = k
  BY <1>1, <1>2, RecordFields DEF Infos
<1>. QED
  <2>. HIDE DEF k, s
  <2>1. LET q == RedirectReferences(s, s[k])
        IN  /\ q \in MergeRecords
            /\ q.info = s[k].info /\ q.id = s[k].id /\ q.key = s[k].key
            /\ q.date = s[k].date /\ q.from = s[k].from
            /\ q.refs = {RedirectedId(s, id) : id \in s[k].refs}
    <3>1. ~Unredirectable(s)
      BY DEF s
    <3>. QED  BY <1>1, <1>3, <3>1, RedirectFields
  <2>2. KeptId(s, p) = s[k].id
    BY DEF KeptId, k
  <2>3. LET q == RedirectReferences(s, s[k])
        IN  /\ q \in MergeRecords
            /\ q.info
            /\ q.key = s[p].key
            /\ q.from = k
            /\ q.id = KeptId(s, p)
            /\ q.date = s[k].date
            /\ q.refs = {RedirectedId(s, id) : id \in s[k].refs}
    BY <1>2, <1>3, <2>1, <2>2
  <2>. QED  BY <2>3 DEF k, s

LEMMA InitInvariant == MergeInit => MergeInv
<1>. SUFFICES ASSUME MergeInit PROVE MergeInv
  OBVIOUS
<1>1. Readable(planned) /\ inputs = planned /\ planned.records \in Seq(MergeRecords)
  BY PairAssumption DEF MergeInit, Readable, FilePairs
<1>2. MergeTypeOK
  BY <1>1 DEF MergeInit, MergeTypeOK, Unscoped
<1>3. Infos(written) = {} /\ DOMAIN written = {}
  BY DEF MergeInit, Infos
<1>4. WarcinfosFollowPlan
  <2>1. \A p \in Infos(planned.records) : ~(p <= taken)
    BY <1>1 DEF MergeInit, Infos
  <2>. QED  BY <1>3, <2>1 DEF MergeInit, WarcinfosFollowPlan, WarcinfoWrittenOnce
<1>5. PlanInStep
  BY <1>1 DEF MergeInit, PlanInStep, Infos
<1>6. ScopeFollowed
  BY <1>1 DEF MergeInit, ScopeFollowed, CurrentScope
<1>7. OrderKept
  BY <1>3 DEF OrderKept
<1>. QED  BY <1>2, <1>3, <1>4, <1>5, <1>6, <1>7 DEF MergeInv, MergeInit

\* The steps that read no record.
LEMMA OtherSteps ==
    ASSUME MergeInv, Build \/ Replace \/ Refuse \/ FailMerge \/ FinishMerge
    PROVE  MergeInv'
<1>1. /\ UNCHANGED <<planned, consumed, taken, inputScope, outputScope, written>>
      /\ stage' \in {"plan", "write", "done", "failed"}
      /\ stage' \in {"write", "done"} => stage = "write" \/ ~Unredirectable(planned.records)
      /\ stage' = "done" => consumed = Len(inputs.records) /\ UNCHANGED inputs
  BY DEF MergeInv, MergeTypeOK, Build, Replace, Refuse, FailMerge, FinishMerge
<1>2. Readable(inputs') /\ (UNCHANGED inputs \/ (stage = "plan" /\ inputs = planned))
  BY PairAssumption DEF MergeInv, MergeTypeOK, Build, Replace, Refuse, FailMerge, FinishMerge
<1>3. /\ MergeTypeOK /\ WarcinfosFollowPlan
      /\ stage = "plan" => consumed = 0
      /\ stage = "done" => consumed = Len(inputs.records)
  BY DEF MergeInv
<1>4. Readable(inputs') /\ inputs'.records \in Seq(MergeRecords)
  BY <1>2 DEF Readable, FilePairs
<1>5. MergeTypeOK'
  <2>1. consumed' \in 0 .. Len(inputs'.records)
    BY <1>1, <1>2, <1>3, <1>4 DEF MergeTypeOK
  <2>. QED  BY <1>1, <1>3, <1>4, <2>1 DEF MergeTypeOK
<1>6. /\ stage' = "plan" => consumed' = 0
      /\ stage' = "done" => consumed' = Len(inputs'.records)
  BY <1>1, <1>3 DEF Build, Replace, Refuse, FailMerge, FinishMerge
<1>7. WarcinfosFollowPlan'
  <2>1. stage' \in {"write", "done"} => ~Unredirectable(planned.records)
    BY <1>1, <1>3 DEF WarcinfosFollowPlan
  <2>. QED  BY <1>1, <1>3, <2>1 DEF WarcinfosFollowPlan, WarcinfoWrittenOnce
<1>8. inputs' = planned' => inputs = planned
  BY <1>1, <1>2
<1>9. ASSUME inputs = planned
      PROVE  /\ PlanInStep'
             /\ ScopeFollowed'
             /\ \A i \in DOMAIN written' : ~written'[i].info => CopiedSoundly(i)'
             /\ OrderKept'
  <2>1. /\ PlanInStep /\ ScopeFollowed /\ OrderKept
        /\ \A i \in DOMAIN written : ~written[i].info => CopiedSoundly(i)
    BY <1>9 DEF MergeInv
  <2>2. PlanInStep' /\ OrderKept'
    BY <1>1, <2>1 DEF PlanInStep, OrderKept
  <2>3. ScopeFollowed'
    BY <1>1, <2>1 DEF ScopeFollowed, CurrentScope
  <2>4. \A i \in DOMAIN written' : ~written'[i].info => CopiedSoundly(i)'
    BY <1>1, <2>1 DEF CopiedSoundly, Output
  <2>. QED  BY <2>2, <2>3, <2>4
<1>. QED  BY <1>5, <1>6, <1>7, <1>8, <1>9 DEF MergeInv

\* An appended record leaves the others where they were.
LEMMA Appended ==
    ASSUME NEW q \in Seq(MergeRecords), NEW r \in MergeRecords
    PROVE  LET p == Append(q, r)
           IN  /\ p \in Seq(MergeRecords)
               /\ Len(p) = Len(q) + 1
               /\ DOMAIN p = DOMAIN q \cup {Len(q) + 1}
               /\ \A i \in DOMAIN q : p[i] = q[i]
               /\ p[Len(q) + 1] = r
               /\ \A i \in DOMAIN q : i \in Nat /\ 1 <= i /\ i <= Len(q)
               /\ Infos(p) = IF r.info THEN Infos(q) \cup {Len(q) + 1} ELSE Infos(q)
<1>. DEFINE p == Append(q, r)
<1>1. /\ p \in Seq(MergeRecords)
      /\ Len(p) = Len(q) + 1
      /\ DOMAIN p = DOMAIN q \cup {Len(q) + 1}
      /\ \A i \in DOMAIN q : p[i] = q[i]
      /\ p[Len(q) + 1] = r
      /\ \A i \in DOMAIN q : i \in Nat /\ 1 <= i /\ i <= Len(q)
  OBVIOUS
<1>2. \A i : i \in Infos(p) <=> IF r.info THEN i \in Infos(q) \cup {Len(q) + 1} ELSE i \in Infos(q)
  <2>. HIDE DEF p
  <2>. QED  BY <1>1 DEF Infos
<1>3. Infos(p) = IF r.info THEN Infos(q) \cup {Len(q) + 1} ELSE Infos(q)
  <2>. HIDE DEF p
  <2>. QED  BY <1>2
<1>. QED  BY <1>1, <1>3

\* The place of a record's group is met with its first record.
LEMMA NextPlace ==
    ASSUME MergeTypeOK, Remaining # {}
    PROVE  LET n == Least(Remaining)
           IN  /\ n \in Infos(planned.records)
               /\ n \in Nat
               /\ taken < n
               /\ \A m \in Infos(planned.records) : taken < m => n <= m
<1>1. Remaining \subseteq Nat
  BY PlannedFacts DEF Remaining, Infos
<1>2. Least(Remaining) \in Remaining /\ \A m \in Remaining : Least(Remaining) <= m
  BY <1>1, LeastExists
<1>. QED  BY <1>1, <1>2, PlannedFacts DEF Remaining

LEMMA MergeWarcinfoStep ==
    ASSUME MergeInv, MergeWarcinfo
    PROVE  MergeInv'
<1>. DEFINE s == planned.records
            n == Least(Remaining)
            q == RedirectReferences(s, s[Kept(s, n)])
<1>0. MergeTypeOK /\ WarcinfosFollowPlan
  BY DEF MergeInv
<1>1. /\ stage = "write" /\ consumed < Len(inputs.records) /\ NextRecord.info
      /\ Remaining # {}
      /\ taken' = n /\ inputScope' = Scope(s, n) /\ consumed' = consumed + 1
      /\ UNCHANGED <<stage, planned, inputs>>
      /\ IF n = Place(s, n)
         THEN outputScope' = n /\ written' = Append(written, q)
         ELSE UNCHANGED <<outputScope, written>>
  BY DEF MergeWarcinfo, Reading
<1>2. ~Unredirectable(s)
  BY <1>0, <1>1 DEF WarcinfosFollowPlan
<1>3. /\ s \in Seq(MergeRecords) /\ written \in Seq(MergeRecords) /\ taken \in Nat /\ consumed \in Nat
      /\ \A m \in DOMAIN s : s[m].from = m
      /\ Infos(s) \subseteq DOMAIN s /\ DOMAIN s \subseteq Nat
      /\ \A m \in Infos(s) : m >= 1
  BY <1>0, PlannedFacts DEF Infos
<1>4. /\ n \in Infos(s) /\ n \in Nat /\ taken < n
      /\ \A m \in Infos(s) : taken < m => n <= m
  BY <1>0, <1>1, NextPlace
<1>5. /\ q \in MergeRecords /\ q.info /\ q.key = s[n].key /\ q.from = Kept(s, n)
  BY <1>0, <1>2, <1>4, WrittenWarcinfo
<1>6. /\ Kept(s, n) \in Infos(s) /\ s[Kept(s, n)].key = s[n].key
      /\ Place(s, n) \in Infos(s) /\ s[Place(s, n)].key = s[n].key
      /\ Place(s, n) <= n
  BY <1>3, <1>4, PlanMatches
<1>. HIDE DEF n, q, s
<1>7. MergeTypeOK'
  <2>1. written' \in Seq(MergeRecords)
    <3>1. Append(written, q) \in Seq(MergeRecords)
      BY <1>3, <1>5
    <3>. QED  BY <1>1, <1>3, <3>1
  <2>2. inputScope' \in [place : Nat, id : RecordIds \cup {Absent}]
    <3>1. KeptId(s, n) \in RecordIds \cup {Absent}
      BY <1>3, <1>6, RecordFields DEF KeptId
    <3>. QED  BY <1>1, <1>3, <1>6, <3>1 DEF Scope
  <2>3. outputScope' \in Nat /\ consumed' \in 0 .. Len(inputs'.records)
    BY <1>0, <1>1, <1>3, <1>4, PlannedFacts DEF MergeTypeOK
  <2>. QED  BY <1>0, <1>1, <1>4, <2>1, <2>2, <2>3 DEF MergeTypeOK
<1>8. ASSUME n = Place(s, n)
      PROVE  /\ WarcinfosFollowPlan'
             /\ inputs = planned =>
                  /\ n = consumed + 1
                  /\ \A i \in DOMAIN written' : ~written'[i].info => CopiedSoundly(i)'
                  /\ OrderKept'
  <2>. DEFINE l == Len(written) + 1
  <2>1. /\ written' = Append(written, q) /\ outputScope' = n
        /\ DOMAIN written' = DOMAIN written \cup {l}
        /\ \A i \in DOMAIN written : written'[i] = written[i]
        /\ written'[l] = q
        /\ Len(written') = l /\ l \in Nat
        /\ \A i \in DOMAIN written : i \in Nat /\ 1 <= i /\ i < l
        /\ Infos(written') = Infos(written) \cup {l}
        /\ Infos(written) \subseteq DOMAIN written
    BY <1>1, <1>3, <1>5, <1>8, Appended DEF Infos
  <2>. HIDE DEF l
  <2>2. \A m \in Infos(written') : \E p \in Infos(s) :
          /\ p = Place(s, p) /\ p <= taken'
          /\ written'[m] = RedirectReferences(s, s[Kept(s, p)])
    <3>1. ASSUME NEW m \in Infos(written)
          PROVE  \E p \in Infos(s) :
                   /\ p = Place(s, p) /\ p <= taken'
                   /\ written'[m] = RedirectReferences(s, s[Kept(s, p)])
      <4>1. PICK p \in Infos(s) : /\ p = Place(s, p) /\ p <= taken
                                  /\ written[m] = RedirectReferences(s, s[Kept(s, p)])
        BY <1>0 DEF WarcinfosFollowPlan, s
      <4>2. p <= taken'
        BY <1>1, <1>3, <1>4, <4>1
      <4>. QED  BY <2>1, <4>1, <4>2
    <3>2. written'[l] = RedirectReferences(s, s[Kept(s, n)])
      BY <2>1 DEF q
    <3>. QED  BY <1>1, <1>3, <1>4, <1>8, <2>1, <3>1, <3>2
  <2>3. \A m \in Infos(written) : written[m].key # s[n].key
    <3>. SUFFICES ASSUME NEW m \in Infos(written), written[m].key = s[n].key
                  PROVE  FALSE
      OBVIOUS
    <3>1. PICK p \in Infos(s) : /\ p = Place(s, p) /\ p <= taken
                                /\ written[m] = RedirectReferences(s, s[Kept(s, p)])
      BY <1>0 DEF WarcinfosFollowPlan, s
    <3>2. written[m].key = s[p].key
      BY <1>0, <1>2, <3>1, WrittenWarcinfo DEF s
    <3>3. Place(s, p) = Place(s, n)
      BY <3>2, OnePlan
    <3>. QED  BY <1>3, <1>4, <1>8, <3>1, <3>3
  <2>4. WarcinfoWrittenOnce'
    <3>1. \A k, m \in Infos(written) : written[k].key = written[m].key => k = m
      BY <1>0 DEF WarcinfosFollowPlan, WarcinfoWrittenOnce
    <3>2. \A k, m \in Infos(written') : written'[k].key = written'[m].key => k = m
      BY <1>5, <2>1, <2>3, <3>1
    <3>. QED  BY <3>2 DEF WarcinfoWrittenOnce
  <2>5. \A p \in Infos(s) : p = Place(s, p) /\ p <= taken' =>
          \E m \in Infos(written') : written'[m].key = s[p].key
    <3>. SUFFICES ASSUME NEW p \in Infos(s), p = Place(s, p), p <= taken'
                  PROVE  \E m \in Infos(written') : written'[m].key = s[p].key
      OBVIOUS
    <3>1. CASE p <= taken
      <4>1. PICK m \in Infos(written) : written[m].key = s[p].key
        BY <1>0, <3>1 DEF WarcinfosFollowPlan, s
      <4>. QED  BY <2>1, <4>1
    <3>2. CASE ~(p <= taken)
      <4>1. p = n
        BY <1>1, <1>3, <1>4, <3>2
      <4>. QED  BY <1>5, <2>1, <4>1
    <3>. QED  BY <3>1, <3>2
  <2>6. \E m \in Infos(written') : /\ written'[m].key = s[n].key
                                   /\ \A k \in m + 1 .. Len(written') : ~written'[k].info
    <3>1. \A k \in l + 1 .. Len(written') : FALSE
      BY <2>1
    <3>. QED  BY <1>5, <2>1, <3>1
  <2>7. WarcinfosFollowPlan'
    <3>1. /\ outputScope' \in Infos(s) /\ outputScope' = Place(s, outputScope')
          /\ \E m \in Infos(written') : /\ written'[m].key = s[outputScope'].key
                                        /\ \A k \in m + 1 .. Len(written') : ~written'[k].info
      BY <1>4, <1>8, <2>1, <2>6
    <3>. QED  BY <1>1, <1>2, <2>2, <2>4, <2>5, <3>1 DEF WarcinfosFollowPlan, s
  <2>8. ASSUME inputs = planned
        PROVE  /\ n = consumed + 1
               /\ \A i \in DOMAIN written' : ~written'[i].info => CopiedSoundly(i)'
               /\ OrderKept'
    <3>1. PlanInStep /\ OrderKept /\ \A i \in DOMAIN written : ~written[i].info => CopiedSoundly(i)
      BY <2>8 DEF MergeInv
    <3>2. n = consumed + 1
      <4>1. consumed + 1 \in Infos(s) /\ taken <= consumed
        BY <1>1, <1>3, <2>8, <3>1 DEF NextRecord, PlanInStep, Infos, s
      <4>2. ~(n <= consumed)
        BY <1>3, <1>4, <3>1 DEF PlanInStep, s
      <4>. QED  BY <1>3, <1>4, <4>1, <4>2
    <3>3. ASSUME NEW i \in DOMAIN written', ~written'[i].info
          PROVE  CopiedSoundly(i)'
      <4>1. i \in DOMAIN written /\ written'[i] = written[i]
        BY <1>5, <2>1, <3>3
      <4>2. CopiedSoundly(i)
        BY <3>1, <3>3, <4>1
      <4>3. written[i].warcinfoId = Absent => Association(Output', i) = Association(Output, i)
        <5>1. Output' = [records |-> Append(written, q), first |-> 0]
          BY <2>1 DEF Output
        <5>2. Output = [records |-> written, first |-> 0]
          BY DEF Output
        <5>. QED  BY <1>3, <1>5, <4>1, <5>1, <5>2, AssociationOfPrefix
      <4>4. written[i] = RedirectReferences(s, s[written[i].from]) /\ s[written[i].from].warcinfoId = Absent
              => written[i].warcinfoId = Absent
        <5>. SUFFICES ASSUME written[i] = RedirectReferences(s, s[written[i].from]),
                             s[written[i].from].warcinfoId = Absent
                      PROVE  written[i].warcinfoId = Absent
          OBVIOUS
        <5>1. s[written[i].from] \in MergeRecords
          <6>1. consumed <= Len(s)
            BY <1>0, <2>8, PlannedFacts DEF s
          <6>2. written[i].from \in 1 .. consumed
            BY <4>2 DEF CopiedSoundly
          <6>3. written[i].from \in DOMAIN s
            BY <1>3, <6>1, <6>2
          <6>. QED  BY <1>3, <6>3, RecordFields
        <5>. QED  BY <1>2, <1>3, <5>1, RedirectFields, RedirectedType
      <4>5. written[i].from \in 1 .. consumed'
        BY <1>1, <1>3, <4>2 DEF CopiedSoundly
      <4>6. written[i] = RedirectReferences(s, s[written[i].from]) =>
              (s[written[i].from].warcinfoId = Absent => Association(Output', i) = Association(Output, i))
        BY <4>3, <4>4
      <4>. QED  BY <1>1, <4>1, <4>2, <4>5, <4>6 DEF CopiedSoundly, s
    <3>4. OrderKept'
      <4>. SUFFICES ASSUME NEW i \in DOMAIN written', NEW m \in Infos(written'), ~written'[i].info
                    PROVE  i < m <=> written'[i].from < Place(s, written'[m].from)
        BY <1>1 DEF OrderKept, s
      <4>1. i \in DOMAIN written /\ written'[i] = written[i] /\ i < l
        BY <1>5, <2>1
      <4>2. CASE m \in Infos(written)
        BY <2>1, <3>1, <4>1, <4>2 DEF OrderKept, s
      <4>3. CASE m = l
        <5>1. Place(s, written'[m].from) = n
          <6>1. Place(s, Kept(s, n)) = Place(s, n)
            BY <1>6, OnePlan
          <6>. QED  BY <1>5, <1>8, <2>1, <4>3, <6>1
        <5>2. written[i].from \in 1 .. consumed
          BY <3>1, <4>1 DEF CopiedSoundly
        <5>. QED  BY <1>3, <3>2, <4>1, <4>3, <5>1, <5>2
      <4>. QED  BY <2>1, <4>2, <4>3
    <3>. QED  BY <3>2, <3>3, <3>4
  <2>. QED  BY <2>7, <2>8
<1>9. ASSUME n # Place(s, n)
      PROVE  /\ WarcinfosFollowPlan'
             /\ inputs = planned =>
                  /\ n = consumed + 1
                  /\ \A i \in DOMAIN written' : ~written'[i].info => CopiedSoundly(i)'
                  /\ OrderKept'
  <2>1. UNCHANGED <<outputScope, written>>
    BY <1>1, <1>9
  <2>2. \A p \in Infos(s) : p = Place(s, p) /\ p <= taken' => p <= taken
    BY <1>1, <1>3, <1>4, <1>9
  <2>3. \A m \in Infos(written) : \E p \in Infos(s) :
          /\ p = Place(s, p) /\ p <= taken'
          /\ written[m] = RedirectReferences(s, s[Kept(s, p)])
    <3>. SUFFICES ASSUME NEW m \in Infos(written)
                  PROVE  \E p \in Infos(s) :
                           /\ p = Place(s, p) /\ p <= taken'
                           /\ written[m] = RedirectReferences(s, s[Kept(s, p)])
      OBVIOUS
    <3>1. PICK p \in Infos(s) : /\ p = Place(s, p) /\ p <= taken
                                /\ written[m] = RedirectReferences(s, s[Kept(s, p)])
      BY <1>0 DEF WarcinfosFollowPlan, s
    <3>2. p <= taken'
      BY <1>1, <1>3, <1>4, <3>1
    <3>. QED  BY <3>1, <3>2
  <2>4. WarcinfosFollowPlan'
    BY <1>0, <1>1, <1>2, <2>1, <2>2, <2>3 DEF WarcinfosFollowPlan, WarcinfoWrittenOnce, s
  <2>5. ASSUME inputs = planned
        PROVE  /\ n = consumed + 1
               /\ \A i \in DOMAIN written' : ~written'[i].info => CopiedSoundly(i)'
               /\ OrderKept'
    <3>1. PlanInStep /\ OrderKept /\ \A i \in DOMAIN written : ~written[i].info => CopiedSoundly(i)
      BY <2>5 DEF MergeInv
    <3>2. n = consumed + 1
      <4>1. consumed + 1 \in Infos(s) /\ taken <= consumed
        BY <1>1, <1>3, <2>5, <3>1 DEF NextRecord, PlanInStep, Infos, s
      <4>2. ~(n <= consumed)
        BY <1>3, <1>4, <3>1 DEF PlanInStep, s
      <4>. QED  BY <1>3, <1>4, <4>1, <4>2
    <3>3. ASSUME NEW i \in DOMAIN written', ~written'[i].info
          PROVE  CopiedSoundly(i)'
      <4>1. CopiedSoundly(i) /\ written' = written /\ Output' = Output
        BY <2>1, <3>1, <3>3 DEF Output
      <4>2. written[i].from \in 1 .. consumed'
        BY <1>1, <1>3, <4>1 DEF CopiedSoundly
      <4>. QED  BY <1>1, <4>1, <4>2 DEF CopiedSoundly
    <3>4. OrderKept'
      BY <1>1, <2>1, <3>1 DEF OrderKept
    <3>. QED  BY <3>2, <3>3, <3>4
  <2>. QED  BY <2>4, <2>5
<1>10. ASSUME inputs = planned, n = consumed + 1
       PROVE  PlanInStep' /\ ScopeFollowed'
  <2>1. PlanInStep
    BY <1>10 DEF MergeInv
  <2>2. PlanInStep'
    BY <1>1, <1>3, <1>10, <2>1 DEF PlanInStep, s
  <2>3. CASE consumed' = planned.first
    <3>1. \A j \in 1 .. consumed' : ~InScope(planned, j, consumed' + 1)
      BY <1>1, <1>3, <2>3, ScopeOfSecondFile
    <3>2. CurrentScope' = Unscoped
      BY <1>1, <2>3 DEF CurrentScope
    <3>. QED  BY <1>1, <2>2, <3>1, <3>2 DEF ScopeFollowed
  <2>4. CASE consumed' # planned.first
    <3>1. InScope(planned, n, n + 1)
      <4>1. n \in DOMAIN s /\ s[n].info /\ planned.first \in Nat
        BY <1>0, <1>4, PlannedFacts DEF Infos
      <4>. QED  BY <1>1, <1>3, <1>10, <2>4, <4>1, ScopeBegins DEF s
    <3>2. CurrentScope' = Scope(s, n)
      BY <1>1, <2>4 DEF CurrentScope
    <3>3. n \in 1 .. consumed' /\ n = consumed'
      BY <1>1, <1>3, <1>10
    <3>. QED  BY <1>1, <2>2, <3>1, <3>2, <3>3 DEF ScopeFollowed, s
  <2>. QED  BY <2>3, <2>4
<1>11. /\ stage' = "plan" => consumed' = 0
       /\ stage' = "done" => consumed' = Len(inputs'.records)
  BY <1>1
<1>12. WarcinfosFollowPlan'
  BY <1>8, <1>9
<1>13. inputs' = planned' =>
         /\ n = consumed + 1
         /\ \A i \in DOMAIN written' : ~written'[i].info => CopiedSoundly(i)'
         /\ OrderKept'
  BY <1>1, <1>8, <1>9
<1>. QED  BY <1>1, <1>7, <1>10, <1>11, <1>12, <1>13 DEF MergeInv

LEMMA CopyStep ==
    ASSUME MergeInv, Copy
    PROVE  MergeInv'
<1>. DEFINE s == planned.records
            l == Len(written) + 1
            n == consumed + 1
            record == IF Rescoped
                      THEN [NextRecord EXCEPT !.warcinfoId = CurrentScope.id]
                      ELSE NextRecord
            q == RedirectReferences(s, record)
<1>0. MergeTypeOK /\ WarcinfosFollowPlan
  BY DEF MergeInv
<1>1. /\ stage = "write" /\ consumed < Len(inputs.records) /\ ~NextRecord.info
      /\ Rescoped => CurrentScope.place # 0 /\ CurrentScope.id # Absent
      /\ written' = Append(written, q) /\ inputScope' = CurrentScope /\ consumed' = n
      /\ UNCHANGED <<stage, planned, inputs, taken, outputScope>>
  BY DEF Copy, Reading
<1>2. ~Unredirectable(s)
  BY <1>0, <1>1 DEF WarcinfosFollowPlan
<1>3. /\ s \in Seq(MergeRecords) /\ written \in Seq(MergeRecords) /\ taken \in Nat /\ consumed \in Nat
      /\ inputs.records \in Seq(MergeRecords) /\ n \in DOMAIN inputs.records
      /\ planned.first \in Nat
      /\ \A m \in DOMAIN s : s[m].from = m
      /\ Infos(s) \subseteq DOMAIN s /\ DOMAIN s \subseteq Nat
      /\ \A m \in Infos(s) : m >= 1
  BY <1>0, <1>1, PlannedFacts DEF Infos
<1>4. CurrentScope \in [place : Nat, id : RecordIds \cup {Absent}]
  BY <1>0 DEF MergeTypeOK, CurrentScope, Unscoped
<1>5. NextRecord \in MergeRecords /\ NextRecord = inputs.records[n]
  BY <1>3, RecordFields DEF NextRecord
<1>6. record \in MergeRecords /\ ~record.info /\ record.from = NextRecord.from
  BY <1>1, <1>4, <1>5 DEF MergeRecords
<1>7. /\ q \in MergeRecords /\ ~q.info /\ q.from = NextRecord.from
      /\ q.warcinfoId = RedirectedId(s, record.warcinfoId)
  <2>. HIDE DEF record
  <2>. QED  BY <1>2, <1>3, <1>6, RedirectFields
<1>. HIDE DEF q, s, l, record
<1>8. /\ DOMAIN written' = DOMAIN written \cup {l}
      /\ \A i \in DOMAIN written : written'[i] = written[i]
      /\ written'[l] = q
      /\ Len(written') = l /\ l \in Nat
      /\ \A i \in DOMAIN written : i \in Nat /\ 1 <= i /\ i < l
      /\ Infos(written') = Infos(written)
      /\ Infos(written) \subseteq DOMAIN written
  BY <1>1, <1>3, <1>7, Appended DEF Infos, l
<1>9. MergeTypeOK'
  <2>1. written' \in Seq(MergeRecords)
    BY <1>1, <1>3, <1>7
  <2>2. consumed' \in 0 .. Len(inputs'.records)
    BY <1>1, <1>3
  <2>. QED  BY <1>0, <1>1, <1>4, <2>1, <2>2 DEF MergeTypeOK
<1>10. WarcinfosFollowPlan'
  <2>1. \A m \in Infos(written) : written'[m] = written[m]
    BY <1>8
  <2>2. \A m \in Infos(written') : \E p \in Infos(s) :
          /\ p = Place(s, p) /\ p <= taken
          /\ written'[m] = RedirectReferences(s, s[Kept(s, p)])
    <3>1. \A m \in Infos(written) : \E p \in Infos(s) :
            /\ p = Place(s, p) /\ p <= taken
            /\ written[m] = RedirectReferences(s, s[Kept(s, p)])
      BY <1>0 DEF WarcinfosFollowPlan, s
    <3>. QED  BY <1>8, <2>1, <3>1
  <2>3. \A p \in Infos(s) : p = Place(s, p) /\ p <= taken =>
          \E m \in Infos(written') : written'[m].key = s[p].key
    BY <1>0, <1>8, <2>1 DEF WarcinfosFollowPlan, s
  <2>4. WarcinfoWrittenOnce'
    BY <1>0, <1>8, <2>1 DEF WarcinfosFollowPlan, WarcinfoWrittenOnce
  <2>5. CASE outputScope = 0 /\ Infos(written) = {}
    BY <1>1, <1>2, <1>8, <2>2, <2>3, <2>4, <2>5 DEF WarcinfosFollowPlan, s
  <2>6. CASE ~(outputScope = 0 /\ Infos(written) = {})
    <3>1. PICK m \in Infos(written) : /\ written[m].key = s[outputScope].key
                                      /\ \A k \in m + 1 .. Len(written) : ~written[k].info
      BY <1>0, <2>6 DEF WarcinfosFollowPlan, s
    <3>2. \A k \in m + 1 .. Len(written') : ~written'[k].info
      <4>. SUFFICES ASSUME NEW k \in m + 1 .. l PROVE ~written'[k].info
        BY <1>8
      <4>1. CASE k = l
        BY <1>7, <1>8, <4>1
      <4>2. CASE k # l
        <5>1. k \in m + 1 .. Len(written) /\ k \in DOMAIN written
          BY <1>3, <1>8, <4>2 DEF l
        <5>. QED  BY <1>8, <3>1, <5>1
      <4>. QED  BY <4>1, <4>2
    <3>3. /\ outputScope \in Infos(s) /\ outputScope = Place(s, outputScope)
      BY <1>0, <2>6 DEF WarcinfosFollowPlan, s
    <3>4. \E m1 \in Infos(written') : /\ written'[m1].key = s[outputScope].key
                                      /\ \A k \in m1 + 1 .. Len(written') : ~written'[k].info
      BY <1>8, <2>1, <3>1, <3>2
    <3>. QED  BY <1>1, <1>2, <2>2, <2>3, <2>4, <3>3, <3>4 DEF WarcinfosFollowPlan, s
  <2>. QED  BY <2>5, <2>6
<1>11. ASSUME inputs = planned
       PROVE  PlanInStep' /\ ScopeFollowed' /\ OrderKept'
              /\ \A i \in DOMAIN written' : ~written'[i].info => CopiedSoundly(i)'
  <2>1. /\ PlanInStep /\ ScopeFollowed /\ OrderKept
        /\ \A i \in DOMAIN written : ~written[i].info => CopiedSoundly(i)
    BY <1>11 DEF MergeInv
  <2>2. /\ NextRecord = s[n] /\ n \in DOMAIN s /\ ~s[n].info /\ s[n].from = n
        /\ n \in Nat /\ n <= Len(s)
    BY <1>1, <1>3, <1>5, <1>11 DEF s
  <2>3. PlanInStep'
    <3>1. \A m \in Infos(s) : m <= n => m <= consumed
      BY <1>3, <2>2 DEF Infos
    <3>. QED  BY <1>1, <1>3, <2>1, <3>1 DEF PlanInStep, s
  <2>4. ScopeFollowed'
    <3>1. CASE n = planned.first
      <4>1. \A j \in 1 .. consumed' : ~InScope(planned, j, consumed' + 1)
        BY <1>1, <2>2, <3>1, ScopeOfSecondFile
      <4>2. CurrentScope' = Unscoped
        BY <1>1, <3>1 DEF CurrentScope
      <4>. QED  BY <1>1, <4>1, <4>2 DEF ScopeFollowed
    <3>2. CASE n # planned.first
      <4>1. CurrentScope' = CurrentScope
        BY <1>1, <3>2 DEF CurrentScope
      <4>2. \A j \in Nat : InScope(planned, j, n + 1) <=> InScope(planned, j, n)
        BY <1>3, <2>2, <3>2, ScopePassesOver DEF s
      <4>3. CASE CurrentScope = Unscoped /\ \A j \in 1 .. consumed : ~InScope(planned, j, consumed + 1)
        <5>1. \A j \in 1 .. n : ~InScope(planned, j, n + 1)
          BY <1>3, <4>2, <4>3 DEF InScope
        <5>. QED  BY <1>1, <4>1, <4>3, <5>1 DEF ScopeFollowed
      <4>4. CASE \E j \in 1 .. consumed : /\ InScope(planned, j, consumed + 1)
                                          /\ CurrentScope = Scope(planned.records, j)
        <5>1. PICK j \in 1 .. consumed : InScope(planned, j, n) /\ CurrentScope = Scope(s, j)
          BY <4>4 DEF s
        <5>2. j \in 1 .. consumed' /\ InScope(planned, j, consumed' + 1)
          BY <1>1, <1>3, <4>2, <5>1
        <5>. QED  BY <1>1, <4>1, <5>1, <5>2 DEF ScopeFollowed, s
      <4>. QED  BY <2>1, <4>3, <4>4 DEF ScopeFollowed
    <3>. QED  BY <3>1, <3>2
  <2>5. OrderKept'
    <3>. SUFFICES ASSUME NEW i \in DOMAIN written', NEW m \in Infos(written'), ~written'[i].info
                  PROVE  i < m <=> written'[i].from < Place(s, written'[m].from)
      BY <1>1 DEF OrderKept, s
    <3>1. m \in Infos(written) /\ written'[m] = written[m] /\ m < l /\ m \in Nat
      BY <1>8
    <3>2. CASE i \in DOMAIN written
      BY <1>8, <2>1, <3>1, <3>2 DEF OrderKept, s
    <3>3. CASE i = l
      <4>1. written'[i].from = n
        BY <1>7, <1>8, <2>2, <3>3
      <4>2. PICK p \in Infos(s) : /\ p = Place(s, p) /\ p <= taken
                                  /\ written[m] = RedirectReferences(s, s[Kept(s, p)])
        BY <1>0, <3>1 DEF WarcinfosFollowPlan, s
      <4>3. written[m].from = Kept(s, p)
        BY <1>0, <1>2, <4>2, WrittenWarcinfo DEF s
      <4>4. Place(s, Kept(s, p)) = p
        <5>1. s[Kept(s, p)].key = s[p].key
          BY <1>3, PlanMatches
        <5>. QED  BY <4>2, <5>1, OnePlan
      <4>5. p < n
        BY <1>3, <2>1, <4>2 DEF PlanInStep
      <4>. QED  BY <1>3, <1>8, <3>1, <3>3, <4>1, <4>3, <4>4, <4>5
    <3>. QED  BY <1>8, <3>2, <3>3
  <2>6. ASSUME NEW i \in DOMAIN written, ~written[i].info
        PROVE  CopiedSoundly(i)'
    <3>1. CopiedSoundly(i) /\ written'[i] = written[i] /\ written[i].from \in 1 .. consumed
      BY <1>8, <2>1, <2>6 DEF CopiedSoundly
    <3>2. written[i].warcinfoId = Absent => Association(Output', i) = Association(Output, i)
      <4>1. Output' = [records |-> Append(written, q), first |-> 0]
        BY <1>1 DEF Output
      <4>2. Output = [records |-> written, first |-> 0]
        BY DEF Output
      <4>. QED  BY <1>3, <1>7, <4>1, <4>2, AssociationOfPrefix
    <3>3. written[i] = RedirectReferences(s, s[written[i].from]) /\ s[written[i].from].warcinfoId = Absent
            => written[i].warcinfoId = Absent
      <4>. SUFFICES ASSUME written[i] = RedirectReferences(s, s[written[i].from]),
                           s[written[i].from].warcinfoId = Absent
                    PROVE  written[i].warcinfoId = Absent
        OBVIOUS
      <4>1. written[i].from \in DOMAIN s
        BY <1>3, <2>2, <3>1
      <4>2. s[written[i].from] \in MergeRecords
        BY <1>3, <4>1, RecordFields
      <4>. QED  BY <1>2, <1>3, <4>2, RedirectFields, RedirectedType
    <3>4. written[i].from \in 1 .. consumed'
      BY <1>1, <1>3, <3>1
    <3>. QED  BY <1>1, <3>1, <3>2, <3>3, <3>4 DEF CopiedSoundly, s
  <2>7. ASSUME NEW i \in DOMAIN written', i = l
        PROVE  CopiedSoundly(i)'
    <3>1. written'[l].from = n /\ n \in 1 .. consumed'
      BY <1>1, <1>3, <1>7, <1>8, <2>2
    <3>2. CASE Rescoped
      <4>1. s[n].warcinfoId = Absent /\ CurrentScope.place # 0 /\ CurrentScope.id # Absent
        BY <1>1, <2>2, <3>2 DEF Rescoped
      <4>2. PICK j \in 1 .. consumed : InScope(planned, j, n) /\ CurrentScope = Scope(s, j)
        BY <2>1, <4>1 DEF ScopeFollowed, Unscoped, s
      <4>3. CurrentScope.id = KeptId(s, j)
        BY <4>2 DEF Scope
      <4>4. j \in Infos(s)
        BY <1>3, <2>2, <4>2 DEF InScope, Infos, s
      <4>5. written'[l] = RedirectReferences(s, [s[n] EXCEPT !.warcinfoId = KeptId(s, j)])
        BY <1>8, <2>2, <3>2, <4>3 DEF q, record
      <4>. QED  BY <1>1, <2>2, <2>7, <3>1, <4>1, <4>2, <4>3, <4>4, <4>5 DEF CopiedSoundly, s
    <3>3. CASE ~Rescoped
      <4>1. written'[l] = RedirectReferences(s, s[n])
        BY <1>8, <2>2, <3>3 DEF q, record
      <4>2. ASSUME s[n].warcinfoId = Absent
            PROVE  Association(Output', l) = Association(planned, n)
        <5>1. CurrentScope.place = outputScope
          BY <2>2, <3>3, <4>2 DEF Rescoped
        <5>2. /\ Output'.records = written' /\ written' \in Seq(MergeRecords) /\ l \in DOMAIN written'
              /\ written'[l].warcinfoId = Absent /\ Output'.first = 0
          <6>1. record.warcinfoId = Absent
            BY <2>2, <3>3, <4>2 DEF record
          <6>. QED  BY <1>1, <1>2, <1>3, <1>7, <1>8, <6>1, RedirectedType DEF Output
        <5>3. CASE CurrentScope = Unscoped /\ \A j \in 1 .. consumed : ~InScope(planned, j, consumed + 1)
          <6>1. outputScope = 0 /\ Infos(written) = {}
            BY <1>0, <1>3, <5>1, <5>3 DEF WarcinfosFollowPlan, Unscoped, s
          <6>2. \A j \in 1 .. l - 1 : ~InScope(Output', j, l)
            <7>1. \A j \in 1 .. l - 1 : j \in DOMAIN written' /\ j \notin Infos(written')
              BY <1>3, <1>8, <6>1 DEF l
            <7>. QED  BY <5>2, <7>1 DEF InScope, Infos
          <6>3. Association(Output', l) = {}
            BY <5>2, <6>2, AssociationOfUnscoped
          <6>4. Association(planned, n) = {}
            BY <1>3, <2>2, <4>2, <5>3, AssociationOfUnscoped DEF s
          <6>. QED  BY <6>3, <6>4
        <5>4. CASE \E j \in 1 .. consumed : /\ InScope(planned, j, consumed + 1)
                                            /\ CurrentScope = Scope(planned.records, j)
          <6>1. PICK j \in 1 .. consumed : InScope(planned, j, n) /\ CurrentScope = Scope(s, j)
            BY <5>4 DEF s
          <6>2. j \in Infos(s)
            BY <1>3, <2>2, <6>1 DEF InScope, Infos, s
          <6>3. outputScope = Place(s, j) /\ Place(s, j) \in Infos(s)
                /\ s[Place(s, j)].key = s[j].key
            BY <1>3, <5>1, <6>1, <6>2, PlanMatches DEF Scope
          <6>4. PICK m \in Infos(written) : /\ written[m].key = s[j].key
                                            /\ \A k \in m + 1 .. Len(written) : ~written[k].info
            BY <1>0, <1>3, <6>3 DEF WarcinfosFollowPlan, s
          <6>5. InScope(Output', m, l)
            <7>1. m \in 1 .. l - 1 /\ written'[m].info /\ m > 0
              BY <1>3, <1>8 DEF Infos
            <7>2. \A k \in m + 1 .. l - 1 : ~written'[k].info
              <8>1. \A k \in m + 1 .. l - 1 : k \in m + 1 .. Len(written) /\ k \in DOMAIN written
                BY <1>3, <1>8 DEF l
              <8>. QED  BY <1>8, <6>4, <8>1
            <7>. QED  BY <5>2, <7>1, <7>2 DEF InScope
          <6>6. Association(Output', l) = {written'[m].key}
            <7>1. m \in Nat
              BY <1>8
            <7>. QED  BY <5>2, <6>5, <7>1, AssociationOfScoped
          <6>7. Association(planned, n) = {s[j].key}
            BY <1>3, <2>2, <4>2, <6>1, AssociationOfScoped DEF s
          <6>8. written'[m] = written[m]
            BY <1>8
          <6>. QED  BY <6>4, <6>6, <6>7, <6>8
        <5>. QED  BY <2>1, <5>3, <5>4 DEF ScopeFollowed
      <4>. QED  BY <1>1, <2>2, <2>7, <3>1, <4>1, <4>2 DEF CopiedSoundly, s
    <3>. QED  BY <3>2, <3>3
  <2>8. \A i \in DOMAIN written' : ~written'[i].info => CopiedSoundly(i)'
    BY <1>8, <2>6, <2>7
  <2>. QED  BY <2>3, <2>4, <2>5, <2>8
<1>12. /\ stage' = "plan" => consumed' = 0
       /\ stage' = "done" => consumed' = Len(inputs'.records)
  BY <1>1
<1>. QED  BY <1>1, <1>9, <1>10, <1>11, <1>12 DEF MergeInv

\* The invariant holds throughout.
THEOREM MergeInvariant == MergeSpec => []MergeInv
<1>1. ASSUME MergeInv, [MergeNext]_mergeVars
      PROVE  MergeInv'
  <2>1. CASE Build \/ Replace \/ Refuse \/ FailMerge \/ FinishMerge
    BY <1>1, <2>1, OtherSteps
  <2>2. CASE MergeWarcinfo
    BY <1>1, <2>2, MergeWarcinfoStep
  <2>3. CASE Copy
    BY <1>1, <2>3, CopyStep
  <2>4. CASE UNCHANGED mergeVars
    BY <1>1, <2>4 DEF mergeVars, MergeInv, MergeTypeOK, WarcinfosFollowPlan, WarcinfoWrittenOnce,
       PlanInStep, ScopeFollowed, CurrentScope, CopiedSoundly, Output, OrderKept
  <2>. QED  BY <1>1, <2>1, <2>2, <2>3, <2>4 DEF MergeNext
<1>. QED  BY <1>1, InitInvariant, PTL DEF MergeSpec

\* Whatever happens to the inputs, no merged warcinfo record is written twice.
THEOREM MergeWritesOnce == MergeSpec => []WarcinfoWrittenOnce
<1>1. MergeInv => WarcinfoWrittenOnce
  BY DEF MergeInv, WarcinfosFollowPlan
<1>. QED  BY <1>1, MergeInvariant, PTL

-----------------------------------------------------------------------------
(* What holds of a merge that ends.                                        *)

LEMMA MergedFacts ==
    ASSUME MergeInv, Merged
    PROVE  /\ MergeTypeOK
           /\ ~Unredirectable(planned.records)
           /\ \A n \in Infos(planned.records) : n <= taken
           /\ OrderKept
           /\ \A i \in DOMAIN written : ~written[i].info => CopiedSoundly(i)
           /\ consumed <= Len(planned.records)
<1>1. MergeTypeOK /\ WarcinfosFollowPlan /\ PlanInStep /\ consumed = Len(inputs.records)
  BY DEF MergeInv, Merged
<1>2. \A n \in Infos(planned.records) : n <= consumed
  BY <1>1, PlannedFacts DEF Merged, Infos
<1>3. \A n \in Infos(planned.records) : n <= taken
  BY <1>1, <1>2 DEF PlanInStep
<1>4. consumed <= Len(planned.records)
  BY <1>1, PlannedFacts DEF Merged
<1>. QED  BY <1>1, <1>3, <1>4 DEF MergeInv, Merged, WarcinfosFollowPlan

\* Every group's record is there, made of the one kept.
LEMMA GroupWritten ==
    ASSUME MergeInv, Merged, NEW j \in Infos(planned.records)
    PROVE  LET s == planned.records
           IN  \E m \in Infos(written) :
                  /\ written[m] = RedirectReferences(s, s[Kept(s, j)])
                  /\ written[m].key = s[j].key
                  /\ written[m].id = KeptId(s, j)
                  /\ written[m].from = Kept(s, j)
                  /\ written[m].date = s[Kept(s, j)].date
<1>. DEFINE s == planned.records
            p == Place(s, j)
<1>1. /\ MergeTypeOK /\ ~Unredirectable(s) /\ s \in Seq(MergeRecords) /\ WarcinfosFollowPlan
      /\ \A n \in Infos(s) : n <= taken
  BY MergedFacts, PlannedFacts DEF MergeInv
<1>2. p \in Infos(s) /\ s[p].key = s[j].key /\ Place(s, p) = p
  BY <1>1, PlanMatches
<1>3. PICK m \in Infos(written) : written[m].key = s[p].key
  BY <1>1, <1>2 DEF WarcinfosFollowPlan
<1>4. PICK k \in Infos(s) : written[m] = RedirectReferences(s, s[Kept(s, k)])
  BY <1>1 DEF WarcinfosFollowPlan
<1>5. /\ written[m].key = s[k].key /\ written[m].from = Kept(s, k) /\ written[m].id = KeptId(s, k)
      /\ written[m].date = s[Kept(s, k)].date
  BY <1>1, <1>4, WrittenWarcinfo
<1>6. Kept(s, k) = Kept(s, j) /\ KeptId(s, k) = KeptId(s, j)
  <2>1. s[k].key = s[j].key
    BY <1>2, <1>3, <1>5
  <2>. QED  BY <2>1, OnePlan
<1>. QED  BY <1>2, <1>3, <1>4, <1>5, <1>6

\* Redirected references say what the references said.
LEMMA ReferencesKeepMeaning ==
    ASSUME MergeInv, Merged, NEW ids \in SUBSET RecordIds
    PROVE  LET s == planned.records
           IN  InfoOf(written, {RedirectedId(s, id) : id \in ids}) = InfoOf(s, ids)
<1>. DEFINE s == planned.records
            new == {RedirectedId(s, id) : id \in ids}
<1>1. /\ MergeTypeOK /\ ~Unredirectable(s) /\ s \in Seq(MergeRecords) /\ Consistent(s)
      /\ WarcinfosFollowPlan
  BY MergedFacts, PlannedFacts DEF MergeInv
<1>. HIDE DEF s
<1>2. ASSUME NEW j \in Infos(s), s[j].id # Absent, s[j].id \in ids
      PROVE  \E m \in Infos(written) : written[m].id # Absent /\ written[m].id \in new /\ written[m].key = s[j].key
  <2>1. RedirectedId(s, s[j].id) = KeptId(s, j) /\ KeptId(s, j) # Absent
    BY <1>1, <1>2, RedirectedToKept
  <2>2. PICK m \in Infos(written) : written[m].key = s[j].key /\ written[m].id = KeptId(s, j)
    BY GroupWritten DEF s
  <2>. QED  BY <1>2, <2>1, <2>2
<1>3. ASSUME NEW m \in Infos(written), written[m].id # Absent, written[m].id \in new
      PROVE  \E j \in Infos(s) : s[j].id # Absent /\ s[j].id \in ids /\ s[j].key = written[m].key
  <2>1. PICK id \in ids : written[m].id = RedirectedId(s, id)
    BY <1>3
  <2>2. PICK p \in Infos(s) : written[m] = RedirectReferences(s, s[Kept(s, p)])
    BY <1>1 DEF WarcinfosFollowPlan, s
  <2>3. written[m].key = s[p].key /\ written[m].id = KeptId(s, p)
    BY <1>1, <2>2, WrittenWarcinfo DEF s
  <2>4. Kept(s, p) \in Infos(s) /\ s[Kept(s, p)].key = s[p].key /\ s[Kept(s, p)].id = written[m].id
    BY <1>1, <2>3, PlanMatches DEF KeptId
  <2>5. PICK j \in Infos(s) : s[j].id = id
    <3>. SUFFICES ASSUME \A j \in Infos(s) : s[j].id # id PROVE FALSE
      OBVIOUS
    <3>. QED  BY <2>1, <2>4, RedirectedOther
  <2>6. id # Absent
    BY AbsentAssumption
  <2>7. KeptId(s, j) = written[m].id
    BY <1>1, <2>1, <2>5, <2>6, RedirectedToKept
  <2>8. Kept(s, j) \in Infos(s) /\ s[Kept(s, j)].key = s[j].key /\ s[Kept(s, j)].id = written[m].id
    BY <1>1, <2>7, PlanMatches DEF KeptId
  <2>9. s[Kept(s, j)].key = s[Kept(s, p)].key
    BY <1>1, <1>3, <2>4, <2>8 DEF Consistent
  <2>. QED  BY <2>3, <2>4, <2>5, <2>6, <2>8, <2>9
<1>4. \A k : k \in InfoOf(written, new) <=> k \in InfoOf(s, ids)
  <2>. HIDE DEF new
  <2>. QED  BY <1>2, <1>3 DEF InfoOf
<1>5. InfoOf(written, new) = InfoOf(s, ids)
  <2>. HIDE DEF new
  <2>. QED  BY <1>4
<1>. QED  BY <1>5 DEF s

LEMMA ReferenceKeepsMeaning ==
    ASSUME MergeInv, Merged, NEW id \in RecordIds
    PROVE  LET s == planned.records
           IN  InfoOf(written, {RedirectedId(s, id)}) = InfoOf(s, {id})
<1>1. {RedirectedId(planned.records, i) : i \in {id}} = {RedirectedId(planned.records, id)}
  OBVIOUS
<1>2. {id} \in SUBSET RecordIds
  OBVIOUS
<1>3. InfoOf(written, {RedirectedId(planned.records, i) : i \in {id}}) = InfoOf(planned.records, {id})
  BY <1>2, ReferencesKeepMeaning
<1>. QED  BY <1>1, <1>3

\* Every record that is copied belongs to the warcinfo record it belonged to.
THEOREM MergePreservesAssociations == MergeSpec => []AssociationsPreserved
<1>1. ASSUME MergeInv
      PROVE  AssociationsPreserved
  <2>. DEFINE s == planned.records
  <2>. SUFFICES ASSUME Merged, NEW i \in DOMAIN written, ~written[i].info
                PROVE  Association(Output, i) = Association(planned, written[i].from)
    BY DEF AssociationsPreserved
  <2>. DEFINE n == written[i].from
  <2>1. /\ MergeTypeOK /\ ~Unredirectable(s) /\ s \in Seq(MergeRecords) /\ Consistent(s)
        /\ CopiedSoundly(i) /\ consumed <= Len(s) /\ consumed \in Nat
    BY <1>1, MergedFacts, PlannedFacts
  <2>2. n \in 1 .. consumed /\ n \in DOMAIN s /\ s[n] \in MergeRecords
    BY <2>1, RecordFields DEF CopiedSoundly
  <2>3. Output.records = written
    BY DEF Output
  <2>4. CASE /\ written[i] = RedirectReferences(s, s[n]) /\ s[n].warcinfoId = Absent
             /\ s[n].warcinfoId = Absent => Association(Output, i) = Association(planned, n)
    BY <2>4
  <2>5. CASE written[i] = RedirectReferences(s, s[n]) /\ s[n].warcinfoId # Absent
    <3>1. s[n].warcinfoId \in RecordIds
      BY <2>2, <2>5 DEF MergeRecords
    <3>2. written[i].warcinfoId = RedirectedId(s, s[n].warcinfoId)
      BY <2>1, <2>2, <2>5, RedirectFields
    <3>3. written[i].warcinfoId # Absent
      BY <2>1, <3>1, <3>2, RedirectedType, AbsentAssumption
    <3>4. Association(Output, i) = InfoOf(written, {RedirectedId(s, s[n].warcinfoId)})
      BY <2>3, <3>2, <3>3 DEF Association
    <3>5. Association(planned, n) = InfoOf(s, {s[n].warcinfoId})
      BY <2>5 DEF Association
    <3>. QED  BY <1>1, <3>1, <3>4, <3>5, ReferenceKeepsMeaning
  <2>6. ASSUME NEW j \in Infos(s), s[n].warcinfoId = Absent, InScope(planned, j, n),
               KeptId(s, j) # Absent,
               written[i] = RedirectReferences(s, [s[n] EXCEPT !.warcinfoId = KeptId(s, j)])
        PROVE  Association(Output, i) = Association(planned, n)
    <3>1. /\ Kept(s, j) \in Infos(s) /\ s[Kept(s, j)].key = s[j].key
          /\ s[Kept(s, j)].id = KeptId(s, j)
      BY <2>1, PlanMatches DEF KeptId
    <3>2. KeptId(s, j) \in RecordIds
      BY <2>1, <2>6, <3>1, RecordFields DEF Infos
    <3>3. [s[n] EXCEPT !.warcinfoId = KeptId(s, j)] \in MergeRecords
          /\ [s[n] EXCEPT !.warcinfoId = KeptId(s, j)].warcinfoId = KeptId(s, j)
      BY <2>2, <3>2 DEF MergeRecords
    <3>4. written[i].warcinfoId = RedirectedId(s, KeptId(s, j))
      BY <2>1, <2>6, <3>3, RedirectFields
    <3>5. written[i].warcinfoId # Absent
      BY <2>1, <3>2, <3>4, RedirectedType, AbsentAssumption
    <3>6. Association(Output, i) = InfoOf(written, {RedirectedId(s, KeptId(s, j))})
      BY <2>3, <3>4, <3>5 DEF Association
    <3>7. InfoOf(s, {KeptId(s, j)}) = {s[j].key}
      <4>1. \A k \in Infos(s) : s[k].id = KeptId(s, j) => s[k].key = s[j].key
        BY <2>1, <2>6, <3>1 DEF Consistent
      <4>. QED  BY <2>6, <3>1, <4>1 DEF InfoOf
    <3>8. Association(planned, n) = {s[j].key}
      BY <2>1, <2>2, <2>6, AssociationOfScoped DEF Infos
    <3>. QED  BY <1>1, <3>2, <3>6, <3>7, <3>8, ReferenceKeepsMeaning
  <2>. QED  BY <2>1, <2>4, <2>5, <2>6 DEF CopiedSoundly
<1>. QED  BY <1>1, MergeInvariant, PTL

\* Every reference to a warcinfo record says what it said.
THEOREM MergePreservesReferences == MergeSpec => []ReferencesPreserved
<1>1. ASSUME MergeInv
      PROVE  ReferencesPreserved
  <2>. DEFINE s == planned.records
  <2>. SUFFICES ASSUME Merged, NEW i \in DOMAIN written
                PROVE  InfoOf(written, written[i].refs) = InfoOf(s, s[written[i].from].refs)
    BY DEF ReferencesPreserved
  <2>1. /\ MergeTypeOK /\ ~Unredirectable(s) /\ s \in Seq(MergeRecords) /\ WarcinfosFollowPlan
        /\ written[i].info \/ CopiedSoundly(i)
        /\ consumed <= Len(s) /\ consumed \in Nat
    BY <1>1, MergedFacts, PlannedFacts DEF MergeInv
  <2>2. ASSUME NEW n \in DOMAIN s, written[i].refs = {RedirectedId(s, id) : id \in s[n].refs}
        PROVE  InfoOf(written, written[i].refs) = InfoOf(s, s[n].refs)
    BY <1>1, <2>1, <2>2, RecordFields, ReferencesKeepMeaning
  <2>3. /\ written[i].from \in DOMAIN s
        /\ written[i].refs = {RedirectedId(s, id) : id \in s[written[i].from].refs}
    <3>1. CASE written[i].info
      <4>1. PICK p \in Infos(s) : written[i] = RedirectReferences(s, s[Kept(s, p)])
        BY <2>1, <3>1 DEF WarcinfosFollowPlan, Infos
      <4>2. written[i].from = Kept(s, p) /\ written[i].refs = {RedirectedId(s, id) : id \in s[Kept(s, p)].refs}
        BY <2>1, <4>1, WrittenWarcinfo
      <4>3. Kept(s, p) \in DOMAIN s
        BY <2>1, PlanMatches DEF Infos
      <4>. QED  BY <4>2, <4>3
    <3>2. CASE ~written[i].info
      <4>. DEFINE n == written[i].from
      <4>1. CopiedSoundly(i) /\ n \in DOMAIN s /\ s[n] \in MergeRecords
        <5>1. CopiedSoundly(i) /\ n \in 1 .. consumed
          BY <2>1, <3>2 DEF CopiedSoundly
        <5>2. n \in DOMAIN s
          BY <2>1, <5>1
        <5>. QED  BY <2>1, <5>1, <5>2
      <4>2. \E r \in MergeRecords : r.refs = s[n].refs /\ written[i] = RedirectReferences(s, r)
        <5>1. ASSUME NEW j \in Infos(s), written[i] = RedirectReferences(s, [s[n] EXCEPT !.warcinfoId = KeptId(s, j)])
              PROVE  \E r \in MergeRecords : r.refs = s[n].refs /\ written[i] = RedirectReferences(s, r)
          <6>1. KeptId(s, j) \in RecordIds \cup {Absent}
            BY <2>1, PlanMatches, RecordFields DEF KeptId, Infos
          <6>2. /\ [s[n] EXCEPT !.warcinfoId = KeptId(s, j)] \in MergeRecords
                /\ [s[n] EXCEPT !.warcinfoId = KeptId(s, j)].refs = s[n].refs
            BY <4>1, <6>1 DEF MergeRecords
          <6>. QED  BY <5>1, <6>2
        <5>. QED  BY <4>1, <5>1 DEF CopiedSoundly
      <4>3. PICK r \in MergeRecords : r.refs = s[n].refs /\ written[i] = RedirectReferences(s, r)
        BY <4>2
      <4>. QED  BY <2>1, <4>1, <4>3, RedirectFields
    <3>. QED  BY <3>1, <3>2
  <2>. QED  BY <2>2, <2>3
<1>. QED  BY <1>1, MergeInvariant, PTL

\* Of every group the earliest is kept, in the place of the first, and no other.
THEOREM MergeKeepsEarliest == MergeSpec => []KeepsEarliest
<1>1. ASSUME MergeInv
      PROVE  KeepsEarliest
  <2>. DEFINE s == planned.records
  <2>. SUFFICES ASSUME Merged, NEW n \in Infos(s)
                PROVE  \E m \in Infos(written) :
                         /\ {k \in Infos(written) : written[k].key = s[n].key} = {m}
                         /\ s[n].date # Absent =>
                               /\ written[m].date # Absent
                               /\ written[m].date <= s[n].date
                         /\ \A i \in DOMAIN written : ~written[i].info =>
                               (i < m <=> \A k \in Group(s, n) : written[i].from < k)
    BY DEF KeepsEarliest
  <2>1. /\ MergeTypeOK /\ s \in Seq(MergeRecords) /\ OrderKept /\ WarcinfoWrittenOnce
        /\ written \in Seq(MergeRecords)
    BY <1>1, MergedFacts, PlannedFacts DEF MergeInv, WarcinfosFollowPlan
  <2>2. PICK m \in Infos(written) : /\ written[m].key = s[n].key
                                    /\ written[m].from = Kept(s, n)
                                    /\ written[m].date = s[Kept(s, n)].date
    BY <1>1, GroupWritten
  <2>3. {k \in Infos(written) : written[k].key = s[n].key} = {m}
    BY <2>1, <2>2 DEF WarcinfoWrittenOnce
  <2>4. /\ n \in Group(s, n) /\ s[Kept(s, n)].key = s[n].key
        /\ Place(s, Kept(s, n)) = Place(s, n)
    <3>1. n \in Group(s, n) /\ s[Kept(s, n)].key = s[n].key
      BY <2>1, PlanMatches
    <3>. QED  BY <3>1, OnePlan
  <2>5. s[n].date # Absent => written[m].date # Absent /\ written[m].date <= s[n].date
    BY <2>1, <2>2, <2>4, PlanOfGroup
  <2>6. ASSUME NEW i \in DOMAIN written, ~written[i].info
        PROVE  i < m <=> \A k \in Group(s, n) : written[i].from < k
    <3>1. i < m <=> written[i].from < Place(s, n)
      BY <2>1, <2>2, <2>4, <2>6 DEF OrderKept
    <3>2. Place(s, n) \in Group(s, n) /\ \A k \in Group(s, n) : Place(s, n) <= k
      BY <2>1, PlanOfGroup
    <3>3. Group(s, n) \subseteq Nat /\ written[i].from \in Nat
      BY <2>1, RecordFields DEF Group, Infos
    <3>. QED  BY <3>1, <3>2, <3>3
  <2>. QED  BY <2>3, <2>5, <2>6
<1>. QED  BY <1>1, MergeInvariant, PTL

\* EarliestWrittenOnce: both of what the merge says of matching warcinfo records
\* (merge.rs, MergePlan).
THEOREM MergeWritesEarliestOnce == MergeSpec => []EarliestWrittenOnce
<1>. QED  BY MergeKeepsEarliest, MergeWritesOnce, PTL DEF EarliestWrittenOnce
=============================================================================
